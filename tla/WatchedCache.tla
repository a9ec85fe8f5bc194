---------------------------- MODULE WatchedCache ----------------------------
(***************************************************************************)
(* One kind of the ResourceCache kept up to date by its watcher: the       *)
(* startup list (ResourceCache._list_kind), the watcher started later, and *)
(* the handler the application wraps around PodWatcher and NodeWatcher     *)
(* (app.py), which calls cache.update() and cache.remove().                *)
(*                                                                         *)
(* The cluster is external: an object's resourceVersion is the number of   *)
(* the write that made it.  A watch opened at version r delivers the       *)
(* writes after r in order, or 410 once r is compacted; one opened without *)
(* a version first delivers each object that exists as ADDED, in any       *)
(* order.                                                                  *)
(***************************************************************************)
EXTENDS Watcher, Sequences, FiniteSets, FiniteSetsExt

CONSTANTS
    Names,      \* names an object of this kind may have
    Cap,        \* _LIST_CAP_DEFAULT or _LIST_CAP_NODES
    MaxWrites,  \* bound: writes to the cluster
    MaxErrors   \* bound: errors the API server answers with

ASSUME WatchedCacheAssumption ==
    /\ IsFiniteSet(Names)
    /\ Cap \in Nat \ {0}
    /\ MaxWrites \in Nat \ {0} /\ MaxErrors \in Nat

VARIABLES
    log,       \* external: the writes, in resourceVersion order
    compacted, \* external: watches from below this version get 410
    pos,       \* external: the last write the open stream has delivered
    snapshot,  \* external: objects the open stream has still to send as ADDED
    errors,    \* errors answered so far
    listed,    \* populate() has listed the kind
    cache,     \* _store[kind]: the version cached of each name, Absent if none
    truncated, \* _truncated[kind]
    unsynced   \* history: names whose last write no stream is going to deliver
clusterVars == <<log, compacted>>
streamVars  == <<pos, snapshot>>
storeVars   == <<cache, truncated>>
vars == <<pc, rv, failures, burst, throttled, backoff, log, compacted, pos,
          snapshot, errors, listed, cache, truncated, unsynced>>

Absent == 0
LastWrite == Len(log)
Writes == [op : {"ADDED", "MODIFIED", "DELETED"}, name : Names]

\* the version of name n after the first r writes
VersionAt(n, r) ==
    LET of == {k \in 1..r : log[k].name = n}
    IN  IF of = {} \/ log[Max(of)].op = "DELETED" THEN Absent ELSE Max(of)
Present(n) == VersionAt(n, LastWrite) # Absent
CachedNames == {n \in Names : cache[n] # Absent}

TypeOK ==
    /\ WatcherTypeOK
    /\ log \in Seq(Writes) /\ LastWrite <= MaxWrites
    /\ compacted \in 0..LastWrite /\ pos \in 0..LastWrite
    /\ snapshot \subseteq Names /\ unsynced \subseteq Names
    /\ errors \in 0..MaxErrors
    /\ listed \in BOOLEAN /\ truncated \in BOOLEAN
    /\ cache \in [Names -> 0..LastWrite]

Init ==
    /\ WatcherInit
    /\ \E n \in Names : log = <<[op |-> "ADDED", name |-> n]>>
    /\ compacted = 0 /\ pos = 0 /\ snapshot = {} /\ errors = 0
    /\ listed = FALSE
    /\ cache = [n \in Names |-> Absent]
    /\ truncated = FALSE
    /\ unsynced = {}

-----------------------------------------------------------------------------
\* external: somebody writes to the cluster
ClusterWrite(n) ==
    /\ LastWrite < MaxWrites
    /\ \/ ~ Present(n) /\ log' = Append(log, [op |-> "ADDED", name |-> n])
       \/ Present(n) /\ \E op \in {"MODIFIED", "DELETED"} :
                           log' = Append(log, [op |-> op, name |-> n])
    /\ UNCHANGED <<watcherVars, compacted, streamVars, errors, listed, storeVars, unsynced>>

\* external: the API server forgets old writes
Compact ==
    /\ compacted < LastWrite
    /\ compacted' = LastWrite
    /\ UNCHANGED <<watcherVars, log, streamVars, errors, listed, storeVars, unsynced>>

-----------------------------------------------------------------------------
(* _list_kind(): the first Cap objects are stored; the continue token says *)
(* whether there were more.  The watchers are not running yet.             *)
ListAtStartup ==
    /\ ~ listed /\ pc = "new"
    /\ listed' = TRUE
    /\ \E S \in SUBSET {n \in Names : Present(n)} :
          /\ Cardinality(S) = Min2(Cap, Cardinality({n \in Names : Present(n)}))
          /\ cache' = [n \in Names |-> IF n \in S THEN VersionAt(n, LastWrite) ELSE Absent]
          /\ truncated' = \E n \in Names \ S : Present(n)
    /\ UNCHANGED <<watcherVars, clusterVars, streamVars, errors, unsynced>>

\* the list call raises: it is logged and the kind left as it is
ListAtStartupFails ==
    /\ ~ listed /\ pc = "new"
    /\ errors < MaxErrors /\ errors' = errors + 1
    /\ listed' = TRUE
    /\ UNCHANGED <<watcherVars, clusterVars, streamVars, storeVars, unsynced>>

\* the application starts the watchers after the cache
Start ==
    /\ listed
    /\ StartWatcher
    /\ UNCHANGED <<clusterVars, streamVars, errors, listed, storeVars, unsynced>>

(* The application stops the watchers it remembers; a watcher that is      *)
(* started again resumes where it was.  Costs one of the errors.           *)
Stop ==
    /\ errors < MaxErrors /\ errors' = errors + 1
    /\ StopWatcher
    /\ snapshot' = {}
    /\ unsynced' = unsynced \cup {n \in snapshot : cache[n] # VersionAt(n, pos)}
    /\ UNCHANGED <<clusterVars, pos, listed, storeVars>>

(* The watch request at the watcher's version.  Without one, the server    *)
(* tells what exists: an object deleted in the meantime is never mentioned.*)
Open ==
    /\ StreamOpens
    /\ rv >= compacted \/ rv = NoRV
    /\ pos' = IF rv = NoRV THEN LastWrite ELSE rv
    /\ snapshot' = IF rv = NoRV THEN {n \in Names : Present(n)} ELSE {}
    /\ unsynced' = IF rv = NoRV
                   THEN {n \in CachedNames : ~ Present(n)}
                   ELSE unsynced
    /\ UNCHANGED <<clusterVars, errors, listed, storeVars>>

\* Mutant: no cap on watch events.
UpdateUncapped(n, version) ==
    /\ cache' = [cache EXCEPT ![n] = version]
    /\ UNCHANGED truncated

(* cache.update(): an object already cached is overwritten, whatever the   *)
(* versions are; a new one is dropped at the cap, and the kind marked.     *)
Update(n, version) ==
    IF cache[n] = Absent /\ Cardinality(CachedNames) >= Cap
    THEN /\ truncated' = TRUE
         /\ UNCHANGED cache
    ELSE /\ cache' = [cache EXCEPT ![n] = version]
         /\ UNCHANGED truncated

\* Mutant: a DELETED event is ignored.
RemoveIgnored(n) == UNCHANGED <<cache, truncated>>

\* cache.remove()
Remove(n) ==
    /\ cache' = [cache EXCEPT ![n] = Absent]
    /\ UNCHANGED truncated

\* a synthetic ADDED: its version, maybe an old one, becomes the watcher's
DeliverSnapshot(n) ==
    /\ n \in snapshot
    /\ ReceiveEvent(VersionAt(n, pos))
    /\ Update(n, VersionAt(n, pos))
    /\ snapshot' = snapshot \ {n}
    /\ unsynced' = unsynced \ {n}
    /\ UNCHANGED <<clusterVars, pos, errors, listed>>

\* the next write: the resourceVersion first, then the handler
Deliver ==
    /\ snapshot = {} /\ pos < LastWrite
    /\ LET w == log[pos + 1]
       IN  /\ ReceiveEvent(pos + 1)
           /\ IF w.op = "DELETED" THEN Remove(w.name) ELSE Update(w.name, pos + 1)
           /\ unsynced' = unsynced \ {w.name}
    /\ pos' = pos + 1
    /\ UNCHANGED <<clusterVars, snapshot, errors, listed>>

\* external: the server tells how far the stream is
Bookmark ==
    /\ snapshot = {} /\ pos > 0
    /\ ReceiveEvent(pos)
    /\ UNCHANGED <<clusterVars, streamVars, errors, listed, storeVars, unsynced>>

(* The stream breaks, or the request is refused.  What a stream opened     *)
(* without a version had still to send is lost unless the next one starts  *)
(* from scratch too, or an object of it is written again.                  *)
Break(failure) ==
    /\ errors < MaxErrors /\ errors' = errors + 1
    /\ failure
    /\ snapshot' = {}
    /\ unsynced' = unsynced \cup {n \in snapshot : cache[n] # VersionAt(n, pos)}
    /\ UNCHANGED <<clusterVars, pos, listed, storeVars>>

\* 410, because the version is compacted, costs no error
VersionGone ==
    /\ pc = "opening" /\ rv # NoRV /\ rv < compacted
    /\ Gone
    /\ UNCHANGED <<clusterVars, streamVars, errors, listed, storeVars, unsynced>>

BackoffOver ==
    /\ BackoffEnds
    /\ UNCHANGED <<clusterVars, streamVars, errors, listed, storeVars, unsynced>>

(* The relist: its version becomes the watcher's.  The writes since the    *)
(* last one seen are in the listed items, and those are not looked at.     *)
Relisted ==
    /\ ListReturns(LastWrite)
    /\ unsynced' = {n \in Names : cache[n] # VersionAt(n, LastWrite)}
    /\ UNCHANGED <<clusterVars, streamVars, errors, listed, storeVars>>

RelistGoesWrong ==
    /\ errors < MaxErrors /\ errors' = errors + 1
    /\ RelistError
    /\ UNCHANGED <<clusterVars, streamVars, listed, storeVars, unsynced>>

Time ==
    /\ TimePasses
    /\ UNCHANGED <<clusterVars, streamVars, errors, listed, storeVars, unsynced>>

-----------------------------------------------------------------------------
Cluster == (\E n \in Names : ClusterWrite(n)) \/ Compact
Delivery == Deliver \/ (\E n \in Names : DeliverSnapshot(n))
Failing ==
    \/ Break(TooManyRequests) \/ Break(ServerError) \/ Break(OtherFailure)
    \/ RelistGoesWrong

Next ==
    \/ Cluster
    \/ ListAtStartup \/ ListAtStartupFails
    \/ Start \/ Stop
    \/ Open \/ VersionGone
    \/ Delivery \/ Bookmark
    \/ Failing
    \/ BackoffOver \/ Relisted \/ Time

Spec == Init /\ [][Next]_vars

(* The API server answers in the end and its errors are finitely many      *)
(* (MaxErrors); the loop, being the only one in its task, goes on.         *)
(* Nothing is asked of the startup list.                                   *)
WatchFairness ==
    /\ WF_vars(Start)
    /\ WF_vars(Open) /\ WF_vars(VersionGone)
    /\ WF_vars(Delivery)
    /\ WF_vars(BackoffOver) /\ WF_vars(Relisted)

FairSpec == Spec /\ WatchFairness

-----------------------------------------------------------------------------
CaughtUp == pc = "streaming" /\ snapshot = {} /\ pos = LastWrite

(* A watcher that has read its stream to the end has a cache that agrees   *)
(* with the cluster, but for the objects a relist, a start from scratch or *)
(* an interrupted one skipped (unsynced) and those the cap kept out, which *)
(* mark the kind truncated: no order of redeliveries, resumptions from an  *)
(* older version, compactions or startup gaps adds to that.                *)
CaughtUpAgrees ==
    CaughtUp => \A n \in Names \ unsynced :
                    \/ cache[n] = VersionAt(n, LastWrite)
                    \/ cache[n] = Absent /\ truncated

\* Listing and watching together never hold more objects than the cap.
WithinCap == Cardinality(CachedNames) <= Cap

(* A watcher that asks for a stream reads it to the end for good once the  *)
(* cluster is quiet and the server healthy, whatever mix of 410s,          *)
(* throttled relists, fallbacks and back-offs comes in between.            *)
CatchesUp == (pc = "opening") ~> []CaughtUp

(* "Perform a bounded relist to recover a diverged watch stream": whatever *)
(* the broken stream missed of an object that exists while the relist      *)
(* asks for its list, the cache comes to hold the object as it is.         *)
RelistRecovers ==
    \A n \in Names :
        (pc = "listing" /\ Present(n)) ~> (cache[n] = VersionAt(n, LastWrite))
=============================================================================
