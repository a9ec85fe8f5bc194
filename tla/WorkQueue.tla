----------------------------- MODULE WorkQueue ------------------------------
(***************************************************************************)
(* The bounded, deduplicating, prioritised work queue of analyst/queue.py. *)
(*                                                                         *)
(* Everything runs on one asyncio event loop: a coroutine runs until it    *)
(* awaits something that is not ready.  A worker that comes back from an   *)
(* analysis therefore goes through its loop head, and takes the next item  *)
(* if there is one, before anybody else moves: while a worker is in "loop" *)
(* every other action is disabled (EventLoopFree).                         *)
(*                                                                         *)
(* asyncio.PriorityQueue orders (priority, monotonic time, item), that is  *)
(* one FIFO per priority, and the shutdown sentinels (priority 999) behind *)
(* them all.  A _WorkItem is an element of the pool Items; a settled item  *)
(* nobody refers to any more goes back to the pool.                        *)
(***************************************************************************)
EXTENDS RateWindow, Sequences, FiniteSets

CONSTANTS
    Workers,     \* one task per CPU core
    Items,       \* pool of work items; its size bounds the futures alive
    Resources,   \* the resource strings callers ask about
    Keys,        \* (namespace, workload) pairs
    KeyOf,       \* _WorkItem.dedup_key of each resource: it forgets the kind
    Capacity,    \* _QUEUE_MAX_SIZE
    Threshold,   \* _QUEUE_BACKGROUND_REJECT_THRESHOLD
    MaxStarts,   \* bound: how often start() is called
    None

Priorities == 1..3
INTERACTIVE == 1
BACKGROUND  == 3

ASSUME QueueAssumption ==
    /\ Workers # {} /\ IsFiniteSet(Workers)
    /\ KeyOf \in [Resources -> Keys]
    /\ Capacity \in Nat \ {0}
    /\ Threshold \in 0..Capacity
    /\ MaxStarts \in Nat
    /\ None \notin Items \cup Resources

VARIABLES
    queue,      \* _queue: the work items of each priority, oldest first
    sentinels,  \* shutdown sentinels in _queue
    dedup,      \* _dedup: the item registered under each key
    res, prio,  \* _WorkItem.resource, .priority
    fut,        \* _WorkItem.future
    wstate,     \* where each worker task is
    job,        \* the item a worker is analysing
    phase,      \* how far start() and stop() have come; _running = "running"
    toPut,      \* sentinels stop() still has to put
    starts      \* calls of start() so far
itemVars == <<res, prio>>
stopVars == <<phase, toPut, starts>>
vars == <<queue, sentinels, dedup, res, prio, fut, wstate, job, phase, toPut,
          starts, recent, halvedFor>>

Settled == {"resolved", "failed", "cancelled"}

TypeOK ==
    /\ queue \in [Priorities -> Seq(Items)]
    /\ sentinels \in Nat
    /\ dedup \in [Keys -> Items \cup {None}]
    /\ res \in [Items -> Resources \cup {None}]
    /\ prio \in [Items -> Priorities]
    /\ fut \in [Items -> Settled \cup {"free", "pending"}]
    /\ wstate \in [Workers -> {"none", "ready", "waiting", "loop", "analysing",
                               "exited"}]
    /\ job \in [Workers -> Items \cup {None}]
    /\ phase \in {"new", "running", "putting", "joining", "stopped"}
    /\ toPut \in Nat
    /\ starts \in 0..MaxStarts
    /\ RateTypeOK

-----------------------------------------------------------------------------
running == phase = "running"
KeyOfItem(i) == KeyOf[res[i]]
WorkItems == Len(queue[1]) + Len(queue[2]) + Len(queue[3])
QSize == WorkItems + sentinels
EventLoopFree == \A w \in Workers : wstate[w] # "loop"
Queued(i) == \E p \in Priorities : \E n \in DOMAIN queue[p] : queue[p][n] = i

Init ==
    /\ queue = [p \in Priorities |-> <<>>]
    /\ sentinels = 0
    /\ dedup = [k \in Keys |-> None]
    /\ res = [i \in Items |-> None]
    /\ prio = [i \in Items |-> INTERACTIVE]
    /\ fut = [i \in Items |-> "free"]
    /\ wstate = [w \in Workers |-> "none"]
    /\ job = [w \in Workers |-> None]
    /\ phase = "new"
    /\ toPut = 0
    /\ starts = 0
    /\ RateInit

-----------------------------------------------------------------------------
(* start(): a new empty queue and a fresh set of worker tasks, which have  *)
(* not run yet.  _dedup is not cleared.  One owner calls start() and       *)
(* stop() in turns.                                                        *)
Start ==
    /\ phase \in {"new", "stopped"}
    /\ starts < MaxStarts
    /\ queue' = [p \in Priorities |-> <<>>]
    /\ sentinels' = 0
    /\ wstate' = [w \in Workers |-> "ready"]
    /\ phase' = "running"
    /\ starts' = starts + 1
    /\ UNCHANGED <<dedup, itemVars, fut, job, toPut, rateVars>>

\* Mutant: sentinels that find no room are dropped instead of awaited.
PutSentinelsNoWait(n) ==
    LET room == Capacity - QSize
    IN  /\ sentinels' = sentinels + (IF n <= room THEN n ELSE room)
        /\ toPut' = 0
        /\ phase' = "joining"

(* The part of stop() that awaits put(): sentinels go in while there is    *)
(* room; when all are in, stop() goes on to await the workers.             *)
PutSentinels(n) ==
    LET room == Capacity - QSize
        now  == IF n <= room THEN n ELSE room
    IN  /\ sentinels' = sentinels + now
        /\ toPut' = n - now
        /\ phase' = IF now = n THEN "joining" ELSE "putting"

\* Mutant: one sentinel too few.
StopOneShort ==
    /\ running /\ EventLoopFree
    /\ PutSentinels(Cardinality(Workers) - 1)
    /\ UNCHANGED <<queue, dedup, itemVars, fut, wstate, job, starts, rateVars>>

\* stop() up to the first await that blocks
Stop ==
    /\ running /\ EventLoopFree
    /\ PutSentinels(Cardinality(Workers))
    /\ UNCHANGED <<queue, dedup, itemVars, fut, wstate, job, starts, rateVars>>

\* a put() that was blocked finds room again
StopResumesPut ==
    /\ phase = "putting" /\ EventLoopFree
    /\ QSize < Capacity
    /\ PutSentinels(toPut)
    /\ UNCHANGED <<queue, dedup, itemVars, fut, wstate, job, starts, rateVars>>

\* every awaited worker task has ended
StopReturns ==
    /\ phase = "joining"
    /\ \A w \in Workers : wstate[w] = "exited"
    /\ phase' = "stopped"
    /\ UNCHANGED <<queue, sentinels, dedup, itemVars, fut, wstate, job, toPut,
                   starts, rateVars>>

-----------------------------------------------------------------------------
\* _dedup already has an item for this key: its future is what submit() returns
ReturnExisting(r) ==
    /\ dedup[KeyOf[r]] # None
    /\ UNCHANGED <<queue, dedup, itemVars, fut>>

\* Mutant: off by one at the threshold.
DroppedAbove(p) ==
    \/ p = BACKGROUND /\ QSize > Threshold + 1
    \/ QSize >= Capacity

\* the drop policy: background work above the threshold, all work when full
Dropped(p) ==
    \/ p = BACKGROUND /\ QSize > Threshold
    \/ QSize >= Capacity

Reject(r, p) ==
    /\ dedup[KeyOf[r]] = None
    /\ Dropped(p)
    /\ UNCHANGED <<queue, dedup, itemVars, fut>>

Enqueue(r, p) ==
    /\ dedup[KeyOf[r]] = None
    /\ ~ Dropped(p)
    /\ \E i \in Items :
          /\ fut[i] = "free"
          /\ res' = [res EXCEPT ![i] = r]
          /\ prio' = [prio EXCEPT ![i] = p]
          /\ fut' = [fut EXCEPT ![i] = "pending"]
          /\ dedup' = [dedup EXCEPT ![KeyOf[r]] = i]
          /\ queue' = [queue EXCEPT ![p] = Append(@, i)]

(* submit(): rate limit first (a duplicate or a dropped request has used   *)
(* up its slot), then deduplication, then the drop policy.  Nothing in it  *)
(* asks whether the queue is running.  A call the rate limit refuses       *)
(* changes nothing.                                                        *)
Submit(r, p, degraded, cpuBusy) ==
    /\ phase # "new" /\ EventLoopFree
    /\ Admit(degraded, cpuBusy)
    /\ ReturnExisting(r) \/ Reject(r, p) \/ Enqueue(r, p)
    /\ UNCHANGED <<sentinels, wstate, job, stopVars>>

\* a caller cancels the future it holds; the item stays where it is
Cancel(i) ==
    /\ fut[i] = "pending" /\ EventLoopFree
    /\ fut' = [fut EXCEPT ![i] = "cancelled"]
    /\ UNCHANGED <<queue, sentinels, dedup, itemVars, wstate, job, stopVars,
                   rateVars>>

-----------------------------------------------------------------------------
\* Mutant: the largest priority number first.
LastPriority(p) ==
    /\ queue[p] # <<>>
    /\ \A q \in Priorities : q > p => queue[q] = <<>>

\* PriorityQueue.get(): the oldest item of the most urgent priority
NextPriority(p) ==
    /\ queue[p] # <<>>
    /\ \A q \in Priorities : q < p => queue[q] = <<>>

\* Mutant: the key stays registered while the item is being analysed.
TakeItemKeepsKey(w) ==
    \E p \in Priorities :
        /\ NextPriority(p)
        /\ LET i == Head(queue[p])
           IN  /\ queue' = [queue EXCEPT ![p] = Tail(@)]
               /\ wstate' = [wstate EXCEPT ![w] = "analysing"]
               /\ job' = [job EXCEPT ![w] = i]
        /\ UNCHANGED <<sentinels, dedup>>

TakeItem(w) ==
    \E p \in Priorities :
        /\ NextPriority(p)
        /\ LET i == Head(queue[p])
           IN  /\ queue' = [queue EXCEPT ![p] = Tail(@)]
               /\ dedup' = [dedup EXCEPT ![KeyOfItem(i)] = None]
               /\ IF fut[i] = "cancelled"
                  THEN /\ wstate' = [wstate EXCEPT ![w] = "loop"]
                       /\ UNCHANGED job
                  ELSE /\ wstate' = [wstate EXCEPT ![w] = "analysing"]
                       /\ job' = [job EXCEPT ![w] = i]
        /\ UNCHANGED sentinels

\* Mutant: an empty queue is taken for a sentinel.
TakeSentinelUnasked(w) ==
    /\ WorkItems = 0
    /\ sentinels' = sentinels - 1
    /\ wstate' = [wstate EXCEPT ![w] = "exited"]
    /\ UNCHANGED <<queue, dedup, job>>

TakeSentinel(w) ==
    /\ WorkItems = 0 /\ sentinels > 0
    /\ sentinels' = sentinels - 1
    /\ wstate' = [wstate EXCEPT ![w] = "exited"]
    /\ UNCHANGED <<queue, dedup, job>>

\* while self._running: entry = await self._queue.get() ...
LoopHead(w) ==
    /\ \/ wstate[w] = "loop"
       \/ wstate[w] = "ready" /\ EventLoopFree
    /\ \/ /\ ~ running
          /\ wstate' = [wstate EXCEPT ![w] = "exited"]
          /\ UNCHANGED <<queue, sentinels, dedup, job>>
       \/ /\ running /\ QSize = 0
          /\ wstate' = [wstate EXCEPT ![w] = "waiting"]
          /\ UNCHANGED <<queue, sentinels, dedup, job>>
       \/ running /\ TakeItem(w)
    /\ UNCHANGED <<itemVars, fut, stopVars, rateVars>>

\* a get() that was blocked returns: _running is not looked at again
GetResumes(w) ==
    /\ wstate[w] = "waiting" /\ EventLoopFree
    /\ TakeItem(w) \/ TakeSentinel(w)
    /\ UNCHANGED <<itemVars, fut, stopVars, rateVars>>

\* Mutant: no look at future.done() before the outcome is set.
FinishAnalysisAnyway(w, outcome) ==
    /\ wstate[w] = "analysing" /\ EventLoopFree
    /\ fut' = [fut EXCEPT ![job[w]] = outcome]
    /\ job' = [job EXCEPT ![w] = None]
    /\ wstate' = [wstate EXCEPT ![w] = "loop"]
    /\ UNCHANGED <<queue, sentinels, dedup, itemVars, stopVars, rateVars>>

\* Mutant: an analysis that raises leaves the future alone.
FinishAnalysisSilently(w, outcome) ==
    /\ wstate[w] = "analysing" /\ EventLoopFree
    /\ LET i == job[w]
       IN  fut' = [fut EXCEPT ![i] = IF @ = "pending" /\ outcome = "resolved"
                                    THEN outcome ELSE @]
    /\ job' = [job EXCEPT ![w] = None]
    /\ wstate' = [wstate EXCEPT ![w] = "loop"]
    /\ UNCHANGED <<queue, sentinels, dedup, itemVars, stopVars, rateVars>>

\* analyze_fn returns or raises; the future is left alone if it is done
FinishAnalysis(w, outcome) ==
    /\ wstate[w] = "analysing" /\ EventLoopFree
    /\ LET i == job[w]
       IN  fut' = [fut EXCEPT ![i] = IF @ = "pending" THEN outcome ELSE @]
    /\ job' = [job EXCEPT ![w] = None]
    /\ wstate' = [wstate EXCEPT ![w] = "loop"]
    /\ UNCHANGED <<queue, sentinels, dedup, itemVars, stopVars, rateVars>>

\* nobody refers to the settled item any more
Forget(i) ==
    /\ fut[i] \in Settled /\ EventLoopFree
    /\ ~ Queued(i)
    /\ \A w \in Workers : job[w] # i
    /\ \A k \in Keys : dedup[k] # i
    /\ fut' = [fut EXCEPT ![i] = "free"]
    /\ res' = [res EXCEPT ![i] = None]
    /\ prio' = [prio EXCEPT ![i] = INTERACTIVE]
    /\ UNCHANGED <<queue, sentinels, dedup, wstate, job, stopVars, rateVars>>

Upstream429 ==
    /\ EventLoopFree
    /\ Notify429
    /\ UNCHANGED <<queue, sentinels, dedup, itemVars, fut, wstate, job, stopVars>>

Tick ==
    /\ EventLoopFree
    /\ RateTick
    /\ UNCHANGED <<queue, sentinels, dedup, itemVars, fut, wstate, job, stopVars>>

-----------------------------------------------------------------------------
WorkerStep(w) ==
    \/ LoopHead(w)
    \/ GetResumes(w)
    \/ \E outcome \in {"resolved", "failed"} : FinishAnalysis(w, outcome)

Serving ==
    \/ \E r \in Resources, p \in Priorities, degraded, cpuBusy \in BOOLEAN :
          Submit(r, p, degraded, cpuBusy)
    \/ \E i \in Items : Cancel(i) \/ Forget(i)
    \/ \E w \in Workers : WorkerStep(w)
    \/ Upstream429
    \/ Tick

Stopping == Stop \/ StopResumesPut \/ StopReturns

Next == Start \/ Serving \/ Stopping

Spec == Init /\ [][Next]_vars

(* asyncio runs every task that is ready.  analyze_fn is taken to return   *)
(* or raise in the end, as the coordinator bounds each of its calls by a   *)
(* timeout; its worker is then in the ready queue, however often another   *)
(* worker gets the event loop first, hence the strong fairness.  A blocked *)
(* get() has no such claim: another worker may always take the item first. *)
Fairness ==
    /\ \A w \in Workers :
          /\ WF_vars(LoopHead(w)) /\ WF_vars(GetResumes(w))
          /\ SF_vars(\E outcome \in {"resolved", "failed"} : FinishAnalysis(w, outcome))
    /\ WF_vars(StopResumesPut)
    /\ WF_vars(StopReturns)

FairSpec == Spec /\ Fairness

-----------------------------------------------------------------------------
(* The registry _dedup and the queue agree: an item in the queue is the    *)
(* one registered under its key and is there once, and what is registered  *)
(* is in the queue, so that a duplicate is handed a future some worker     *)
(* will settle.  (After a restart _dedup may hold items of the old queue.) *)
RegistryMatchesQueue ==
    /\ \A p, q \in Priorities : \A m \in DOMAIN queue[p], n \in DOMAIN queue[q] :
          queue[p][m] = queue[q][n] => p = q /\ m = n
    /\ \A p \in Priorities : \A n \in DOMAIN queue[p] :
          /\ dedup[KeyOfItem(queue[p][n])] = queue[p][n]
          /\ prio[queue[p][n]] = p
    /\ \A k \in Keys : dedup[k] # None =>
          /\ KeyOfItem(dedup[k]) = k
          /\ starts <= 1 => Queued(dedup[k])

(* A future a caller may be waiting on is never lost inside the running    *)
(* queue: its item is in the queue or with exactly one worker, never both. *)
PendingIsOwned ==
    /\ \A i \in Items :
          fut[i] = "pending" /\ starts <= 1 =>
              Queued(i) \/ \E w \in Workers : job[w] = i
    /\ \A v, w \in Workers : job[v] = job[w] /\ job[v] # None => v = w
    /\ \A w \in Workers : ~ Queued(job[w])

(* The drop policy keeps room for urgent work: whatever the order of the   *)
(* calls, background items alone never fill the queue past the threshold.  *)
BackgroundLeavesRoom ==
    /\ QSize <= Capacity
    /\ Len(queue[BACKGROUND]) <= Threshold + 1

(* Once stop() awaits its workers there is a sentinel for each of them     *)
(* that has not ended: none can stay blocked in get() for ever.            *)
SentinelForEachWorker ==
    phase = "joining" =>
        Cardinality({w \in Workers : wstate[w] # "exited"}) <= sentinels

(* A future is settled once: a late result never overwrites a cancellation *)
(* or an earlier outcome.                                                  *)
SettledOnce ==
    [][\A i \in Items : fut[i] \in Settled => fut'[i] \in {fut[i], "free"}]_vars

\* What the callers see of the queue.
Requests == INSTANCE AnalysisRequests WITH
    waiting <- {i \in Items : Queued(i)},
    serving <- {i \in Items : \E w \in Workers : job[w] = i},
    outcome <- fut, subject <- res, urgency <- prio

(* The queue implements what it promises: each request is served at most   *)
(* once and by one worker, the most urgent first, two requests for one     *)
(* workload never wait together, and a restart is the only thing that      *)
(* takes a request out of the queue unserved.                              *)
ServesRequests == Requests!Spec

(* The last minute never holds more calls than the default rate, and a     *)
(* call let through while the 429 halving lasts leaves at most half of it. *)
RateBounded == CallsInWindow <= DefaultRate
HalvedWhileBackingOff ==
    [][CallsInWindow' > CallsInWindow /\ halvedFor > 0
          => CallsInWindow' <= HalfRate]_vars

(* While the queue runs, every interactive request is answered, cancelled  *)
(* or failed in the end, whatever other work keeps arriving.               *)
InteractiveServed ==
    \A i \in Items :
        (running /\ fut[i] = "pending" /\ prio[i] = INTERACTIVE)
            ~> (fut[i] # "pending" \/ ~ running)

(* A stop() that has put its sentinels returns: no worker stays blocked in *)
(* get(), and none is kept for ever by the work still queued.              *)
JoinReturns == (phase = "joining") ~> (phase = "stopped")

(* What the docstring of submit() promises: "Returns a Future that         *)
(* resolves to the RCAResponse."                                           *)
FuturesResolve == \A i \in Items : (fut[i] = "pending") ~> (fut[i] # "pending")
=============================================================================
