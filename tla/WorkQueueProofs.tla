-------------------------- MODULE WorkQueueProofs ---------------------------
(***************************************************************************)
(* What TLAPS proves about WorkQueue for every number of workers, items,   *)
(* resources and keys, every capacity and threshold, and any number of     *)
(* restarts.                                                               *)
(*                                                                         *)
(* The invariants of WorkQueue are not inductive one by one: that an item  *)
(* is in the queue once rests on enqueued items being fresh, that on the   *)
(* registry, the queue and the workers holding no free item, and so on.    *)
(* IInv puts them together with the three facts they lean on.              *)
(***************************************************************************)
EXTENDS WorkQueue, AgedCountsProofs, FiniteSetTheorems, SequenceTheorems, TLAPS

\* nobody submits before the first start(), and no task runs outside a run
Lifecycle ==
    /\ phase = "new" <=> starts = 0
    /\ phase = "new" => /\ \A k \in Keys : dedup[k] = None
                        /\ \A i \in Items : fut[i] = "free"
    /\ phase \in {"new", "stopped"} => \A w \in Workers : wstate[w] \in {"none", "exited"}

\* an item that the queue, the registry or a worker refers to is not free
ItemsInUse ==
    /\ \A i \in Items : fut[i] # "free" => res[i] \in Resources
    /\ \A p \in Priorities : \A n \in DOMAIN queue[p] : fut[queue[p][n]] # "free"
    /\ \A k \in Keys : dedup[k] # None => fut[dedup[k]] # "free"
    /\ \A w \in Workers : wstate[w] = "analysing" <=> job[w] # None
    /\ \A w \in Workers : job[w] # None => fut[job[w]] # "free"

\* the sentinels put and still to put are as many as the workers need
EnoughSentinels ==
    /\ phase \in {"new", "running"} => sentinels = 0
    /\ phase # "putting" => toPut = 0
    /\ phase \in {"putting", "joining"} =>
          Cardinality({w \in Workers : wstate[w] # "exited"}) <= sentinels + toPut

IInv ==
    /\ TypeOK
    /\ RegistryMatchesQueue
    /\ PendingIsOwned
    /\ BackgroundLeavesRoom
    /\ Lifecycle
    /\ ItemsInUse
    /\ EnoughSentinels

-----------------------------------------------------------------------------
(* The steps of Next, told apart by what they do to the variables IInv is  *)
(* about.                                                                  *)
coreVars == <<queue, sentinels, dedup, itemVars, fut, wstate, job, stopVars>>

\* submit() accepts a new request
NewItem(i, r, p) ==
    /\ phase # "new"
    /\ dedup[KeyOf[r]] = None
    /\ ~ Dropped(p)
    /\ fut[i] = "free"
    /\ res' = [res EXCEPT ![i] = r]
    /\ prio' = [prio EXCEPT ![i] = p]
    /\ fut' = [fut EXCEPT ![i] = "pending"]
    /\ dedup' = [dedup EXCEPT ![KeyOf[r]] = i]
    /\ queue' = [queue EXCEPT ![p] = Append(@, i)]
    /\ UNCHANGED <<sentinels, wstate, job, stopVars>>

\* a worker gets the item at the head of queue[p]
ItemTaken(w, p) ==
    /\ wstate[w] \in {"ready", "loop", "waiting"}
    /\ queue[p] # <<>>
    /\ \A q \in Priorities : q < p => queue[q] = <<>>
    /\ queue' = [queue EXCEPT ![p] = Tail(@)]
    /\ dedup' = [dedup EXCEPT ![KeyOfItem(Head(queue[p]))] = None]
    /\ \/ /\ fut[Head(queue[p])] = "cancelled"
          /\ wstate' = [wstate EXCEPT ![w] = "loop"]
          /\ job' = job
       \/ /\ fut[Head(queue[p])] # "cancelled"
          /\ wstate' = [wstate EXCEPT ![w] = "analysing"]
          /\ job' = [job EXCEPT ![w] = Head(queue[p])]
    /\ UNCHANGED <<sentinels, itemVars, fut, stopVars>>

\* a worker gets a sentinel
SentinelTaken(w) ==
    /\ wstate[w] = "waiting"
    /\ sentinels > 0
    /\ sentinels' = sentinels - 1
    /\ wstate' = [wstate EXCEPT ![w] = "exited"]
    /\ UNCHANGED <<queue, dedup, itemVars, fut, job, stopVars>>

\* a worker finds nothing to do, or the queue stopped
WorkerRests(w) ==
    /\ wstate[w] \in {"ready", "loop"}
    /\ \/ ~ running /\ wstate' = [wstate EXCEPT ![w] = "exited"]
       \/ wstate' = [wstate EXCEPT ![w] = "waiting"]
    /\ UNCHANGED <<queue, sentinels, dedup, itemVars, fut, job, stopVars>>

(* Every step is one of these or leaves coreVars alone.                    *)
LEMMA StepCases ==
    ASSUME [Next]_vars
    PROVE  \/ Start \/ Stop \/ StopResumesPut \/ StopReturns
           \/ \E i \in Items, r \in Resources, p \in Priorities : NewItem(i, r, p)
           \/ \E i \in Items : Cancel(i) \/ Forget(i)
           \/ \E w \in Workers, p \in Priorities : ItemTaken(w, p)
           \/ \E w \in Workers : SentinelTaken(w) \/ WorkerRests(w)
           \/ \E w \in Workers, outcome \in {"resolved", "failed"} :
                 FinishAnalysis(w, outcome)
           \/ UNCHANGED coreVars
  <1>1. ASSUME NEW r \in Resources, NEW p \in Priorities,
               NEW degraded \in BOOLEAN, NEW cpuBusy \in BOOLEAN,
               Submit(r, p, degraded, cpuBusy)
        PROVE  \/ \E i \in Items : NewItem(i, r, p)
               \/ UNCHANGED coreVars
    <2>1. CASE ReturnExisting(r) \/ Reject(r, p)
      BY <1>1, <2>1 DEF Submit, ReturnExisting, Reject, coreVars
    <2>2. CASE Enqueue(r, p)
      BY <1>1, <2>2 DEF Submit, Enqueue, NewItem
    <2>3. QED  BY <1>1, <2>1, <2>2 DEF Submit
  <1>2. ASSUME NEW w \in Workers, TakeItem(w),
               wstate[w] \in {"ready", "loop", "waiting"},
               UNCHANGED <<itemVars, fut, stopVars>>
        PROVE  \E p \in Priorities : ItemTaken(w, p)
    <2>1. PICK p \in Priorities :
            /\ NextPriority(p)
            /\ LET i == Head(queue[p])
               IN  /\ queue' = [queue EXCEPT ![p] = Tail(@)]
                   /\ dedup' = [dedup EXCEPT ![KeyOfItem(i)] = None]
                   /\ IF fut[i] = "cancelled"
                      THEN /\ wstate' = [wstate EXCEPT ![w] = "loop"]
                           /\ UNCHANGED job
                      ELSE /\ wstate' = [wstate EXCEPT ![w] = "analysing"]
                           /\ job' = [job EXCEPT ![w] = i]
            /\ UNCHANGED sentinels
      BY <1>2 DEF TakeItem
    <2>2. QED  BY <1>2, <2>1 DEF ItemTaken, NextPriority
  <1>3. ASSUME NEW w \in Workers, LoopHead(w)
        PROVE  WorkerRests(w) \/ \E p \in Priorities : ItemTaken(w, p)
    <2>1. CASE running /\ TakeItem(w)
      BY <1>2, <1>3, <2>1 DEF LoopHead
    <2>2. CASE ~ (running /\ TakeItem(w))
      BY <1>3, <2>2 DEF LoopHead, WorkerRests
    <2>3. QED  BY <2>1, <2>2
  <1>4. ASSUME NEW w \in Workers, GetResumes(w)
        PROVE  SentinelTaken(w) \/ \E p \in Priorities : ItemTaken(w, p)
    <2>1. CASE TakeItem(w)
      BY <1>2, <1>4, <2>1 DEF GetResumes
    <2>2. CASE TakeSentinel(w)
      BY <1>4, <2>2 DEF GetResumes, TakeSentinel, SentinelTaken
    <2>3. QED  BY <1>4, <2>1, <2>2 DEF GetResumes
  <1>5. ASSUME Upstream429 \/ Tick \/ UNCHANGED vars
        PROVE  UNCHANGED coreVars
    BY <1>5 DEF Upstream429, Tick, vars, coreVars, itemVars, stopVars
  <1>6. QED
    BY <1>1, <1>3, <1>4, <1>5 DEF Next, Serving, Stopping, WorkerStep

-----------------------------------------------------------------------------
(* Lemmas about the parts of a state.                                      *)

\* Arithmetic of three lengths, which the solver only finds outside Len.
LEMMA ThreeLengths ==
    \A a, b, c \in Nat :
        /\ a + b + c \in Nat /\ c <= a + b + c
        /\ (a + 1) + b + c = (a + b + c) + 1
        /\ a + (b + 1) + c = (a + b + c) + 1
        /\ a + b + (c + 1) = (a + b + c) + 1
        /\ (a - 1) + b + c = (a + b + c) - 1
        /\ a + (b - 1) + c = (a + b + c) - 1
        /\ a + b + (c - 1) = (a + b + c) - 1
  OBVIOUS

\* A queue that is filled by no more than its room, or loses a sentinel, fits.
LEMMA RoomIsKept ==
    \A items, old, capacity \in Nat, new \in Int :
        (\/ new - old <= capacity - (items + old)
         \/ new \in {old, old - 1} /\ items + old <= capacity)
        => items + new <= capacity
  OBVIOUS

\* The queue is a sequence per priority, so its sizes are numbers.
LEMMA SizesAreNumbers ==
    ASSUME TypeOK
    PROVE  /\ \A p \in Priorities : /\ queue[p] \in Seq(Items)
                                    /\ Len(queue[p]) \in Nat
                                    /\ DOMAIN queue[p] = 1..Len(queue[p])
           /\ \A p \in Priorities : p = 1 \/ p = 2 \/ p = 3
           /\ 1 \in Priorities /\ 2 \in Priorities /\ 3 \in Priorities
           /\ WorkItems \in Nat /\ QSize \in Nat
           /\ Len(queue[3]) <= QSize
  <1>1. \A p \in Priorities : /\ queue[p] \in Seq(Items)
                             /\ Len(queue[p]) \in Nat
                             /\ DOMAIN queue[p] = 1..Len(queue[p])
    BY DEF TypeOK
  <1>2. /\ 1 \in Priorities /\ 2 \in Priorities /\ 3 \in Priorities
        /\ \A p \in Priorities : p = 1 \/ p = 2 \/ p = 3
    BY DEF Priorities
  <1>3. Len(queue[1]) \in Nat /\ Len(queue[2]) \in Nat /\ Len(queue[3]) \in Nat
    BY <1>1, <1>2
  <1>4. sentinels \in Nat
    BY DEF TypeOK
  <1>5. WorkItems \in Nat /\ Len(queue[3]) <= WorkItems
    BY <1>3, ThreeLengths DEF WorkItems
  <1>6. QSize \in Nat /\ Len(queue[3]) <= QSize
    BY <1>3, <1>4, <1>5 DEF QSize
  <1>7. QED  BY <1>1, <1>2, <1>5, <1>6

\* What is queued are items.
LEMMA QueuedAreItems ==
    ASSUME TypeOK
    PROVE  \A p \in Priorities : \A n \in DOMAIN queue[p] : queue[p][n] \in Items
  BY SizesAreNumbers

\* stop() puts at most the sentinels it was asked for and that fit.
LEMMA PutSentinelsFits ==
    ASSUME TypeOK, QSize <= Capacity, NEW n \in Nat, PutSentinels(n)
    PROVE  /\ sentinels' \in Nat /\ toPut' \in Nat
           /\ sentinels' + toPut' = sentinels + n
           /\ sentinels' - sentinels <= Capacity - QSize
           /\ phase' \in {"putting", "joining"}
           /\ phase' = "joining" => toPut' = 0
  <1>1. QSize \in Nat /\ sentinels \in Nat /\ Capacity \in Nat
    BY SizesAreNumbers, QueueAssumption DEF TypeOK
  <1>2. QED  BY <1>1 DEF PutSentinels

\* There are finitely many workers, so they can be counted.
LEMMA WorkersAreCounted ==
    /\ Cardinality(Workers) \in Nat
    /\ \A S \in SUBSET Workers : /\ IsFiniteSet(S)
                                /\ Cardinality(S) \in Nat
                                /\ Cardinality(S) <= Cardinality(Workers)
  BY QueueAssumption, FS_CardinalityType, FS_Subset

\* The ages of the rate window stay a function to numbers.
LEMMA RateTypes ==
    ASSUME RateTypeOK
    PROVE  /\ \A degraded, cpuBusy : Admit(degraded, cpuBusy) => RateTypeOK'
           /\ Notify429 => RateTypeOK'
           /\ RateTick => RateTypeOK'
           /\ UNCHANGED rateVars => RateTypeOK'
  <1>1. ASSUME NEW degraded, NEW cpuBusy, Admit(degraded, cpuBusy)
        PROVE  RateTypeOK'
    BY <1>1, RateAssumption DEF Admit, Record, RateTypeOK, Ages
  <1>2. Notify429 => RateTypeOK'
    BY RateAssumption DEF Notify429, RateTypeOK
  <1>3. ASSUME RateTick PROVE RateTypeOK'
    <2>1. recent' \in [Ages -> Nat]
      BY <1>3, RateAssumption DEF RateTick, Aged, RateTypeOK, Ages
    <2>2. halvedFor' \in 0..HalveFor
      BY <1>3, RateAssumption DEF RateTick, RateTypeOK
    <2>3. QED  BY <2>1, <2>2 DEF RateTypeOK
  <1>4. UNCHANGED rateVars => RateTypeOK'
    BY DEF rateVars, RateTypeOK
  <1>5. QED  BY <1>1, <1>2, <1>3, <1>4

-----------------------------------------------------------------------------
(* IInv holds initially and every step preserves each part of it.          *)

\* The initial state satisfies IInv.
LEMMA InitIInv ==
    ASSUME Init
    PROVE  IInv
  <1>1. \A p \in Priorities : queue[p] = <<>> /\ Len(queue[p]) = 0 /\ DOMAIN queue[p] = {}
    BY DEF Init
  <1>2. WorkItems = 0 /\ QSize = 0
    BY <1>1 DEF Init, WorkItems, QSize, Priorities
  <1>3. TypeOK
    <2>1. RateTypeOK
      BY RateAssumption DEF Init, RateInit, RateTypeOK, Empty, Ages
    <2>2. QED
      BY <2>1, QueueAssumption
      DEF Init, TypeOK, Priorities, INTERACTIVE
  <1>4. RegistryMatchesQueue /\ PendingIsOwned
    BY <1>1, QueueAssumption DEF Init, RegistryMatchesQueue, PendingIsOwned, Queued
  <1>5. BackgroundLeavesRoom
    BY <1>1, <1>2, QueueAssumption
    DEF BackgroundLeavesRoom, BACKGROUND, Priorities
  <1>6. Lifecycle /\ ItemsInUse /\ EnoughSentinels
    BY <1>1 DEF Init, Lifecycle, ItemsInUse, EnoughSentinels
  <1>7. QED  BY <1>3, <1>4, <1>5, <1>6 DEF IInv

\* A step keeps the types: the sentinels never exceed the room there is.
LEMMA TypeStep ==
    ASSUME TypeOK, QSize <= Capacity, [Next]_vars
    PROVE  TypeOK'
  <1> DEFINE CoreTypeOK ==
          /\ queue \in [Priorities -> Seq(Items)]
          /\ sentinels \in Nat
          /\ dedup \in [Keys -> Items \cup {None}]
          /\ res \in [Items -> Resources \cup {None}]
          /\ prio \in [Items -> Priorities]
          /\ fut \in [Items -> Settled \cup {"free", "pending"}]
          /\ wstate \in [Workers -> {"none", "ready", "waiting", "loop", "analysing",
                                     "exited"}]
          /\ job \in [Workers -> Items \cup {None}]
          /\ phase \in {"new", "running", "putting", "joining", "stopped"}
          /\ toPut \in Nat
          /\ starts \in 0..MaxStarts
  <1>1. CoreTypeOK
    BY DEF TypeOK
  <1>2. RateTypeOK'
    BY RateTypes
    DEF TypeOK, Next, Serving, Stopping, WorkerStep, vars, rateVars, Start, Stop,
        StopResumesPut, StopReturns, Submit, Cancel, Forget, LoopHead, GetResumes,
        FinishAnalysis, Upstream429, Tick
  <1> SUFFICES CoreTypeOK'
    BY <1>2 DEF TypeOK
  <1>3. CASE Start
    BY <1>1, <1>3, QueueAssumption DEF Start, itemVars, Priorities
  <1>4. CASE Stop \/ StopResumesPut
    <2>1. PICK n \in Nat : PutSentinels(n)
      BY <1>4, <1>1, WorkersAreCounted DEF Stop, StopResumesPut
    <2>2. sentinels' \in Nat /\ toPut' \in Nat /\ phase' \in {"putting", "joining"}
      BY <2>1, PutSentinelsFits
    <2>3. QED  BY <1>1, <1>4, <2>2 DEF Stop, StopResumesPut, itemVars
  <1>5. CASE StopReturns
    BY <1>1, <1>5 DEF StopReturns, itemVars
  <1>6. ASSUME NEW i \in Items, NEW r \in Resources, NEW p \in Priorities,
               NewItem(i, r, p)
        PROVE  CoreTypeOK'
    <2>1. queue' \in [Priorities -> Seq(Items)]
      BY <1>1, <1>6, AppendProperties DEF NewItem
    <2>2. dedup' \in [Keys -> Items \cup {None}]
      BY <1>1, <1>6 DEF NewItem
    <2>3. QED
      BY <1>1, <1>6, <2>1, <2>2 DEF NewItem, stopVars
  <1>7. ASSUME NEW i \in Items, Cancel(i) \/ Forget(i)
        PROVE  CoreTypeOK'
    <2>1. CASE Cancel(i)
      BY <1>1, <2>1 DEF Cancel, itemVars, stopVars, Settled
    <2>2. CASE Forget(i)
      BY <1>1, <2>2 DEF Forget, stopVars, Priorities, INTERACTIVE
    <2>3. QED  BY <1>7, <2>1, <2>2
  <1>8. ASSUME NEW w \in Workers, NEW p \in Priorities, ItemTaken(w, p)
        PROVE  CoreTypeOK'
    <2>1. Head(queue[p]) \in Items /\ Tail(queue[p]) \in Seq(Items)
      BY <1>1, <1>8, HeadTailProperties DEF ItemTaken
    <2>2. QED
      BY <1>1, <1>8, <2>1 DEF ItemTaken, itemVars, stopVars
  <1>9. ASSUME NEW w \in Workers, SentinelTaken(w) \/ WorkerRests(w)
        PROVE  CoreTypeOK'
    <2>1. CASE SentinelTaken(w)
      BY <1>1, <2>1 DEF SentinelTaken, itemVars, stopVars
    <2>2. CASE WorkerRests(w)
      BY <1>1, <2>2 DEF WorkerRests, itemVars, stopVars
    <2>3. QED  BY <1>9, <2>1, <2>2
  <1>10. ASSUME NEW w \in Workers, NEW outcome \in {"resolved", "failed"},
                FinishAnalysis(w, outcome)
         PROVE  CoreTypeOK'
    BY <1>1, <1>10 DEF FinishAnalysis, itemVars, stopVars, Settled
  <1>11. CASE UNCHANGED coreVars
    BY <1>1, <1>11 DEF coreVars, itemVars, stopVars
  <1>12. QED
    BY StepCases, <1>3, <1>4, <1>5, <1>6, <1>7, <1>8, <1>9, <1>10, <1>11

\* What an accepted request does to the queue.
LEMMA QueueAfterNewItem ==
    ASSUME TypeOK, NEW i \in Items, NEW r \in Resources, NEW p \in Priorities,
           NewItem(i, r, p)
    PROVE  /\ \A q \in Priorities : q # p => queue'[q] = queue[q]
           /\ Len(queue'[p]) = Len(queue[p]) + 1
           /\ DOMAIN queue'[p] = 1..Len(queue[p]) + 1
           /\ \A n \in 1..Len(queue[p]) : queue'[p][n] = queue[p][n]
           /\ queue'[p][Len(queue[p]) + 1] = i
           /\ WorkItems' = WorkItems + 1
           /\ QSize' = QSize + 1
  <1>1. queue[p] \in Seq(Items) /\ queue' = [queue EXCEPT ![p] = Append(queue[p], i)]
    BY DEF TypeOK, NewItem
  <1>2. /\ \A q \in Priorities : q # p => queue'[q] = queue[q]
        /\ queue'[p] = Append(queue[p], i)
    BY <1>1 DEF TypeOK
  <1>3. /\ Len(queue'[p]) = Len(queue[p]) + 1
        /\ DOMAIN queue'[p] = 1..Len(queue[p]) + 1
        /\ \A n \in 1..Len(queue[p]) : queue'[p][n] = queue[p][n]
        /\ queue'[p][Len(queue[p]) + 1] = i
    BY <1>1, <1>2, AppendProperties
  <1>4. WorkItems' = WorkItems + 1
    <2>1. Len(queue[1]) \in Nat /\ Len(queue[2]) \in Nat /\ Len(queue[3]) \in Nat
      BY SizesAreNumbers
    <2>2. p = 1 \/ p = 2 \/ p = 3
      BY SizesAreNumbers
    <2>4. CASE p = 1
      <3>1. /\ Len(queue'[1]) = (Len(queue[1]) + 1)
            /\ Len(queue'[2]) = Len(queue[2])
            /\ Len(queue'[3]) = Len(queue[3])
        BY <2>4, <1>2, <1>3, SizesAreNumbers
      <3>2. WorkItems' = (Len(queue[1]) + 1) + Len(queue[2]) + Len(queue[3])
        BY <3>1, Zenon DEF WorkItems
      <3>3. QED  BY <2>1, <3>2, ThreeLengths, Zenon DEF WorkItems
    <2>5. CASE p = 2
      <3>1. /\ Len(queue'[1]) = Len(queue[1])
            /\ Len(queue'[2]) = (Len(queue[2]) + 1)
            /\ Len(queue'[3]) = Len(queue[3])
        BY <2>5, <1>2, <1>3, SizesAreNumbers
      <3>2. WorkItems' = Len(queue[1]) + (Len(queue[2]) + 1) + Len(queue[3])
        BY <3>1, Zenon DEF WorkItems
      <3>3. QED  BY <2>1, <3>2, ThreeLengths, Zenon DEF WorkItems
    <2>6. CASE p = 3
      <3>1. /\ Len(queue'[1]) = Len(queue[1])
            /\ Len(queue'[2]) = Len(queue[2])
            /\ Len(queue'[3]) = (Len(queue[3]) + 1)
        BY <2>6, <1>2, <1>3, SizesAreNumbers
      <3>2. WorkItems' = Len(queue[1]) + Len(queue[2]) + (Len(queue[3]) + 1)
        BY <3>1, Zenon DEF WorkItems
      <3>3. QED  BY <2>1, <3>2, ThreeLengths, Zenon DEF WorkItems
    <2>7. QED  BY <2>2, <2>4, <2>5, <2>6
  <1>5. QSize' = QSize + 1
    BY <1>4, SizesAreNumbers DEF QSize, NewItem, TypeOK
  <1>6. QED  BY <1>2, <1>3, <1>4, <1>5

\* What a worker's get() does to the queue.
LEMMA QueueAfterTake ==
    ASSUME TypeOK, NEW w \in Workers, NEW p \in Priorities, ItemTaken(w, p)
    PROVE  /\ \A q \in Priorities : q # p => queue'[q] = queue[q]
           /\ Len(queue[p]) \in Nat \ {0}
           /\ Len(queue'[p]) = Len(queue[p]) - 1
           /\ DOMAIN queue'[p] = 1..Len(queue[p]) - 1
           /\ \A n \in 1..Len(queue[p]) - 1 : queue'[p][n] = queue[p][n + 1]
           /\ Head(queue[p]) = queue[p][1] /\ Head(queue[p]) \in Items
           /\ QSize' = QSize - 1
  <1>1. /\ queue[p] \in Seq(Items) /\ queue[p] # <<>>
        /\ queue' = [queue EXCEPT ![p] = Tail(queue[p])]
    BY DEF TypeOK, ItemTaken
  <1>2. /\ \A q \in Priorities : q # p => queue'[q] = queue[q]
        /\ queue'[p] = Tail(queue[p])
    BY <1>1 DEF TypeOK
  <1>3. /\ Len(queue[p]) \in Nat \ {0}
        /\ Len(queue'[p]) = Len(queue[p]) - 1
        /\ DOMAIN queue'[p] = 1..Len(queue[p]) - 1
        /\ \A n \in 1..Len(queue[p]) - 1 : queue'[p][n] = queue[p][n + 1]
        /\ Head(queue[p]) = queue[p][1] /\ Head(queue[p]) \in Items
    <2>1. Head(queue[p]) \in Items /\ Head(queue[p]) = queue[p][1]
      BY <1>1, HeadTailProperties
    <2>2. /\ Tail(queue[p]) \in Seq(Items)
          /\ Len(Tail(queue[p])) = Len(queue[p]) - 1
          /\ \A n \in 1..Len(Tail(queue[p])) : Tail(queue[p])[n] = queue[p][n + 1]
      BY <1>1, HeadTailProperties
    <2>3. Len(queue[p]) \in Nat \ {0}
      BY <1>1
    <2>4. DOMAIN Tail(queue[p]) = 1..Len(Tail(queue[p]))
      BY <2>2
    <2>5. QED  BY <1>2, <2>1, <2>2, <2>3, <2>4
  <1>4. WorkItems' = WorkItems - 1
    <2>1. Len(queue[1]) \in Nat /\ Len(queue[2]) \in Nat /\ Len(queue[3]) \in Nat
      BY SizesAreNumbers
    <2>2. p = 1 \/ p = 2 \/ p = 3
      BY SizesAreNumbers
    <2>4. CASE p = 1
      <3>1. /\ Len(queue'[1]) = (Len(queue[1]) - 1)
            /\ Len(queue'[2]) = Len(queue[2])
            /\ Len(queue'[3]) = Len(queue[3])
        BY <2>4, <1>2, <1>3, SizesAreNumbers
      <3>2. WorkItems' = (Len(queue[1]) - 1) + Len(queue[2]) + Len(queue[3])
        BY <3>1, Zenon DEF WorkItems
      <3>3. QED  BY <2>1, <3>2, ThreeLengths, Zenon DEF WorkItems
    <2>5. CASE p = 2
      <3>1. /\ Len(queue'[1]) = Len(queue[1])
            /\ Len(queue'[2]) = (Len(queue[2]) - 1)
            /\ Len(queue'[3]) = Len(queue[3])
        BY <2>5, <1>2, <1>3, SizesAreNumbers
      <3>2. WorkItems' = Len(queue[1]) + (Len(queue[2]) - 1) + Len(queue[3])
        BY <3>1, Zenon DEF WorkItems
      <3>3. QED  BY <2>1, <3>2, ThreeLengths, Zenon DEF WorkItems
    <2>6. CASE p = 3
      <3>1. /\ Len(queue'[1]) = Len(queue[1])
            /\ Len(queue'[2]) = Len(queue[2])
            /\ Len(queue'[3]) = (Len(queue[3]) - 1)
        BY <2>6, <1>2, <1>3, SizesAreNumbers
      <3>2. WorkItems' = Len(queue[1]) + Len(queue[2]) + (Len(queue[3]) - 1)
        BY <3>1, Zenon DEF WorkItems
      <3>3. QED  BY <2>1, <3>2, ThreeLengths, Zenon DEF WorkItems
    <2>7. QED  BY <2>2, <2>4, <2>5, <2>6
  <1>5. QSize' = QSize - 1
    BY <1>4, SizesAreNumbers DEF QSize, ItemTaken, TypeOK
  <1>6. QED  BY <1>2, <1>3, <1>5

\* submit() never overfills the queue, and stop() only fills what is left.
LEMMA RoomStep ==
    ASSUME TypeOK, BackgroundLeavesRoom, [Next]_vars
    PROVE  BackgroundLeavesRoom'
  <1>a. /\ QSize <= Capacity /\ QSize \in Nat /\ sentinels \in Nat
        /\ WorkItems \in Nat
        /\ Capacity \in Nat /\ Threshold \in Nat /\ Threshold <= Capacity
    BY SizesAreNumbers, QueueAssumption DEF BackgroundLeavesRoom, TypeOK
  <1>b. /\ Len(queue[BACKGROUND]) <= Threshold + 1
        /\ \A q \in Priorities : Len(queue[q]) \in Nat
        /\ BACKGROUND \in Priorities
    BY SizesAreNumbers DEF BackgroundLeavesRoom, BACKGROUND, Priorities
  <1>0. QSize <= Capacity /\ QSize \in Nat
    BY <1>a
  <1>1. CASE Start
    <2>1. /\ \A q \in Priorities : queue'[q] = <<>>
          /\ sentinels' = 0
      BY <1>1 DEF Start
    <2>2. Len(queue'[1]) = 0 /\ Len(queue'[2]) = 0 /\ Len(queue'[3]) = 0
      BY <2>1, SizesAreNumbers
    <2>3. WorkItems' = 0
      BY <2>2, ThreeLengths DEF WorkItems
    <2>4. QSize' = 0
      BY <2>1, <2>3 DEF QSize
    <2>5. QED  BY <2>2, <2>4, <1>a DEF BackgroundLeavesRoom, BACKGROUND
  <1>2. CASE Stop \/ StopResumesPut
    <2>1. PICK n \in Nat : PutSentinels(n)
      BY <1>2, WorkersAreCounted DEF Stop, StopResumesPut, TypeOK
    <2>2. sentinels' \in Int /\ sentinels' - sentinels <= Capacity - QSize
      BY <2>1, <1>0, PutSentinelsFits
    <2>3. queue' = queue
      BY <1>2 DEF Stop, StopResumesPut
    <2>4. WorkItems' = WorkItems
      BY <2>3 DEF WorkItems
    <2>5. QSize' <= Capacity
      <3>1. QSize' = WorkItems + sentinels' /\ QSize = WorkItems + sentinels
        BY <2>4, Zenon DEF QSize
      <3>2. QED  BY <2>2, <3>1, <1>a, RoomIsKept, Zenon
    <2>6. QED  BY <2>3, <2>5, <1>b DEF BackgroundLeavesRoom
  <1>3. ASSUME NEW i \in Items, NEW r \in Resources, NEW p \in Priorities,
               NewItem(i, r, p)
        PROVE  BackgroundLeavesRoom'
    <2>1. QSize < Capacity /\ (p = BACKGROUND => QSize <= Threshold)
      BY <1>a, <1>3 DEF NewItem, Dropped
    <2>2. QSize' = QSize + 1
      BY <1>3, QueueAfterNewItem
    <2>3. QSize' <= Capacity
      BY <1>a, <2>1, <2>2
    <2>4. CASE p # BACKGROUND
      BY <1>b, <1>3, <2>3, <2>4, QueueAfterNewItem DEF BackgroundLeavesRoom
    <2>5. CASE p = BACKGROUND
      <3>1. Len(queue[p]) <= Threshold /\ Len(queue[p]) \in Nat
        BY <1>a, <1>b, <2>1, <2>5, SizesAreNumbers DEF BACKGROUND
      <3>2. Len(queue'[p]) <= Threshold + 1
        BY <1>a, <1>3, <3>1, QueueAfterNewItem
      <3>3. QED  BY <2>3, <2>5, <3>2 DEF BackgroundLeavesRoom
    <2>6. QED  BY <2>4, <2>5
  <1>4. ASSUME NEW w \in Workers, NEW p \in Priorities, ItemTaken(w, p)
        PROVE  BackgroundLeavesRoom'
    <2>1. QSize' = QSize - 1
      BY <1>4, QueueAfterTake
    <2>2. QSize' <= Capacity
      BY <1>a, <2>1
    <2>3. Len(queue'[BACKGROUND]) <= Threshold + 1
      BY <1>a, <1>b, <1>4, QueueAfterTake
    <2>4. QED  BY <2>2, <2>3 DEF BackgroundLeavesRoom
  <1>5. ASSUME queue' = queue, sentinels' \in {sentinels, sentinels - 1}
        PROVE  BackgroundLeavesRoom'
    <2>1. WorkItems' = WorkItems
      BY <1>5 DEF WorkItems
    <2>2. QSize' <= Capacity
      <3>1. QSize' = WorkItems + sentinels' /\ QSize = WorkItems + sentinels
        BY <2>1, Zenon DEF QSize
      <3>2. sentinels' \in Int
        BY <1>a, <1>5
      <3>3. QED  BY <1>5, <3>1, <3>2, <1>a, RoomIsKept, Zenon
    <2>3. QED  BY <1>b, <1>5, <2>2 DEF BackgroundLeavesRoom
  <1>6. QED
    BY StepCases, <1>1, <1>2, <1>3, <1>4, <1>5
    DEF StopReturns, Cancel, Forget, SentinelTaken, WorkerRests, FinishAnalysis, coreVars

\* start() and stop() alternate, and tasks exist only in between.
LEMMA LifecycleStep ==
    ASSUME TypeOK, Lifecycle, ItemsInUse, [Next]_vars
    PROVE  Lifecycle'
  <1>1. CASE Start
    BY <1>1 DEF Start, Lifecycle, TypeOK
  <1>2. CASE Stop \/ StopResumesPut
    <2>1. phase # "new" /\ starts' = starts /\ phase' \in {"putting", "joining"}
      BY <1>2 DEF Stop, StopResumesPut, PutSentinels, running
    <2>2. QED  BY <2>1 DEF Lifecycle
  <1>3. CASE StopReturns
    BY <1>3 DEF StopReturns, Lifecycle
  <1>4. ASSUME NEW i \in Items, NEW r \in Resources, NEW p \in Priorities,
               NewItem(i, r, p)
        PROVE  Lifecycle'
    BY <1>4 DEF NewItem, stopVars, Lifecycle
  <1>5. ASSUME NEW i \in Items, Cancel(i) \/ Forget(i)
        PROVE  Lifecycle'
    <2>1. phase # "new"
      BY <1>5 DEF Cancel, Forget, Lifecycle, Settled
    <2>2. UNCHANGED <<stopVars, wstate>>
      BY <1>5 DEF Cancel, Forget
    <2>3. QED  BY <2>1, <2>2 DEF Lifecycle, stopVars
  <1>6. ASSUME NEW w \in Workers, wstate[w] \notin {"none", "exited"},
               UNCHANGED stopVars
        PROVE  Lifecycle'
    BY <1>6 DEF Lifecycle, stopVars
  <1>7. ASSUME NEW w \in Workers, NEW p \in Priorities, ItemTaken(w, p)
        PROVE  Lifecycle'
    BY <1>6, <1>7 DEF ItemTaken
  <1>8. ASSUME NEW w \in Workers, SentinelTaken(w) \/ WorkerRests(w)
        PROVE  Lifecycle'
    BY <1>6, <1>8 DEF SentinelTaken, WorkerRests
  <1>9. ASSUME NEW w \in Workers, NEW outcome \in {"resolved", "failed"},
               FinishAnalysis(w, outcome)
        PROVE  Lifecycle'
    BY <1>6, <1>9 DEF FinishAnalysis
  <1>10. CASE UNCHANGED coreVars
    BY <1>10 DEF coreVars, stopVars, Lifecycle
  <1>11. QED
    BY StepCases, <1>1, <1>2, <1>3, <1>4, <1>5, <1>7, <1>8, <1>9, <1>10

\* Only an item nobody refers to is freed, and only a free one is enqueued.
LEMMA ItemsStep ==
    ASSUME TypeOK, TypeOK', Lifecycle, ItemsInUse, [Next]_vars
    PROVE  ItemsInUse'
  <1>1. CASE Start
    <2>1. \A w \in Workers : wstate'[w] # "analysing" /\ job'[w] = None
      BY <1>1 DEF Start, Lifecycle, ItemsInUse
    <2>2. \A p \in Priorities : DOMAIN queue'[p] = {}
      BY <1>1 DEF Start
    <2>3. fut' = fut /\ dedup' = dedup /\ res' = res
      BY <1>1 DEF Start, itemVars
    <2>4. QED  BY <2>1, <2>2, <2>3 DEF ItemsInUse
  <1>2. CASE Stop \/ StopResumesPut \/ StopReturns \/ UNCHANGED coreVars
    <2>1. UNCHANGED <<queue, dedup, res, fut, wstate, job>>
      BY <1>2 DEF Stop, StopResumesPut, StopReturns, coreVars, itemVars
    <2>2. QED  BY <2>1 DEF ItemsInUse
  <1>3. ASSUME NEW i \in Items, NEW r \in Resources, NEW p \in Priorities,
               NewItem(i, r, p)
        PROVE  ItemsInUse'
    <2>1. fut'[i] # "free" /\ \A j \in Items : j # i => fut'[j] = fut[j]
      BY <1>3 DEF NewItem, TypeOK
    <2>2. \A j \in Items : fut'[j] # "free" => res'[j] \in Resources
      BY <1>3 DEF NewItem, TypeOK, ItemsInUse
    <2>3. \A k \in Keys : dedup'[k] # None => fut'[dedup'[k]] # "free"
      BY <1>3, <2>1 DEF NewItem, TypeOK, ItemsInUse
    <2>4. \A w \in Workers : job'[w] # None => fut'[job'[w]] # "free"
      BY <1>3, <2>1 DEF NewItem, TypeOK, ItemsInUse
    <2>a. fut[i] = "free"
      BY <1>3 DEF NewItem
    <2>b. \A q \in Priorities : \A n \in DOMAIN queue[q] : fut'[queue[q][n]] # "free"
      BY <2>1, <2>a, QueuedAreItems DEF ItemsInUse
    <2>5. ASSUME NEW q \in Priorities, NEW n \in DOMAIN queue'[q]
          PROVE  fut'[queue'[q][n]] # "free"
      <3>1. CASE q # p
        BY <1>3, <2>b, <2>5, <3>1, QueueAfterNewItem
      <3>2. CASE q = p
        <4>1. CASE n \in 1..Len(queue[p])
          BY <1>3, <2>b, <3>2, <4>1, QueueAfterNewItem, SizesAreNumbers
        <4>2. CASE n = Len(queue[p]) + 1
          BY <1>3, <3>2, <4>2, <2>1, QueueAfterNewItem
        <4>3. n \in 1..Len(queue[p]) \/ n = Len(queue[p]) + 1
          BY <1>3, <3>2, <2>5, QueueAfterNewItem, SizesAreNumbers
        <4>4. QED  BY <4>1, <4>2, <4>3
      <3>3. QED  BY <3>1, <3>2
    <2>6. wstate' = wstate /\ job' = job
      BY <1>3 DEF NewItem
    <2>7. QED  BY <2>2, <2>3, <2>4, <2>5, <2>6 DEF ItemsInUse
  <1>4. ASSUME NEW i \in Items, Forget(i)
        PROVE  ItemsInUse'
    <2>1. /\ \A p \in Priorities : \A n \in DOMAIN queue[p] : queue[p][n] # i
          /\ \A k \in Keys : dedup[k] # i
          /\ \A w \in Workers : job[w] # i
          /\ UNCHANGED <<queue, dedup, wstate, job>>
      BY <1>4 DEF Forget, Queued
    <2>2. \A j \in Items : j # i => fut'[j] = fut[j] /\ res'[j] = res[j]
      BY <1>4 DEF Forget, TypeOK
    <2>3. fut'[i] = "free"
      BY <1>4 DEF Forget, TypeOK
    <2>4. \A p \in Priorities : \A n \in DOMAIN queue'[p] : fut'[queue'[p][n]] # "free"
      BY <2>1, <2>2, QueuedAreItems DEF ItemsInUse
    <2>5. \A k \in Keys : dedup'[k] # None => fut'[dedup'[k]] # "free"
      BY <2>1, <2>2 DEF ItemsInUse, TypeOK
    <2>6. \A w \in Workers : job'[w] # None => fut'[job'[w]] # "free"
      BY <2>1, <2>2 DEF ItemsInUse, TypeOK
    <2>7. \A j \in Items : fut'[j] # "free" => res'[j] \in Resources
      BY <2>2, <2>3 DEF ItemsInUse
    <2>8. QED  BY <2>1, <2>4, <2>5, <2>6, <2>7 DEF ItemsInUse
  <1>5. ASSUME NEW w \in Workers, NEW p \in Priorities, ItemTaken(w, p)
        PROVE  ItemsInUse'
    <2>1. fut' = fut /\ res' = res
      BY <1>5 DEF ItemTaken, itemVars
    <2>2. \A k \in Keys : dedup'[k] # None => dedup'[k] = dedup[k]
      BY <1>5 DEF ItemTaken, TypeOK
    <2>3. ASSUME NEW q \in Priorities, NEW n \in DOMAIN queue'[q]
          PROVE  \E m \in DOMAIN queue[q] : queue'[q][n] = queue[q][m]
      <3>1. CASE q # p
        BY <1>5, <3>1, <2>3, QueueAfterTake
      <3>2. CASE q = p
        <4>1. Len(queue[p]) \in Nat /\ n \in 1..Len(queue[p]) - 1
          BY <1>5, <3>2, <2>3, QueueAfterTake
        <4>2. n + 1 \in 1..Len(queue[p])
          BY <4>1
        <4>3. queue'[p][n] = queue[p][n + 1]
          BY <1>5, <4>1, QueueAfterTake
        <4>4. DOMAIN queue[p] = 1..Len(queue[p])
          BY SizesAreNumbers
        <4>5. QED  BY <3>2, <4>2, <4>3, <4>4
      <3>3. QED  BY <3>1, <3>2
    <2>4. /\ Head(queue[p]) \in Items /\ fut[Head(queue[p])] # "free"
      <3>1. Head(queue[p]) = queue[p][1] /\ 1 \in DOMAIN queue[p]
        BY <1>5, QueueAfterTake, SizesAreNumbers
      <3>2. QED  BY <1>5, <3>1, QueueAfterTake DEF ItemsInUse
    <2>5. job[w] = None /\ None \notin Items
      BY <1>5, QueueAssumption DEF ItemTaken, ItemsInUse
    <2>6. /\ \A v \in Workers : wstate'[v] = "analysing" <=> job'[v] # None
          /\ \A v \in Workers : job'[v] # None => fut[job'[v]] # "free"
      <3>1. \A v \in Workers : v # w => wstate'[v] = wstate[v] /\ job'[v] = job[v]
        BY <1>5 DEF ItemTaken, TypeOK
      <3>2. \/ wstate'[w] = "loop" /\ job'[w] = None
            \/ wstate'[w] = "analysing" /\ job'[w] = Head(queue[p])
        BY <1>5, <2>5 DEF ItemTaken, TypeOK
      <3>3. QED  BY <2>4, <2>5, <3>1, <3>2 DEF ItemsInUse
    <2>7. QED  BY <2>1, <2>2, <2>3, <2>6 DEF ItemsInUse
  <1>6. ASSUME NEW w \in Workers, SentinelTaken(w) \/ WorkerRests(w)
        PROVE  ItemsInUse'
    <2>1. /\ UNCHANGED <<queue, dedup, res, fut, job>>
          /\ wstate[w] # "analysing" /\ wstate'[w] # "analysing"
          /\ \A v \in Workers : v # w => wstate'[v] = wstate[v]
      BY <1>6 DEF SentinelTaken, WorkerRests, itemVars, TypeOK
    <2>2. QED  BY <2>1 DEF ItemsInUse
  <1>7. ASSUME UNCHANGED <<queue, dedup, res>>,
               \A i \in Items : fut'[i] = "free" <=> fut[i] = "free",
               \/ UNCHANGED <<wstate, job>>
               \/ \E w \in Workers : /\ wstate' = [wstate EXCEPT ![w] = "loop"]
                                     /\ job' = [job EXCEPT ![w] = None]
        PROVE  ItemsInUse'
    <2>1. \A p \in Priorities : \A n \in DOMAIN queue[p] : queue[p][n] \in Items
      BY QueuedAreItems
    <2>2. \A v \in Workers : wstate'[v] = "analysing" <=> job'[v] # None
      BY <1>7 DEF ItemsInUse, TypeOK
    <2>3. \A v \in Workers : job'[v] # None => job'[v] = job[v]
      BY <1>7 DEF TypeOK
    <2>4. QED  BY <1>7, <2>1, <2>2, <2>3 DEF ItemsInUse, TypeOK
  <1>8. ASSUME NEW i \in Items, Cancel(i)
        PROVE  ItemsInUse'
    BY <1>7, <1>8 DEF Cancel, itemVars, TypeOK
  <1>9. ASSUME NEW w \in Workers, NEW outcome \in {"resolved", "failed"},
               FinishAnalysis(w, outcome)
        PROVE  ItemsInUse'
    BY <1>7, <1>9 DEF FinishAnalysis, itemVars, TypeOK
  <1>10. QED
    BY StepCases, <1>1, <1>2, <1>3, <1>4, <1>5, <1>6, <1>8, <1>9

\* An accepted request is the only item that joins the queue.
LEMMA QueuedAfterNewItem ==
    ASSUME TypeOK, NEW i \in Items, NEW r \in Resources, NEW p \in Priorities,
           NewItem(i, r, p)
    PROVE  \A j : Queued(j)' <=> Queued(j) \/ j = i
  <1>1. ASSUME NEW j, Queued(j) PROVE Queued(j)'
    <2>1. PICK q \in Priorities : \E n \in DOMAIN queue[q] : queue[q][n] = j
      BY <1>1 DEF Queued
    <2>2. PICK n \in DOMAIN queue[q] : queue[q][n] = j
      BY <2>1
    <2>3. n \in DOMAIN queue'[q] /\ queue'[q][n] = j
      <3>1. CASE q # p
        BY <2>2, <3>1, QueueAfterNewItem
      <3>2. CASE q = p
        <4>1. n \in 1..Len(queue[p]) /\ Len(queue[p]) \in Nat
          BY <3>2, SizesAreNumbers
        <4>2. n \in 1..Len(queue[p]) + 1
          BY <4>1
        <4>3. QED  BY <2>2, <3>2, <4>1, <4>2, QueueAfterNewItem
      <3>3. QED  BY <3>1, <3>2
    <2>4. QED  BY <2>3 DEF Queued
  <1>2. Queued(i)'
    <2>1. Len(queue[p]) + 1 \in 1..Len(queue[p]) + 1
      BY SizesAreNumbers
    <2>2. QED  BY <2>1, QueueAfterNewItem DEF Queued
  <1>3. ASSUME NEW j, Queued(j)' PROVE Queued(j) \/ j = i
    <2>1. PICK q \in Priorities : \E n \in DOMAIN queue'[q] : queue'[q][n] = j
      BY <1>3 DEF Queued
    <2>2. PICK n \in DOMAIN queue'[q] : queue'[q][n] = j
      BY <2>1
    <2>3. CASE q # p
      BY <2>2, <2>3, QueueAfterNewItem DEF Queued
    <2>4. CASE q = p
      <3>1. n \in 1..Len(queue[p]) \/ n = Len(queue[p]) + 1
        BY <2>4, QueueAfterNewItem, SizesAreNumbers
      <3>2. CASE n \in 1..Len(queue[p])
        <4>1. queue[p][n] = j /\ n \in DOMAIN queue[p]
          BY <2>2, <2>4, <3>2, QueueAfterNewItem, SizesAreNumbers
        <4>2. QED  BY <4>1 DEF Queued
      <3>3. CASE n = Len(queue[p]) + 1
        BY <2>2, <2>4, <3>3, QueueAfterNewItem
      <3>4. QED  BY <3>1, <3>2, <3>3
    <2>5. QED  BY <2>3, <2>4
  <1>4. QED  BY <1>1, <1>2, <1>3

\* Where the entries of the queue were before a get().
LEMMA EntriesAfterTake ==
    ASSUME TypeOK, NEW w \in Workers, NEW p \in Priorities, ItemTaken(w, p),
           NEW q \in Priorities, NEW n \in DOMAIN queue'[q]
    PROVE  LET m == IF q = p THEN n + 1 ELSE n
           IN  /\ m \in DOMAIN queue[q]
               /\ queue'[q][n] = queue[q][m]
               /\ q = p => m # 1
  <1>1. CASE q # p
    BY <1>1, QueueAfterTake
  <1>2. CASE q = p
    <2>1. Len(queue[p]) \in Nat /\ n \in 1..Len(queue[p]) - 1
      BY <1>2, QueueAfterTake
    <2>2. n + 1 \in 1..Len(queue[p]) /\ n + 1 # 1
      BY <2>1
    <2>3. queue'[p][n] = queue[p][n + 1]
      BY <2>1, QueueAfterTake
    <2>4. QED  BY <1>2, <2>2, <2>3, SizesAreNumbers
  <1>3. QED  BY <1>1, <1>2

\* A get() takes one item out of the queue, and no other.
LEMMA QueuedAfterTake ==
    ASSUME TypeOK, RegistryMatchesQueue,
           NEW w \in Workers, NEW p \in Priorities, ItemTaken(w, p)
    PROVE  /\ Queued(Head(queue[p])) /\ Head(queue[p]) \in Items
           /\ \A j : Queued(j)' <=> Queued(j) /\ j # Head(queue[p])
  <1> DEFINE h == Head(queue[p])
  <1>1. h = queue[p][1] /\ 1 \in DOMAIN queue[p] /\ h \in Items
    BY QueueAfterTake, SizesAreNumbers
  <1>2. Queued(h)
    BY <1>1 DEF Queued
  <1>3. ASSUME NEW j, Queued(j)' PROVE Queued(j) /\ j # h
    <2>1. PICK q \in Priorities : \E n \in DOMAIN queue'[q] : queue'[q][n] = j
      BY <1>3 DEF Queued
    <2>2. PICK n \in DOMAIN queue'[q] : queue'[q][n] = j
      BY <2>1
    <2>3. PICK m \in DOMAIN queue[q] : queue[q][m] = j /\ (q = p => m # 1)
      BY <2>2, EntriesAfterTake
    <2>4. QED  BY <1>1, <2>3 DEF Queued, RegistryMatchesQueue
  <1>4. ASSUME NEW j, Queued(j), j # h PROVE Queued(j)'
    <2>1. PICK q \in Priorities : \E n \in DOMAIN queue[q] : queue[q][n] = j
      BY <1>4 DEF Queued
    <2>2. PICK n \in DOMAIN queue[q] : queue[q][n] = j
      BY <2>1
    <2>3. CASE q # p
      BY <2>2, <2>3, QueueAfterTake DEF Queued
    <2>4. CASE q = p
      <3>1. n \in 1..Len(queue[p]) /\ n # 1 /\ Len(queue[p]) \in Nat
        BY <1>1, <1>4, <2>2, <2>4, SizesAreNumbers
      <3>2. n - 1 \in 1..Len(queue[p]) - 1 /\ (n - 1) + 1 = n
        BY <3>1
      <3>3. queue'[p][n - 1] = queue[p][n]
        BY <3>2, QueueAfterTake
      <3>4. QED  BY <2>2, <2>4, <3>2, <3>3, QueueAfterTake DEF Queued
    <2>5. QED  BY <2>3, <2>4
  <1>5. QED  BY <1>1, <1>2, <1>3, <1>4

\* An item in the queue has a resource, and so a key.
LEMMA QueuedHaveKeys ==
    ASSUME TypeOK, ItemsInUse
    PROVE  \A p \in Priorities : \A n \in DOMAIN queue[p] :
              /\ queue[p][n] \in Items /\ queue[p][n] # None
              /\ KeyOfItem(queue[p][n]) \in Keys
  BY QueuedAreItems, QueueAssumption DEF ItemsInUse, KeyOfItem

\* The registry and the queue change together.
LEMMA RegistryStep ==
    ASSUME TypeOK, TypeOK', RegistryMatchesQueue, Lifecycle, ItemsInUse, [Next]_vars
    PROVE  RegistryMatchesQueue'
  <1>1. CASE Start
    <2>1. \A p \in Priorities : DOMAIN queue'[p] = {}
      BY <1>1 DEF Start
    <2>2. UNCHANGED <<dedup, res>>
      BY <1>1 DEF Start, itemVars
    <2>3. starts' <= 1 => \A k \in Keys : dedup[k] = None
      <3>1. starts' = starts + 1 /\ starts \in Nat
        BY <1>1 DEF Start, TypeOK
      <3>2. starts' <= 1 => starts = 0
        BY <3>1
      <3>3. QED  BY <3>2 DEF Lifecycle
    <2>4. \A k \in Keys : dedup'[k] # None => KeyOfItem(dedup[k])' = k
      BY <2>2 DEF RegistryMatchesQueue, KeyOfItem
    <2>5. QED  BY <2>1, <2>2, <2>3, <2>4 DEF RegistryMatchesQueue, KeyOfItem
  <1>2. ASSUME NEW i \in Items, NEW r \in Resources, NEW p \in Priorities,
               NewItem(i, r, p)
        PROVE  RegistryMatchesQueue'
    <2>1. /\ KeyOf[r] \in Keys /\ dedup[KeyOf[r]] = None
          /\ dedup'[KeyOf[r]] = i
          /\ \A k \in Keys : k # KeyOf[r] => dedup'[k] = dedup[k]
      BY <1>2, QueueAssumption DEF NewItem, TypeOK
    <2>2. /\ res'[i] = r /\ prio'[i] = p
          /\ \A j \in Items : j # i => res'[j] = res[j] /\ prio'[j] = prio[j]
          /\ fut[i] = "free" /\ starts' = starts
      BY <1>2 DEF NewItem, TypeOK, stopVars
    <2>3. \A q \in Priorities : \A n \in DOMAIN queue[q] : queue[q][n] # i
      BY <2>2 DEF ItemsInUse
    <2>4. ASSUME NEW q \in Priorities, NEW n \in DOMAIN queue'[q]
          PROVE  \/ n \in DOMAIN queue[q] /\ queue'[q][n] = queue[q][n]
                 \/ q = p /\ n = Len(queue[p]) + 1 /\ queue'[q][n] = i
      <3>1. CASE q # p
        BY <1>2, <3>1, QueueAfterNewItem
      <3>2. CASE q = p
        <4>1. n \in 1..Len(queue[p]) \/ n = Len(queue[p]) + 1
          BY <1>2, <3>2, QueueAfterNewItem, SizesAreNumbers
        <4>2. QED  BY <1>2, <3>2, <4>1, QueueAfterNewItem, SizesAreNumbers
      <3>3. QED  BY <3>1, <3>2
    <2>5. ASSUME NEW q1 \in Priorities, NEW q2 \in Priorities,
                 NEW m \in DOMAIN queue'[q1], NEW n \in DOMAIN queue'[q2],
                 queue'[q1][m] = queue'[q2][n]
          PROVE  q1 = q2 /\ m = n
      BY <2>3, <2>4, <2>5 DEF RegistryMatchesQueue
    <2>6. ASSUME NEW q \in Priorities, NEW n \in DOMAIN queue'[q]
          PROVE  /\ dedup'[KeyOfItem(queue[q][n])'] = queue'[q][n]
                 /\ prio'[queue'[q][n]] = q
      <3>1. CASE n \in DOMAIN queue[q] /\ queue'[q][n] = queue[q][n]
        <4>1. /\ queue[q][n] \in Items /\ queue[q][n] # None /\ queue[q][n] # i
              /\ KeyOfItem(queue[q][n]) \in Keys
              /\ dedup[KeyOfItem(queue[q][n])] = queue[q][n]
              /\ prio[queue[q][n]] = q
          BY <2>3, <3>1, QueuedHaveKeys DEF RegistryMatchesQueue
        <4>2. KeyOfItem(queue[q][n])' = KeyOfItem(queue[q][n])
          BY <2>2, <3>1, <4>1 DEF KeyOfItem
        <4>3. QED  BY <2>1, <2>2, <3>1, <4>1, <4>2
      <3>2. CASE q = p /\ queue'[q][n] = i
        BY <2>1, <2>2, <3>2 DEF KeyOfItem
      <3>3. QED  BY <2>4, <3>1, <3>2
    <2>7. ASSUME NEW k \in Keys, dedup'[k] # None
          PROVE  /\ KeyOfItem(dedup[k])' = k
                 /\ starts' <= 1 => Queued(dedup[k])'
      <3>1. CASE k = KeyOf[r]
        <4>1. Queued(i)'
          BY <1>2, QueuedAfterNewItem
        <4>2. QED  BY <2>1, <2>2, <3>1, <4>1 DEF KeyOfItem, Queued
      <3>2. CASE k # KeyOf[r]
        <4>1. dedup'[k] = dedup[k] /\ dedup[k] # i /\ dedup[k] \in Items
          BY <2>1, <2>2, <2>7, <3>2 DEF ItemsInUse, TypeOK
        <4>2. KeyOfItem(dedup[k])' = k
          BY <2>2, <2>7, <4>1 DEF RegistryMatchesQueue, KeyOfItem
        <4>3. ASSUME starts' <= 1 PROVE Queued(dedup[k])'
          <5>1. Queued(dedup[k])
            BY <2>2, <2>7, <4>1, <4>3 DEF RegistryMatchesQueue
          <5>2. PICK j : j = dedup[k]
            OBVIOUS
          <5>3. Queued(j)'
            BY <1>2, <5>1, <5>2, QueuedAfterNewItem
          <5>4. QED  BY <4>1, <5>2, <5>3 DEF Queued
        <4>4. QED  BY <4>2, <4>3
      <3>3. QED  BY <3>1, <3>2
    <2>8. QED  BY <2>5, <2>6, <2>7 DEF RegistryMatchesQueue
  <1>3. ASSUME NEW i \in Items, Forget(i)
        PROVE  RegistryMatchesQueue'
    <2>1. /\ \A p \in Priorities : \A n \in DOMAIN queue[p] : queue[p][n] # i
          /\ \A k \in Keys : dedup[k] # i
          /\ UNCHANGED <<queue, dedup>> /\ starts' = starts
      BY <1>3 DEF Forget, Queued, stopVars
    <2>2. \A j \in Items : j # i => res'[j] = res[j] /\ prio'[j] = prio[j]
      BY <1>3 DEF Forget, TypeOK
    <2>3. \A p \in Priorities : \A n \in DOMAIN queue[p] :
             /\ KeyOfItem(queue[p][n])' = KeyOfItem(queue[p][n])
             /\ prio'[queue[p][n]] = prio[queue[p][n]]
      BY <2>1, <2>2, QueuedAreItems DEF KeyOfItem
    <2>4. \A k \in Keys : dedup[k] # None => KeyOfItem(dedup[k])' = KeyOfItem(dedup[k])
      BY <2>1, <2>2 DEF KeyOfItem, TypeOK
    <2>5. QED  BY <2>1, <2>3, <2>4 DEF RegistryMatchesQueue, Queued
  <1>4. ASSUME NEW w \in Workers, NEW p \in Priorities, ItemTaken(w, p)
        PROVE  RegistryMatchesQueue'
    <2> DEFINE h == Head(queue[p])
    <2>1. /\ h = queue[p][1] /\ 1 \in DOMAIN queue[p] /\ h \in Items /\ h # None
          /\ KeyOfItem(h) \in Keys /\ dedup[KeyOfItem(h)] = h
      BY <1>4, QueueAfterTake, SizesAreNumbers, QueuedHaveKeys
      DEF RegistryMatchesQueue
    <2>2. /\ dedup'[KeyOfItem(h)] = None
          /\ \A k \in Keys : k # KeyOfItem(h) => dedup'[k] = dedup[k]
          /\ UNCHANGED <<res, prio>> /\ starts' = starts
      BY <1>4, <2>1 DEF ItemTaken, TypeOK, itemVars, stopVars
    <2>3. ASSUME NEW q1 \in Priorities, NEW q2 \in Priorities,
                 NEW m \in DOMAIN queue'[q1], NEW n \in DOMAIN queue'[q2],
                 queue'[q1][m] = queue'[q2][n]
          PROVE  q1 = q2 /\ m = n
      <3>1. m \in Int /\ n \in Int
        <4>1. queue'[q1] \in Seq(Items) /\ queue'[q2] \in Seq(Items)
          BY DEF TypeOK
        <4>2. QED  BY <4>1
      <3>2. PICK a \in DOMAIN queue[q1] :
              queue'[q1][m] = queue[q1][a] /\ a = IF q1 = p THEN m + 1 ELSE m
        BY <1>4, EntriesAfterTake
      <3>3. PICK b \in DOMAIN queue[q2] :
              queue'[q2][n] = queue[q2][b] /\ b = IF q2 = p THEN n + 1 ELSE n
        BY <1>4, EntriesAfterTake
      <3>4. q1 = q2 /\ a = b
        <4>1. queue[q1][a] = queue[q2][b]
          BY <2>3, <3>2, <3>3
        <4>2. QED  BY <4>1 DEF RegistryMatchesQueue
      <3>5. QED  BY <3>1, <3>2, <3>3, <3>4
    <2>4. ASSUME NEW q \in Priorities, NEW n \in DOMAIN queue'[q]
          PROVE  /\ dedup'[KeyOfItem(queue[q][n])'] = queue'[q][n]
                 /\ prio'[queue'[q][n]] = q
      <3>1. PICK a \in DOMAIN queue[q] :
              queue'[q][n] = queue[q][a] /\ (q = p => a # 1)
        BY <1>4, EntriesAfterTake
      <3>2. queue[q][a] # h
        BY <2>1, <3>1 DEF RegistryMatchesQueue
      <3>3. /\ KeyOfItem(queue[q][a]) \in Keys
            /\ dedup[KeyOfItem(queue[q][a])] = queue[q][a]
            /\ prio[queue[q][a]] = q
        BY QueuedHaveKeys DEF RegistryMatchesQueue
      <3>4. KeyOfItem(queue[q][n])' = KeyOfItem(queue[q][a])
        BY <2>2, <3>1 DEF KeyOfItem
      <3>5. QED  BY <2>1, <2>2, <3>1, <3>2, <3>3, <3>4
    <2>5. ASSUME NEW k \in Keys, dedup'[k] # None
          PROVE  /\ KeyOfItem(dedup[k])' = k
                 /\ starts' <= 1 => Queued(dedup[k])'
      <3>1. k # KeyOfItem(h) /\ dedup'[k] = dedup[k]
        BY <2>2, <2>5
      <3>2. KeyOfItem(dedup[k])' = k /\ KeyOfItem(dedup[k]) = k /\ dedup[k] # h
        BY <2>1, <2>2, <2>5, <3>1 DEF RegistryMatchesQueue, KeyOfItem
      <3>3. ASSUME starts' <= 1 PROVE Queued(dedup[k])'
        <4>1. Queued(dedup[k])
          BY <2>2, <2>5, <3>1, <3>3 DEF RegistryMatchesQueue
        <4>2. PICK j : j = dedup[k]
          OBVIOUS
        <4>3. Queued(j)'
          BY <1>4, <3>2, <4>1, <4>2, QueuedAfterTake
        <4>4. QED  BY <3>1, <4>2, <4>3 DEF Queued
      <3>4. QED  BY <3>2, <3>3
    <2>6. QED  BY <2>3, <2>4, <2>5 DEF RegistryMatchesQueue
  <1>5. ASSUME UNCHANGED <<queue, dedup, res, prio, starts>>
        PROVE  RegistryMatchesQueue'
    BY <1>5 DEF RegistryMatchesQueue, KeyOfItem, Queued
  <1>6. QED
    BY StepCases, <1>1, <1>2, <1>3, <1>4, <1>5
    DEF Stop, StopResumesPut, StopReturns, Cancel, SentinelTaken, WorkerRests,
        FinishAnalysis, coreVars, itemVars, stopVars

\* A pending item moves from the queue to one worker, who settles it.
LEMMA OwnedStep ==
    ASSUME TypeOK, RegistryMatchesQueue, PendingIsOwned, Lifecycle, ItemsInUse,
           [Next]_vars
    PROVE  PendingIsOwned'
  <1>1. CASE Start
    <2>1. \A p \in Priorities : DOMAIN queue'[p] = {}
      BY <1>1 DEF Start
    <2>2. \A j : ~ Queued(j)'
      BY <2>1 DEF Queued
    <2>3. \A w \in Workers : job'[w] = None
      BY <1>1 DEF Start, Lifecycle, ItemsInUse
    <2>4. starts' <= 1 => \A i \in Items : fut'[i] = "free"
      <3>1. starts' = starts + 1 /\ starts \in Nat /\ fut' = fut
        BY <1>1 DEF Start, TypeOK
      <3>2. starts' <= 1 => starts = 0
        BY <3>1
      <3>3. QED  BY <3>1, <3>2 DEF Lifecycle
    <2>5. QED
      BY <2>2, <2>3, <2>4, Zenon DEF PendingIsOwned, Queued
  <1>2. ASSUME NEW i \in Items, NEW r \in Resources, NEW p \in Priorities,
               NewItem(i, r, p)
        PROVE  PendingIsOwned'
    <2>1. /\ fut[i] = "free" /\ job' = job /\ starts' = starts
          /\ \A j \in Items : j # i => fut'[j] = fut[j]
      BY <1>2 DEF NewItem, TypeOK, stopVars
    <2>2. \A j : Queued(j)' <=> Queued(j) \/ j = i
      BY <1>2, QueuedAfterNewItem
    <2>3. \A w \in Workers : job[w] # i
      BY <2>1, QueueAssumption DEF ItemsInUse
    <2>4. \A j \in Items : fut'[j] = "pending" /\ starts' <= 1 =>
             Queued(j)' \/ \E w \in Workers : job'[w] = j
      BY <2>1, <2>2 DEF PendingIsOwned
    <2>5. \A w \in Workers : ~ Queued(job[w])'
      <3>1. ASSUME NEW w \in Workers, NEW j, j = job[w] PROVE ~ Queued(j)'
        BY <2>2, <2>3, <3>1 DEF PendingIsOwned
      <3>2. QED  BY <2>1, <3>1 DEF Queued
    <2>6. \A v, w \in Workers : job'[v] = job'[w] /\ job'[v] # None => v = w
      BY <2>1 DEF PendingIsOwned
    <2>7. QED  BY <2>4, <2>5, <2>6 DEF PendingIsOwned
  <1>3. ASSUME NEW w \in Workers, NEW p \in Priorities, ItemTaken(w, p)
        PROVE  PendingIsOwned'
    <2> DEFINE h == Head(queue[p])
    <2>1. /\ Queued(h) /\ h \in Items
          /\ \A j : Queued(j)' <=> Queued(j) /\ j # h
      BY <1>3, QueuedAfterTake
    <2>2. /\ job[w] = None /\ None \notin Items
          /\ UNCHANGED <<fut, starts>>
          /\ \A v \in Workers : v # w => job'[v] = job[v]
          /\ job'[w] \in {None, h}
          /\ fut[h] # "cancelled" => job'[w] = h
      BY <1>3, QueueAssumption DEF ItemTaken, ItemsInUse, TypeOK, stopVars
    <2>3. ASSUME NEW j \in Items, fut'[j] = "pending", starts' <= 1
          PROVE  Queued(j)' \/ \E v \in Workers : job'[v] = j
      <3>1. CASE j = h
        BY <2>2, <2>3, <3>1
      <3>2. CASE j # h /\ Queued(j)
        BY <2>1, <3>2
      <3>3. CASE ~ Queued(j)
        BY <2>2, <2>3, <3>3 DEF PendingIsOwned
      <3>4. QED  BY <3>1, <3>2, <3>3
    <2>4. \A v \in Workers : job[v] # h
      BY <2>1 DEF PendingIsOwned
    <2>5. \A v, u \in Workers : job'[v] = job'[u] /\ job'[v] # None => v = u
      BY <2>2, <2>4 DEF PendingIsOwned
    <2>6. \A v \in Workers : ~ Queued(job[v])'
      <3>1. ASSUME NEW v \in Workers, NEW j, j = job'[v] PROVE ~ Queued(j)'
        <4>1. j = h \/ ~ Queued(j)
          <5>1. CASE v # w
            BY <2>2, <3>1, <5>1 DEF PendingIsOwned
          <5>2. CASE v = w
            BY <2>2, <3>1, <5>2 DEF PendingIsOwned
          <5>3. QED  BY <5>1, <5>2
        <4>2. QED  BY <2>1, <4>1
      <3>2. QED  BY <3>1 DEF Queued
    <2>7. QED  BY <2>3, <2>5, <2>6 DEF PendingIsOwned
  <1>4. ASSUME NEW w \in Workers, NEW outcome \in {"resolved", "failed"},
               FinishAnalysis(w, outcome)
        PROVE  PendingIsOwned'
    <2>1. /\ UNCHANGED <<queue, starts>>
          /\ job'[w] = None
          /\ \A v \in Workers : v # w => job'[v] = job[v]
          /\ \A j \in Items : fut'[j] = "pending" => fut[j] = "pending" /\ j # job[w]
      BY <1>4 DEF FinishAnalysis, TypeOK, stopVars
    <2>2. \A j : Queued(j)' <=> Queued(j)
      BY <2>1 DEF Queued
    <2>3. \A j \in Items : fut'[j] = "pending" /\ starts' <= 1 =>
             Queued(j)' \/ \E v \in Workers : job'[v] = j
      BY <2>1, <2>2 DEF PendingIsOwned
    <2>4. \A v, u \in Workers : job'[v] = job'[u] /\ job'[v] # None => v = u
      BY <2>1 DEF PendingIsOwned
    <2>5. ~ Queued(None)
      BY QueuedAreItems, QueueAssumption DEF Queued
    <2>6. \A v \in Workers : ~ Queued(job[v])'
      <3>1. ASSUME NEW v \in Workers, NEW j, j = job'[v] PROVE ~ Queued(j)'
        BY <2>1, <2>2, <2>5, <3>1 DEF PendingIsOwned
      <3>2. QED  BY <3>1 DEF Queued
    <2>7. QED  BY <2>3, <2>4, <2>6 DEF PendingIsOwned
  <1>5. ASSUME UNCHANGED <<queue, job, starts>>,
               \A i \in Items : fut'[i] = "pending" => fut[i] = "pending"
        PROVE  PendingIsOwned'
    BY <1>5 DEF PendingIsOwned, Queued
  <1>6. ASSUME NEW i \in Items, Cancel(i) \/ Forget(i)
        PROVE  PendingIsOwned'
    BY <1>5, <1>6 DEF Cancel, Forget, TypeOK, stopVars
  <1>7. QED
    BY StepCases, <1>1, <1>2, <1>3, <1>4, <1>5, <1>6
    DEF Stop, StopResumesPut, StopReturns, SentinelTaken, WorkerRests, coreVars,
        itemVars, stopVars

\* workers that stop() still waits for
StillThere == {w \in Workers : wstate[w] # "exited"}

\* Arithmetic of the count of workers and sentinels.
LEMMA Counting ==
    /\ \A a, b, c \in Nat : a <= b /\ b <= c => a <= c
    /\ \A a, b, c \in Nat : a <= b + c /\ a > 0 /\ b > 0 => a - 1 <= (b - 1) + c
    /\ \A a, b \in Nat : a + b \in Nat
    /\ \A a \in Nat : 0 + a = a
  OBVIOUS

\* Each sentinel that is taken ends one of the workers stop() waits for.
LEMMA SentinelsStep ==
    ASSUME TypeOK, TypeOK', QSize <= Capacity, EnoughSentinels, [Next]_vars
    PROVE  EnoughSentinels'
  <1> DEFINE left == Cardinality(StillThere)
  <1>1. /\ IsFiniteSet(StillThere) /\ left \in Nat /\ left <= Cardinality(Workers)
        /\ left' \in Nat /\ left' <= Cardinality(Workers)
    <2>1. StillThere \in SUBSET Workers /\ StillThere' \in SUBSET Workers
      BY DEF StillThere
    <2>2. QED  BY <2>1, WorkersAreCounted
  <1>2. /\ sentinels \in Nat /\ toPut \in Nat /\ sentinels' \in Nat /\ toPut' \in Nat
        /\ sentinels + toPut \in Nat
    BY Counting DEF TypeOK
  <1>3. ASSUME StillThere' \subseteq StillThere, UNCHANGED <<sentinels, stopVars>>
        PROVE  EnoughSentinels'
    <2>1. left' <= left
      BY <1>1, <1>3, FS_Subset
    <2>2. phase \in {"putting", "joining"} => left' <= sentinels + toPut
      BY <1>1, <1>2, <2>1, Counting, Zenon DEF EnoughSentinels, StillThere
    <2>3. QED  BY <1>3, <2>2, Zenon DEF EnoughSentinels, StillThere, stopVars
  <1>4. CASE Start
    BY <1>4 DEF Start, EnoughSentinels
  <1>5. CASE Stop
    <2>1. PutSentinels(Cardinality(Workers)) /\ StillThere' = StillThere
      BY <1>5 DEF Stop, StillThere
    <2>2. /\ sentinels' + toPut' = sentinels + Cardinality(Workers)
          /\ phase' \in {"putting", "joining"}
          /\ phase' = "joining" => toPut' = 0
      BY <2>1, WorkersAreCounted, PutSentinelsFits
    <2>3. sentinels = 0
      BY <1>5 DEF Stop, running, EnoughSentinels
    <2>4. sentinels' + toPut' = Cardinality(Workers)
      BY <2>2, <2>3, WorkersAreCounted, Counting, Zenon
    <2>5. left' <= sentinels' + toPut'
      BY <1>1, <2>4, Zenon
    <2>6. QED  BY <2>2, <2>5, Zenon DEF EnoughSentinels, StillThere
  <1>6. CASE StopResumesPut
    <2>1. PutSentinels(toPut) /\ StillThere' = StillThere /\ phase = "putting"
      BY <1>6 DEF StopResumesPut, StillThere
    <2>2. /\ sentinels' + toPut' = sentinels + toPut
          /\ phase' \in {"putting", "joining"}
          /\ phase' = "joining" => toPut' = 0
      BY <1>2, <2>1, PutSentinelsFits
    <2>3. left' <= sentinels' + toPut'
      BY <2>1, <2>2, Zenon DEF EnoughSentinels, StillThere
    <2>4. QED  BY <2>2, <2>3, Zenon DEF EnoughSentinels, StillThere
  <1>7. CASE StopReturns
    BY <1>7 DEF StopReturns, EnoughSentinels
  <1>8. ASSUME NEW w \in Workers, SentinelTaken(w)
        PROVE  EnoughSentinels'
    <2>1. /\ StillThere' = StillThere \ {w} /\ w \in StillThere
          /\ sentinels' = sentinels - 1 /\ sentinels > 0
          /\ UNCHANGED stopVars
      BY <1>8 DEF SentinelTaken, StillThere, TypeOK
    <2>2. left' = left - 1 /\ left > 0
      <3>1. left' = left - 1
        BY <1>1, <2>1, FS_RemoveElement
      <3>2. QED  BY <1>1, <3>1
    <2>3. phase \in {"putting", "joining"} => left' <= (sentinels - 1) + toPut
      <3>1. ASSUME phase \in {"putting", "joining"} PROVE left <= sentinels + toPut
        BY <3>1 DEF EnoughSentinels, StillThere
      <3>2. left <= sentinels + toPut => left - 1 <= (sentinels - 1) + toPut
        <4>1. \A a, b, c \in Nat :
                a <= b + c /\ a > 0 /\ b > 0 => a - 1 <= (b - 1) + c
          BY Counting
        <4>2. QED  BY <1>1, <1>2, <2>1, <2>2, <4>1, Zenon
      <3>3. QED  BY <2>2, <3>1, <3>2, Zenon
    <2>4. phase \notin {"new", "running"}
      BY <1>2, <2>1 DEF EnoughSentinels
    <2>5. phase' = phase /\ toPut' = toPut
      BY <2>1 DEF stopVars
    <2>6. QED  BY <2>1, <2>3, <2>4, <2>5, Zenon DEF EnoughSentinels, StillThere
  <1>9. ASSUME NEW w \in Workers, NEW p \in Priorities, ItemTaken(w, p)
        PROVE  EnoughSentinels'
    <2>1. StillThere' \subseteq StillThere
      BY <1>9 DEF ItemTaken, StillThere, TypeOK
    <2>2. QED  BY <1>3, <1>9, <2>1 DEF ItemTaken
  <1>10. ASSUME NEW w \in Workers, WorkerRests(w)
         PROVE  EnoughSentinels'
    <2>1. StillThere' \subseteq StillThere
      BY <1>10 DEF WorkerRests, StillThere, TypeOK
    <2>2. QED  BY <1>3, <1>10, <2>1 DEF WorkerRests
  <1>11. ASSUME NEW w \in Workers, NEW outcome \in {"resolved", "failed"},
                FinishAnalysis(w, outcome)
         PROVE  EnoughSentinels'
    <2>1. StillThere' \subseteq StillThere
      BY <1>11 DEF FinishAnalysis, StillThere, TypeOK
    <2>2. QED  BY <1>3, <1>11, <2>1 DEF FinishAnalysis
  <1>12. ASSUME UNCHANGED <<wstate, sentinels, stopVars>>
         PROVE  EnoughSentinels'
    BY <1>3, <1>12 DEF StillThere
  <1>13. QED
    BY StepCases, <1>4, <1>5, <1>6, <1>7, <1>8, <1>9, <1>10, <1>11, <1>12
    DEF NewItem, Cancel, Forget, coreVars

-----------------------------------------------------------------------------
(* IInv is inductive.                                                      *)
LEMMA IInvStep ==
    ASSUME IInv, [Next]_vars
    PROVE  IInv'
  <1>1. TypeOK /\ QSize <= Capacity
    BY DEF IInv, BackgroundLeavesRoom
  <1>2. TypeOK'
    BY <1>1, TypeStep
  <1>3. QED
    BY <1>1, <1>2, RoomStep, LifecycleStep, ItemsStep, RegistryStep, OwnedStep,
       SentinelsStep
    DEF IInv

\* IInv holds in every reachable state of the queue.
LEMMA InductiveInvariant == Spec => []IInv
  <1>1. Init => IInv
    BY InitIInv
  <1>2. IInv /\ [Next]_vars => IInv'
    BY IInvStep
  <1>3. QED  BY <1>1, <1>2, PTL DEF Spec

(* The state of the queue of analyst/queue.py keeps its types; that the    *)
(* sentinels stay a number rests on the room stop() leaves.                *)
THEOREM TypeCorrect == Spec => []TypeOK
  <1>1. IInv => TypeOK
    BY DEF IInv
  <1>2. QED  BY <1>1, InductiveInvariant, PTL

(* submit() and the workers keep _dedup and the queue in step, whatever    *)
(* the order of submissions, cancellations, get()s, stops and restarts.    *)
THEOREM RegistryAgrees == Spec => []RegistryMatchesQueue
  <1>1. IInv => RegistryMatchesQueue
    BY DEF IInv
  <1>2. QED  BY <1>1, InductiveInvariant, PTL

(* No future submit() handed out is lost by the queue before a restart:    *)
(* its item is queued or with exactly one worker.                          *)
THEOREM PendingStaysOwned == Spec => []PendingIsOwned
  <1>1. IInv => PendingIsOwned
    BY DEF IInv
  <1>2. QED  BY <1>1, InductiveInvariant, PTL

(* The drop policy of submit() and the sentinels of stop() together keep   *)
(* the queue within its capacity and room for urgent work.                 *)
THEOREM RoomIsLeft == Spec => []BackgroundLeavesRoom
  <1>1. IInv => BackgroundLeavesRoom
    BY DEF IInv
  <1>2. QED  BY <1>1, InductiveInvariant, PTL

(* When stop() awaits its workers, the queue holds a sentinel for each     *)
(* that has not ended, for any number of workers.                          *)
THEOREM EveryWorkerGetsASentinel == Spec => []SentinelForEachWorker
  <1>1. IInv => SentinelForEachWorker
    <2>1. ASSUME IInv, phase = "joining"
          PROVE  Cardinality({w \in Workers : wstate[w] # "exited"}) <= sentinels
      <3>1. toPut = 0 /\ sentinels \in Nat
        BY <2>1 DEF IInv, EnoughSentinels, TypeOK
      <3>2. sentinels + toPut = sentinels
        BY <3>1
      <3>3. QED  BY <2>1, <3>2, Zenon DEF IInv, EnoughSentinels
    <2>2. QED  BY <2>1 DEF SentinelForEachWorker
  <1>2. QED  BY <1>1, InductiveInvariant, PTL

(* A future is settled once: neither a worker that comes back late nor a   *)
(* caller that cancels overwrites an outcome.                              *)
THEOREM OutcomesAreFinal == Spec => SettledOnce
  <1>1. ASSUME IInv, [Next]_vars, NEW i \in Items, fut[i] \in Settled
        PROVE  fut'[i] \in {fut[i], "free"}
    <2>1. TypeOK
      BY <1>1 DEF IInv
    <2>2. CASE \E j \in Items, r \in Resources, p \in Priorities : NewItem(j, r, p)
      BY <1>1, <2>1, <2>2 DEF NewItem, TypeOK, Settled
    <2>3. CASE \E j \in Items : Cancel(j) \/ Forget(j)
      BY <1>1, <2>1, <2>3 DEF Cancel, Forget, TypeOK, Settled
    <2>4. CASE \E w \in Workers, outcome \in {"resolved", "failed"} :
                 FinishAnalysis(w, outcome)
      BY <1>1, <2>1, <2>4 DEF FinishAnalysis, TypeOK, Settled
    <2>5. CASE fut' = fut
      BY <2>5
    <2>6. QED
      BY <1>1, StepCases, <2>2, <2>3, <2>4, <2>5
      DEF Start, Stop, StopResumesPut, StopReturns, ItemTaken, SentinelTaken,
          WorkerRests, coreVars
  <1>2. IInv /\ [Next]_vars =>
           [\A i \in Items : fut[i] \in Settled => fut'[i] \in {fut[i], "free"}]_vars
    BY <1>1
  <1>3. QED  BY <1>2, InductiveInvariant, PTL DEF Spec, SettledOnce
-----------------------------------------------------------------------------
(* WorkQueue implements AnalysisRequests: what the callers see of it.      *)
\* An accepted request is a new one, and no other waits for its workload.
LEMMA AcceptImplemented ==
    ASSUME IInv, NEW i \in Items, NEW r \in Resources, NEW p \in Priorities,
           NewItem(i, r, p)
    PROVE  Requests!Accept(i)
  <1>0. TypeOK /\ ItemsInUse /\ RegistryMatchesQueue
    BY DEF IInv
  <1>1. fut[i] = "free" /\ ~ Queued(i) /\ \A w \in Workers : job[w] # i
    BY <1>0, QueueAssumption DEF NewItem, ItemsInUse, Queued
  <1>2. ASSUME NEW j \in Items, Queued(j)
        PROVE  KeyOf[res[j]] # KeyOf[r]
    BY <1>0, <1>2, QueuedHaveKeys
    DEF Queued, RegistryMatchesQueue, NewItem, KeyOfItem
  <1>3. \A j \in Items : Queued(j)' <=> Queued(j) \/ j = i
    BY <1>0, QueuedAfterNewItem
  <1>4. {j \in Items : Queued(j)}' = {j \in Items : Queued(j)} \cup {i}
    BY <1>3
  <1>5. {j \in Items : \E w \in Workers : job[w] = j}'
            = {j \in Items : \E w \in Workers : job[w] = j}
    BY DEF NewItem
  <1>6. p \in 1..3
    BY DEF Priorities
  <1>7. QED
    BY <1>1, <1>2, <1>4, <1>5, <1>6 DEF NewItem, Requests!Accept

\* A get() serves the most urgent request, or drops a cancelled one.
LEMMA BeginImplemented ==
    ASSUME IInv, NEW w \in Workers, NEW p \in Priorities, ItemTaken(w, p),
           NEW h \in Items, h = Head(queue[p])
    PROVE  Requests!Begin(h)
  <1>0. TypeOK /\ ItemsInUse /\ RegistryMatchesQueue
    BY DEF IInv
  <1>1. /\ Queued(h) /\ h \in Items
        /\ \A j \in Items : Queued(j)' <=> Queued(j) /\ j # h
    BY <1>0, QueuedAfterTake
  <1>2. {j \in Items : Queued(j)}' = {j \in Items : Queued(j)} \ {h}
    BY <1>1
  <1>3. prio[h] = p
    BY <1>0, QueueAfterTake, SizesAreNumbers DEF RegistryMatchesQueue
  <1>4. ASSUME NEW j \in Items, Queued(j)
        PROVE  prio[h] <= prio[j]
    <2>1. PICK q \in Priorities : \E n \in DOMAIN queue[q] : queue[q][n] = j
      BY <1>4 DEF Queued
    <2>2. prio[j] = q /\ queue[q] # <<>>
      BY <1>0, <2>1, SizesAreNumbers DEF RegistryMatchesQueue
    <2>3. ~ (q < p)
      BY <2>2 DEF ItemTaken
    <2>4. QED  BY <1>3, <2>2, <2>3 DEF Priorities
  <1>5. job[w] = None /\ None \notin Items
    BY <1>0, QueueAssumption DEF ItemTaken, ItemsInUse
  <1>6. {j \in Items : \E v \in Workers : job[v] = j}'
            = IF fut[h] = "cancelled" THEN {j \in Items : \E v \in Workers : job[v] = j}
              ELSE {j \in Items : \E v \in Workers : job[v] = j} \cup {h}
    <2>1. CASE fut[h] = "cancelled"
      BY <2>1 DEF ItemTaken
    <2>2. CASE fut[h] # "cancelled"
      <3>1. job' = [job EXCEPT ![w] = h]
        BY <2>2 DEF ItemTaken
      <3>2. job'[w] = h /\ \A v \in Workers : v # w => job'[v] = job[v]
        BY <3>1, <1>0 DEF TypeOK
      <3>3. \A j \in Items : (\E v \in Workers : job'[v] = j)
                <=> j = h \/ \E v \in Workers : job[v] = j
        BY <3>2, <1>5
      <3>4. QED  BY <2>2, <3>3, <1>1
    <2>3. QED  BY <2>1, <2>2
  <1>7. UNCHANGED <<fut, res, prio>>
    BY DEF ItemTaken, itemVars
  <1>8. QED  BY <1>1, <1>2, <1>4, <1>6, <1>7 DEF Requests!Begin

\* A worker that comes back settles the request it alone was serving.
LEMMA SettleImplemented ==
    ASSUME IInv, NEW w \in Workers, NEW outcome \in {"resolved", "failed"},
           FinishAnalysis(w, outcome), NEW i \in Items, i = job[w]
    PROVE  Requests!Settle(i)
  <1>0. TypeOK /\ ItemsInUse /\ PendingIsOwned
    BY DEF IInv
  <1>1. None \notin Items
    BY QueueAssumption
  <1>2. job'[w] = None /\ \A v \in Workers : v # w => job'[v] = job[v]
    BY <1>0 DEF FinishAnalysis, TypeOK
  <1>3. \A j \in Items : (\E v \in Workers : job'[v] = j)
            <=> j # i /\ \E v \in Workers : job[v] = j
    BY <1>0, <1>1, <1>2 DEF PendingIsOwned
  <1>4. {j \in Items : \E v \in Workers : job[v] = j}'
            = {j \in Items : \E v \in Workers : job[v] = j} \ {i}
    BY <1>3
  <1>5. UNCHANGED <<queue, res, prio>>
    BY DEF FinishAnalysis, itemVars
  <1>6. {j \in Items : Queued(j)}' = {j \in Items : Queued(j)}
    BY <1>5 DEF Queued
  <1>7. fut' = [fut EXCEPT ![i] = IF @ = "pending" THEN outcome ELSE @]
    BY DEF FinishAnalysis
  <1>8. QED  BY <1>1, <1>4, <1>5, <1>6, <1>7 DEF Requests!Settle

\* Every step of the queue is a step of AnalysisRequests, or none for it.
LEMMA StepImplemented ==
    ASSUME IInv, [Next]_vars
    PROVE  [Requests!Next]_(Requests!vars)
  <1>0. TypeOK /\ ItemsInUse /\ Lifecycle
    BY DEF IInv
  <1>1. ASSUME UNCHANGED <<queue, fut, itemVars, job>>
        PROVE  UNCHANGED Requests!vars
    <2>1. {j \in Items : Queued(j)}' = {j \in Items : Queued(j)}
      BY <1>1 DEF Queued
    <2>2. {j \in Items : \E v \in Workers : job[v] = j}'
              = {j \in Items : \E v \in Workers : job[v] = j}
      BY <1>1
    <2>3. QED  BY <1>1, <2>1, <2>2 DEF Requests!vars, itemVars
  <1>2. CASE Start
    <2>1. \A w \in Workers : job[w] = None
      BY <1>0, <1>2 DEF Start, Lifecycle, ItemsInUse
    <2>2. {j \in Items : \E v \in Workers : job[v] = j} = {}
      BY <2>1, QueueAssumption
    <2>3. {j \in Items : Queued(j)}' = {}
      BY <1>2 DEF Start, Queued
    <2>4. UNCHANGED <<fut, res, prio, job>>
      BY <1>2 DEF Start, itemVars
    <2>5. Requests!Restart
      BY <2>2, <2>3, <2>4 DEF Requests!Restart
    <2>6. QED  BY <2>5 DEF Requests!Next
  <1>3. ASSUME NEW i \in Items, NEW r \in Resources, NEW p \in Priorities,
               NewItem(i, r, p)
        PROVE  Requests!Next
    BY <1>3, AcceptImplemented DEF Requests!Next
  <1>4. ASSUME NEW i \in Items, Cancel(i)
        PROVE  Requests!Next
    <2>1. {j \in Items : Queued(j)}' = {j \in Items : Queued(j)}
      BY <1>4 DEF Cancel, Queued
    <2>2. {j \in Items : \E v \in Workers : job[v] = j}'
              = {j \in Items : \E v \in Workers : job[v] = j}
      BY <1>4 DEF Cancel
    <2>3. Requests!Cancel(i)
      BY <1>4, <2>1, <2>2 DEF Cancel, Requests!Cancel, itemVars
    <2>4. QED  BY <2>3 DEF Requests!Next
  <1>5. ASSUME NEW i \in Items, Forget(i)
        PROVE  Requests!Next
    <2>1. {j \in Items : Queued(j)}' = {j \in Items : Queued(j)}
      BY <1>5 DEF Forget, Queued
    <2>2. {j \in Items : \E v \in Workers : job[v] = j}'
              = {j \in Items : \E v \in Workers : job[v] = j}
      BY <1>5 DEF Forget
    <2>3. Requests!Release(i)
      BY <1>5, <2>1, <2>2
      DEF Forget, Requests!Release, Requests!Settled, Settled, INTERACTIVE
    <2>4. QED  BY <2>3 DEF Requests!Next
  <1>6. ASSUME NEW w \in Workers, NEW p \in Priorities, ItemTaken(w, p)
        PROVE  Requests!Next
    <2>1. PICK i \in Items : i = Head(queue[p])
      BY <1>0, <1>6, QueueAfterTake
    <2>2. Requests!Begin(i)
      BY <1>6, <2>1, BeginImplemented
    <2>3. QED  BY <2>2 DEF Requests!Next
  <1>7. ASSUME NEW w \in Workers, NEW outcome \in {"resolved", "failed"},
               FinishAnalysis(w, outcome)
        PROVE  Requests!Next
    <2>1. PICK i \in Items : i = job[w]
      BY <1>0, <1>7, QueueAssumption DEF FinishAnalysis, ItemsInUse, TypeOK
    <2>2. Requests!Settle(i)
      BY <1>7, <2>1, SettleImplemented
    <2>3. QED  BY <2>2 DEF Requests!Next
  <1>8. QED
    BY StepCases, <1>1, <1>2, <1>3, <1>4, <1>5, <1>6, <1>7
    DEF Stop, StopResumesPut, StopReturns, SentinelTaken, WorkerRests, coreVars

(* For every number of workers and items, every capacity and any restarts, *)
(* queue.py keeps what AnalysisRequests promises its callers: a request is *)
(* served at most once, the most urgent first, its outcome is fixed once,  *)
(* two for one workload never wait together.                               *)
THEOREM Implements == Spec => ServesRequests
  <1>1. Init => Requests!Init
    <2>1. ASSUME Init
          PROVE  /\ {j \in Items : Queued(j)} = {}
                 /\ {j \in Items : \E v \in Workers : job[v] = j} = {}
      BY <2>1, QueueAssumption DEF Init, Queued
    <2>2. QED  BY <2>1 DEF Init, Requests!Init, INTERACTIVE
  <1>2. IInv /\ [Next]_vars => [Requests!Next]_(Requests!vars)
    BY StepImplemented
  <1>3. QED
    BY <1>1, <1>2, InductiveInvariant, PTL DEF Spec, ServesRequests, Requests!Spec

-----------------------------------------------------------------------------
(* The rate limiter inside the queue.                                      *)
\* No rate exceeds the default, and none the half of it while halved.
LEMMA RatesInOrder ==
    /\ HalfRate \in Nat /\ HalfRate <= DefaultRate
    /\ \A degraded, cpuBusy \in BOOLEAN :
          /\ EffectiveRate(degraded, cpuBusy) \in Nat
          /\ EffectiveRate(degraded, cpuBusy) <= DefaultRate
          /\ halvedFor > 0 => EffectiveRate(degraded, cpuBusy) <= HalfRate
  <1>1. /\ DefaultRate \in Nat /\ DegradedRate \in Nat /\ DefaultRate > 0
    BY RateAssumption
  <1>2. \A n \in Nat : n > 0 => (n + 1) \div 2 \in Nat /\ (n + 1) \div 2 <= n
    OBVIOUS
  <1>3. HalfRate \in Nat /\ HalfRate <= DefaultRate
    BY <1>1, <1>2 DEF HalfRate
  <1>4. DegradedRate <= HalfRate /\ DegradedRate <= DefaultRate
    BY <1>1, <1>3, DegradedIsLess
  <1>5. ASSUME NEW degraded \in BOOLEAN, NEW cpuBusy \in BOOLEAN
        PROVE  /\ EffectiveRate(degraded, cpuBusy) \in {DegradedRate, HalfRate, DefaultRate}
               /\ halvedFor > 0 => EffectiveRate(degraded, cpuBusy) # DefaultRate
                                   \/ DefaultRate = HalfRate \/ DefaultRate = DegradedRate
    BY DEF EffectiveRate
  <1>6. QED  BY <1>1, <1>3, <1>4, <1>5

\* Only a call that is let through adds to the window, and it found room.
LEMMA WindowStep ==
    ASSUME RateTypeOK
    PROVE  /\ CallsInWindow \in Nat
           /\ \A degraded, cpuBusy \in BOOLEAN : Admit(degraded, cpuBusy) =>
                 /\ CallsInWindow' = CallsInWindow + 1
                 /\ CallsInWindow < EffectiveRate(degraded, cpuBusy)
           /\ Notify429 \/ RateTick \/ UNCHANGED rateVars =>
                 CallsInWindow' <= CallsInWindow
  <1>1. Window \in Nat /\ recent \in [0..Window -> Nat] /\ Window \in 0..Window
    BY RateAssumption DEF RateTypeOK, Ages
  <1>2. Total(recent) \in Nat /\ recent[Window] \in Nat
    BY <1>1, TotalType
  <1>3. Total(Record(recent)) = Total(recent) + 1
    BY <1>1, TotalOfRecord
  <1>4. Total(Aged(recent)) = Total(recent) - recent[Window]
    BY <1>1, TotalOfAged
  <1>5. Total(Aged(recent)) <= Total(recent)
    BY <1>2, <1>4
  <1>6. Total(recent) <= Total(recent)
    BY <1>2
  <1>7. \A degraded, cpuBusy \in BOOLEAN : Admit(degraded, cpuBusy) =>
                 /\ CallsInWindow' = CallsInWindow + 1
                 /\ CallsInWindow < EffectiveRate(degraded, cpuBusy)
    BY <1>3, Zenon DEF Admit, CallsInWindow
  <1>8. CASE RateTick
    BY <1>2, <1>5, <1>7, <1>8, Zenon DEF RateTick, CallsInWindow
  <1>9. CASE Notify429 \/ UNCHANGED rateVars
    BY <1>2, <1>6, <1>7, <1>9, Zenon DEF Notify429, rateVars, CallsInWindow
  <1>10. QED  BY <1>2, <1>7, <1>8, <1>9, Zenon DEF CallsInWindow

\* What a step of the queue does to the window of recent calls.
LEMMA RateCases ==
    ASSUME [Next]_vars
    PROVE  \/ \E degraded, cpuBusy \in BOOLEAN : Admit(degraded, cpuBusy)
           \/ Notify429 \/ RateTick \/ UNCHANGED rateVars
  BY DEF Next, Serving, Stopping, WorkerStep, vars, rateVars, Start, Stop,
         StopResumesPut, StopReturns, Submit, Cancel, Forget, LoopHead, GetResumes,
         FinishAnalysis, Upstream429, Tick

\* The calls in the window stay a number.
LEMMA RateWindowKeepsType ==
    ASSUME RateTypeOK, [Next]_vars
    PROVE  CallsInWindow' \in Nat
  <1>1. RateTypeOK'
    BY RateTypes, RateCases
  <1>2. Window \in Nat /\ recent' \in [0..Window -> Nat]
    BY <1>1, RateAssumption DEF RateTypeOK, Ages
  <1>3. QED  BY <1>2, TotalType DEF CallsInWindow

(* However calls, 429s, degradations and ticks interleave, the last minute *)
(* never holds more calls than the default rate of queue.py.               *)
THEOREM RateStaysBounded == Spec => []RateBounded
  <1>1. DefaultRate \in Nat /\ 0 <= DefaultRate
    BY RateAssumption
  <1>2. Init => RateBounded
    BY <1>1, RateAssumption, TotalOfEmpty
    DEF Init, RateInit, RateBounded, CallsInWindow
  <1>3. ASSUME TypeOK, RateBounded, [Next]_vars
        PROVE  RateBounded'
    <2>1. RateTypeOK /\ CallsInWindow \in Nat
      BY <1>3, WindowStep DEF TypeOK
    <2>2. CASE \E degraded, cpuBusy \in BOOLEAN : Admit(degraded, cpuBusy)
      <3>1. PICK degraded \in BOOLEAN, cpuBusy \in BOOLEAN : Admit(degraded, cpuBusy)
        BY <2>2
      <3>2. /\ CallsInWindow' = CallsInWindow + 1
            /\ CallsInWindow < EffectiveRate(degraded, cpuBusy)
        BY <2>1, <3>1, WindowStep
      <3>3. /\ EffectiveRate(degraded, cpuBusy) \in Nat
            /\ EffectiveRate(degraded, cpuBusy) <= DefaultRate
        BY RatesInOrder
      <3>4. QED  BY <1>1, <2>1, <3>2, <3>3 DEF RateBounded
    <2>3. CASE Notify429 \/ RateTick \/ UNCHANGED rateVars
      <3>1. CallsInWindow' <= CallsInWindow
        BY <2>1, <2>3, WindowStep
      <3>2. CallsInWindow' \in Nat
        BY <1>3, <2>1, RateWindowKeepsType
      <3>3. QED  BY <1>1, <1>3, <2>1, <3>1, <3>2 DEF RateBounded
    <2>4. QED  BY <1>3, <2>2, <2>3, RateCases
  <1>4. QED  BY <1>2, <1>3, TypeCorrect, PTL DEF Spec

(* After an upstream 429 the calls let through leave at most half the rate *)
(* in the window, for as long as the halving lasts.                        *)
THEOREM HalvingHolds == Spec => HalvedWhileBackingOff
  <1>1. ASSUME TypeOK, [Next]_vars, CallsInWindow' > CallsInWindow, halvedFor > 0
        PROVE  CallsInWindow' <= HalfRate
    <2>1. RateTypeOK /\ CallsInWindow \in Nat
      BY <1>1, WindowStep DEF TypeOK
    <2>2. CASE \E degraded, cpuBusy \in BOOLEAN : Admit(degraded, cpuBusy)
      <3>1. PICK degraded \in BOOLEAN, cpuBusy \in BOOLEAN : Admit(degraded, cpuBusy)
        BY <2>2
      <3>2. /\ CallsInWindow' = CallsInWindow + 1
            /\ CallsInWindow < EffectiveRate(degraded, cpuBusy)
        BY <2>1, <3>1, WindowStep
      <3>3. /\ EffectiveRate(degraded, cpuBusy) \in Nat /\ HalfRate \in Nat
            /\ EffectiveRate(degraded, cpuBusy) <= HalfRate
        BY <1>1, RatesInOrder
      <3>4. QED  BY <2>1, <3>2, <3>3
    <2>3. CASE Notify429 \/ RateTick \/ UNCHANGED rateVars
      <3>1. CallsInWindow' <= CallsInWindow
        BY <2>1, <2>3, WindowStep
      <3>2. CallsInWindow' \in Nat
        BY <1>1, <2>1, RateWindowKeepsType
      <3>3. QED  BY <1>1, <2>1, <3>1, <3>2
    <2>4. QED  BY <1>1, <2>2, <2>3, RateCases
  <1>2. TypeOK /\ [Next]_vars =>
           [CallsInWindow' > CallsInWindow /\ halvedFor > 0
                => CallsInWindow' <= HalfRate]_vars
    BY <1>1
  <1>3. QED  BY <1>2, TypeCorrect, PTL DEF Spec, HalvedWhileBackingOff

=============================================================================
