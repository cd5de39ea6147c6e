------------------------------ MODULE WorkerPool ------------------------------
(***************************************************************************)
(* The worker pool of worker_pool.rs: tasks on one shared receiver, a      *)
(* count of them and a count of the items they work on, both plain atomics *)
(* beside what they count.  Each access to an atomic, the channel or the   *)
(* shutdown signal is a step; callers, workers and drain_and_shutdown run  *)
(* on different threads.                                                   *)
(*                                                                         *)
(* The mutex around the receiver is left out: any waiting worker may get   *)
(* the next item.  An id of a worker that has ended may be used again.     *)
(* Items are numbered in the order in which they are submitted.            *)
(***************************************************************************)
EXTENDS FiniteSets, Integers, Sequences

CONSTANTS
    Workers,         \* ids of worker tasks
    Submitters,      \* tasks that call submit and scale_up
    NumItems,        \* bound: items submitted
    MinWorkers, MaxWorkers, DepthPerWorker,  \* WorkerConfig
    QueueCap,        \* capacity of the channel
    UsizeRange       \* the atomics count modulo this: 2^64

Items == 1..NumItems
NoItem == 0

ASSUME PoolAssumption ==
    /\ IsFiniteSet(Workers)
    /\ {MinWorkers, MaxWorkers, QueueCap, NumItems} \subseteq Nat
    /\ DepthPerWorker \in Nat \ {0}
    /\ UsizeRange \in Nat /\ UsizeRange > Cardinality(Workers)
    /\ MinWorkers <= Cardinality(Workers)

VARIABLES
    worker,      \* where each worker task is in its loop
    hand,        \* the item it has received
    queue,       \* the channel
    count,       \* worker_count
    active,      \* active_work
    submitter,   \* where each caller is in submit or scale_up
    parcel,      \* the item it submits
    seen,        \* the worker count it has read
    drainer,     \* where drain_and_shutdown is
    shutdown,    \* the shutdown signal
    answered,    \* items whose reply was sent
    panicked,    \* items whose handler panicked
    owed,        \* history: the items in the pool when the drain began
    departed,    \* history: workers that left for idleness, modulo UsizeRange
    shrinking    \* history: some worker has tried to leave for idleness

workerVars == <<worker, hand, active>>
submitterVars == <<submitter, parcel, seen>>
poolHistory == <<owed, departed, shrinking>>
poolVars == <<workerVars, queue, count, submitterVars, drainer, shutdown,
              answered, panicked, poolHistory>>

WithItem == {"holding", "busy", "replying"}
WorkerPhases ==
    {"gone", "panicked", "top", "waiting", "idle", "subtracting",
     "restoring", "leaving", "stopping"} \cup WithItem
SubmitterPhases == {"ready", "sizing", "growing", "sending", "scaling"}
DrainPhases == {"off", "draining", "emptied", "signalling", "stopping", "done"}

Usize == 0..(UsizeRange - 1)

PoolTypeOK ==
    /\ worker \in [Workers -> WorkerPhases]
    /\ hand \in [Workers -> Items \cup {NoItem}]
    /\ queue \in Seq(Items) /\ Len(queue) <= QueueCap
    /\ count \in Usize /\ active \in Usize /\ departed \in Usize
    /\ submitter \in [Submitters -> SubmitterPhases]
    /\ parcel \in [Submitters -> Items \cup {NoItem}]
    /\ seen \in [Submitters -> Usize]
    /\ drainer \in DrainPhases
    /\ shutdown \in BOOLEAN /\ shrinking \in BOOLEAN
    /\ answered \subseteq Items /\ panicked \subseteq Items /\ owed \subseteq Items

\* new(): min_workers tasks are spawned.
PoolInit ==
    /\ \E S \in SUBSET Workers :
          /\ Cardinality(S) = MinWorkers
          /\ worker = [w \in Workers |-> IF w \in S THEN "top" ELSE "gone"]
    /\ hand = [w \in Workers |-> NoItem]
    /\ queue = <<>>
    /\ count = MinWorkers /\ active = 0
    /\ submitter = [s \in Submitters |-> "ready"]
    /\ parcel = [s \in Submitters |-> NoItem]
    /\ seen = [s \in Submitters |-> 0]
    /\ drainer = "off" /\ shutdown = FALSE
    /\ answered = {} /\ panicked = {} /\ owed = {}
    /\ departed = 0 /\ shrinking = FALSE

-----------------------------------------------------------------------------
\* fetch_add(1) and fetch_sub(1) wrap.
Up(n) == (n + 1) % UsizeRange
Down(n) == (n + UsizeRange - 1) % UsizeRange

WorkerGoes(w, phase) == worker' = [worker EXCEPT ![w] = phase]
SubmitterGoes(s, phase) == submitter' = [submitter EXCEPT ![s] = phase]

Queued == {queue[k] : k \in DOMAIN queue}
InHand == {hand[w] : w \in {x \in Workers : worker[x] \in WithItem}}

\* The items that were submitted so far.
Submitted ==
    Queued \cup InHand \cup answered \cup panicked
        \cup {parcel[s] : s \in {x \in Submitters : submitter[x] # "ready"}}

-----------------------------------------------------------------------------
\* submit(): maybe_scale_up() reads the worker count.
Submit(s, i) ==
    /\ submitter[s] = "ready" /\ i \notin Submitted
    /\ \A j \in 1..(i - 1) : j \in Submitted
    /\ SubmitterGoes(s, "sizing")
    /\ parcel' = [parcel EXCEPT ![s] = i]
    /\ seen' = [seen EXCEPT ![s] = count]
    /\ UNCHANGED <<workerVars, queue, count, drainer, shutdown,
                   answered, panicked, poolHistory>>

\* maybe_scale_up(): the queue is too deep for the workers seen.
TooDeep(s) ==
    /\ Len(queue) > seen[s] * DepthPerWorker
    /\ seen[s] < MaxWorkers

SizeUp(s) ==
    /\ submitter[s] = "sizing"
    /\ SubmitterGoes(s, IF TooDeep(s) THEN "growing" ELSE "sending")
    /\ UNCHANGED <<workerVars, queue, count, parcel, seen, drainer, shutdown,
                   answered, panicked, poolHistory>>

\* scale_up(): reads the count; at the maximum it does nothing.
ScaleUp(s) ==
    /\ submitter[s] = "ready" /\ count < MaxWorkers
    /\ SubmitterGoes(s, "scaling")
    /\ UNCHANGED <<workerVars, queue, count, parcel, seen, drainer, shutdown,
                   answered, panicked, poolHistory>>

\* scale_up_inner(): counts and spawns a worker.
Spawn(s, w) ==
    /\ submitter[s] \in {"growing", "scaling"}
    /\ worker[w] = "gone"
    /\ WorkerGoes(w, "top")
    /\ count' = Up(count)
    /\ SubmitterGoes(s, IF submitter[s] = "growing" THEN "sending" ELSE "ready")
    /\ UNCHANGED <<hand, active, queue, parcel, seen, drainer, shutdown,
                   answered, panicked, poolHistory>>

QueueHasRoom == Len(queue) < QueueCap

\* submit(): tx.send, which waits for room.
Enqueue(s) ==
    /\ submitter[s] = "sending" /\ QueueHasRoom
    /\ queue' = Append(queue, parcel[s])
    /\ SubmitterGoes(s, "ready")
    /\ UNCHANGED <<workerVars, count, parcel, seen, drainer, shutdown,
                   answered, panicked, poolHistory>>

-----------------------------------------------------------------------------
\* The top of the worker's loop: the shutdown signal.
Top(w) ==
    /\ worker[w] = "top"
    /\ WorkerGoes(w, IF shutdown THEN "stopping" ELSE "waiting")
    /\ UNCHANGED <<hand, active, queue, count, submitterVars, drainer, shutdown,
                   answered, panicked, poolHistory>>

\* select!: an item.
Take(w) ==
    /\ worker[w] = "waiting" /\ queue # <<>>
    /\ WorkerGoes(w, "holding")
    /\ hand' = [hand EXCEPT ![w] = Head(queue)]
    /\ queue' = Tail(queue)
    /\ UNCHANGED <<active, count, submitterVars, drainer, shutdown,
                   answered, panicked, poolHistory>>

\* select!: the signal changed.
Wake(w) ==
    /\ worker[w] = "waiting" /\ shutdown
    /\ WorkerGoes(w, "stopping")
    /\ UNCHANGED <<hand, active, queue, count, submitterVars, drainer, shutdown,
                   answered, panicked, poolHistory>>

\* select!: idle_timeout has passed.
Idle(w) ==
    /\ worker[w] = "waiting"
    /\ WorkerGoes(w, "idle")
    /\ UNCHANGED <<hand, active, queue, count, submitterVars, drainer, shutdown,
                   answered, panicked, poolHistory>>

\* mutant: a worker at the minimum waits for the count to grow
WaitsForGrowth == "idle"

\* A worker at the minimum goes back to the receiver.
AtMinimum == "top"

\* After an idle timeout: is this worker above the minimum?
ReadCount(w) ==
    /\ worker[w] = "idle"
    /\ WorkerGoes(w, IF count > MinWorkers THEN "subtracting" ELSE AtMinimum)
    /\ UNCHANGED <<hand, active, queue, count, submitterVars, drainer, shutdown,
                   answered, panicked, poolHistory>>

\* The first decrement, and the test of what the count was before it.
Subtract(w) ==
    /\ worker[w] = "subtracting"
    /\ count' = Down(count)
    /\ WorkerGoes(w, IF count <= MinWorkers THEN "restoring" ELSE "leaving")
    /\ shrinking' = TRUE
    /\ UNCHANGED <<hand, active, queue, submitterVars, drainer, shutdown,
                   answered, panicked, owed, departed>>

\* mutant: a worker that stays does not add itself back
NotRestored(n) == n

\* The count once a worker that must stay has added itself back.
Restored(n) == Up(n)

Restore(w) ==
    /\ worker[w] = "restoring"
    /\ count' = Restored(count)
    /\ WorkerGoes(w, "top")
    /\ UNCHANGED <<hand, active, queue, submitterVars, drainer, shutdown,
                   answered, panicked, poolHistory>>

\* The end of the task: the decrement after the loop, which a worker that left
\* for idleness makes as well.
End(w) ==
    /\ worker[w] \in {"leaving", "stopping"}
    /\ count' = Down(count)
    /\ WorkerGoes(w, "gone")
    /\ departed' = IF worker[w] = "leaving" THEN Up(departed) ELSE departed
    /\ UNCHANGED <<hand, active, queue, submitterVars, drainer, shutdown,
                   answered, panicked, owed, shrinking>>

\* The handler starts.
Start(w) ==
    /\ worker[w] = "holding"
    /\ WorkerGoes(w, "busy")
    /\ active' = Up(active)
    /\ UNCHANGED <<hand, queue, count, submitterVars, drainer, shutdown,
                   answered, panicked, poolHistory>>

\* mutant: the item stays active
StillActive(n) == n

\* active_work once an item is done.
Inactive(n) == Down(n)

\* The handler returns.
Return(w) ==
    /\ worker[w] = "busy"
    /\ WorkerGoes(w, "replying")
    /\ active' = Inactive(active)
    /\ UNCHANGED <<hand, queue, count, submitterVars, drainer, shutdown,
                   answered, panicked, poolHistory>>

\* The handler panics: the task ends without any of its decrements.
Panic(w) ==
    /\ worker[w] = "busy"
    /\ WorkerGoes(w, "panicked")
    /\ panicked' = panicked \cup {hand[w]}
    /\ hand' = [hand EXCEPT ![w] = NoItem]
    /\ UNCHANGED <<active, queue, count, submitterVars, drainer, shutdown,
                   answered, poolHistory>>

\* The reply is sent.
Reply(w) ==
    /\ worker[w] = "replying"
    /\ WorkerGoes(w, "top")
    /\ answered' = answered \cup {hand[w]}
    /\ hand' = [hand EXCEPT ![w] = NoItem]
    /\ UNCHANGED <<active, queue, count, submitterVars, drainer, shutdown,
                   panicked, poolHistory>>

-----------------------------------------------------------------------------
\* drain_and_shutdown() is called.
Drain ==
    /\ drainer = "off"
    /\ drainer' = "draining"
    /\ owed' = Queued \cup InHand
    /\ UNCHANGED <<workerVars, queue, count, submitterVars, shutdown,
                   answered, panicked, departed, shrinking>>

\* mutant: the drain looks at the active items only
EmptyAlways == TRUE

\* queue_depth == 0
QueueEmpty == queue = <<>>

DrainQueue ==
    /\ drainer = "draining" /\ QueueEmpty
    /\ drainer' = "emptied"
    /\ UNCHANGED <<workerVars, queue, count, submitterVars, shutdown,
                   answered, panicked, poolHistory>>

\* active == 0, or another round.
DrainActive ==
    /\ drainer = "emptied"
    /\ drainer' = IF active = 0 THEN "signalling" ELSE "draining"
    /\ UNCHANGED <<workerVars, queue, count, submitterVars, shutdown,
                   answered, panicked, poolHistory>>

SignalShutdown ==
    /\ drainer = "signalling"
    /\ shutdown' = TRUE
    /\ drainer' = "stopping"
    /\ UNCHANGED <<workerVars, queue, count, submitterVars,
                   answered, panicked, poolHistory>>

\* worker_count == 0
AllStopped == count = 0

Drained ==
    /\ drainer = "stopping" /\ AllStopped
    /\ drainer' = "done"
    /\ UNCHANGED <<workerVars, queue, count, submitterVars, shutdown,
                   answered, panicked, poolHistory>>

-----------------------------------------------------------------------------
Loop(w) ==
    \/ Top(w) \/ Wake(w) \/ ReadCount(w) \/ Subtract(w) \/ Restore(w) \/ End(w)
    \/ Start(w) \/ Return(w) \/ Reply(w)

DrainStep == DrainQueue \/ DrainActive \/ SignalShutdown \/ Drained

PoolNext ==
    \/ \E s \in Submitters :
         \/ \E i \in Items : Submit(s, i)
         \/ SizeUp(s) \/ ScaleUp(s) \/ Enqueue(s)
         \/ \E w \in Workers : Spawn(s, w)
    \/ \E w \in Workers : Loop(w) \/ Take(w) \/ Idle(w) \/ Panic(w)
    \/ Drain \/ DrainStep

PoolSpec == PoolInit /\ [][PoolNext]_poolVars

\* Tasks that can go on do, a drain as well; of the workers that wait for an
\* item one that waits again and again gets one.  Callers may stop, and nobody
\* is forced to be idle or to panic.
PoolFairness ==
    /\ \A w \in Workers : WF_poolVars(Loop(w)) /\ SF_poolVars(Take(w))
    /\ WF_poolVars(DrainStep)

FairPoolSpec == PoolSpec /\ PoolFairness

-----------------------------------------------------------------------------
\* How far the counters are from what they count.  Each worker is counted
\* once, except that one that left for idleness has been subtracted twice, one
\* that is leaving or about to stay once too often, and one whose handler
\* panicked never; an item is active while its handler runs, and for ever
\* after a panic.
Counted ==
    {w \in Workers : worker[w] \notin {"gone", "restoring", "leaving"}}

CountersAccount ==
    /\ count = (Cardinality(Counted) + UsizeRange - departed) % UsizeRange
    /\ active = Cardinality({w \in Workers : worker[w] \in {"busy", "panicked"}})

\* When the shutdown is signalled, every item that was in the pool when the
\* drain began has been received: none is left in a queue nobody reads.
DrainEmptiesQueue == shutdown => owed \cap Queued = {}

\* If no worker has tried to leave for idleness, a drain that has returned
\* leaves no item in anybody's hands, even one it did not see between the
\* receiver and the active count.
DrainLeavesNoWork == drainer = "done" /\ ~shrinking => InHand = {}

\* A drain keeps nothing of what it found in the pool.
DrainFinishesWork == DrainEmptiesQueue /\ DrainLeavesNoWork

\* An item in the queue is handled, as long as the pool has workers and is not
\* shut down: an idle timeout that races the item does not lose it.
Pool == {w \in Workers : worker[w] \notin {"gone", "panicked", "leaving"}}

QueuedIsHandled ==
    \A i \in Items : i \in Queued ~>
        i \in answered \cup panicked \/ shutdown \/ Pool = {}

\* A drain returns, if callers stop calling scale_up, no worker has tried to
\* leave for idleness and no handler has panicked.
DrainReturns ==
    <>[](\A s \in Submitters : submitter[s] # "scaling") =>
        (drainer = "draining" ~> drainer = "done" \/ shrinking \/ panicked # {})

-----------------------------------------------------------------------------
\* Checked as what the documentation says, and violated.

\* min_workers: "Minimum number of worker tasks to keep alive even when idle".
MinWorkersKept ==
    ~shutdown /\ panicked = {} => Cardinality(Pool) >= MinWorkers
=============================================================================
