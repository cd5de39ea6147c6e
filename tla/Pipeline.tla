------------------------------- MODULE Pipeline -------------------------------
(***************************************************************************)
(* The five-stage pipeline of stages.rs: one task per stage, a pool of     *)
(* workers for inference, bounded channels between them, the shared        *)
(* circuit breaker and the dead-letter queue.                              *)
(*                                                                         *)
(*   rag -> assemble -> inference -> post -> stream -> output              *)
(*                                                                         *)
(* chan[s] is the channel that stage s receives from.  A task runs without *)
(* interruption between two awaits: a step is one receive with the checks  *)
(* that follow it, one critical section of the breaker, or one try_send    *)
(* with what its outcome leads to.  Requests are numbered in the order in  *)
(* which the input channel accepts them.                                   *)
(***************************************************************************)
EXTENDS BreakerOps, Functions

CONSTANTS
    NumRequests,    \* how many requests are submitted
    Workers,        \* the tasks of the inference pool
    Cap,            \* capacity of each channel
    DlqCap,         \* capacity of the dead-letter ring, 1000 in the code
    WithDeadline,   \* requests that carry a deadline
    SinkMayFail,    \* the OutputSink may answer SinkError::Fatal
    None

Requests == 1..NumRequests

Stages == {"rag", "assemble", "inference", "post", "stream"}
Channels == Stages \cup {"output"}
Single == Stages \ {"inference"}
Tasks == Single \cup Workers

ASSUME PipelineAssumption ==
    /\ NumRequests \in Nat
    /\ IsFiniteSet(Workers) /\ Workers # {} /\ Workers \cap Single = {}
    /\ Cap \in [Channels -> Nat \ {0}]
    /\ DlqCap \in Nat \ {0}
    /\ WithDeadline \subseteq Requests
    /\ SinkMayFail \in BOOLEAN
    /\ None \notin Requests

VARIABLES
    chan,           \* the bounded channels
    at,             \* where each task is in its loop
    held,           \* the request each task is working on, or None
    breaker,        \* the CircuitState shared by the inference workers
    dlq,            \* the dead-letter ring, oldest first
    past,           \* requests whose deadline has passed
    inputOpen,      \* some sender of the input channel exists
    outputOpen,     \* the receiver of the output channel exists
    cancelled,      \* shutdown() was called
    received,       \* history: what the caller has read from the output
    fate            \* history: what has become of each request

vars == <<chan, at, held, breaker, dlq, past, inputOpen, outputOpen,
          cancelled, received, fate>>

L == INSTANCE Ledger WITH Requests <- Requests, fate <- fate

Phases == {"locking", "idle", "busy", "calling", "answered", "stopped"}

TypeOK ==
    /\ chan \in [Channels -> Seq(Requests)]
    /\ at \in [Tasks -> Phases]
    /\ held \in [Tasks -> Requests \cup {None}]
    /\ breaker \in Breakers
    /\ dlq \in Seq(Requests)
    /\ past \subseteq WithDeadline
    /\ inputOpen \in BOOLEAN /\ outputOpen \in BOOLEAN /\ cancelled \in BOOLEAN
    /\ received \in Seq(Requests)
    /\ fate \in [Requests -> L!Fates]

-----------------------------------------------------------------------------
StageOf(t) == IF t \in Workers THEN "inference" ELSE t

TasksOf(s) == IF s = "inference" THEN Workers ELSE {s}

Following == [ rag |-> "assemble", assemble |-> "inference", inference |-> "post",
               post |-> "stream", stream |-> "output" ]

\* Where a task waits for its next request.  The workers share one receiver
\* behind a mutex and must lock it first.
Waiting(t) == IF t \in Workers THEN "locking" ELSE "idle"

Stopped(s) == \A t \in TasksOf(s) : at[t] = "stopped"

\* A channel is closed for its senders when the receiver is gone, and ends
\* for its receiver when the last sender is.  All workers share one receiver
\* and each has a sender.
ReceiverGone(s) == IF s = "output" THEN ~outputOpen ELSE Stopped(s)

SendersGone(s) ==
    IF s = "rag" THEN ~inputOpen
    ELSE \A p \in Stages : Following[p] = s => Stopped(p)

Init ==
    /\ chan = [s \in Channels |-> << >>]
    /\ at = [t \in Tasks |-> Waiting(t)]
    /\ held = [t \in Tasks |-> None]
    /\ breaker = NewBreaker
    /\ dlq = << >>
    /\ past = {}
    /\ inputOpen = TRUE /\ outputOpen = TRUE /\ cancelled = FALSE
    /\ received = << >>
    /\ fate = [r \in Requests |-> "new"]

-----------------------------------------------------------------------------
\* Bookkeeping shared by the actions.

WithFate(S, f) == [r \in Requests |-> IF r \in S THEN f ELSE fate[r]]

RingPushedUnbounded(q, r) == Append(q, r)          \* mutant: the ring never evicts

\* DeadLetterQueue::push
RingPushed(q, r) == Append(IF Len(q) >= DlqCap THEN Tail(q) ELSE q, r)

EvictedFrom(q) == IF Len(q) >= DlqCap THEN {Head(q)} ELSE {}

DeadLetter(r) ==
    /\ dlq' = RingPushed(dlq, r)
    /\ fate' = [x \in Requests |-> IF x = r THEN "dead"
                                   ELSE IF x \in EvictedFrom(dlq) THEN "evicted"
                                   ELSE fate[x]]

ReleaseKeeping(t) ==                           \* mutant: the request is not moved out
    /\ UNCHANGED held
    /\ at' = [at EXCEPT ![t] = Waiting(t)]

\* Task t ends its round without its request and goes back to wait.
Release(t) ==
    /\ held' = [held EXCEPT ![t] = None]
    /\ at' = [at EXCEPT ![t] = Waiting(t)]

\* The channel dies with the last task that receives from it, and what is
\* still queued in it is dropped.
LastOf(t) == \A u \in TasksOf(StageOf(t)) \ {t} : at[u] = "stopped"

QueuedFor(t) == IF LastOf(t) THEN Range(chan[StageOf(t)]) ELSE {}

\* Task t leaves its loop; a request it holds (Mine) is dropped with it.
Stop(t, Mine) ==
    /\ at' = [at EXCEPT ![t] = "stopped"]
    /\ held' = [held EXCEPT ![t] = None]
    /\ chan' = IF LastOf(t) THEN [chan EXCEPT ![StageOf(t)] = << >>] ELSE chan
    /\ fate' = WithFate(Mine \cup QueuedFor(t), "abandoned")

-----------------------------------------------------------------------------
\* mutant: a worker that stops keeps the lock
LockFreeKept == \A w \in Workers : at[w] \notin {"idle", "stopped"}

\* The lock of the shared receiver is held while a worker waits for a request.
LockFree == \A w \in Workers : at[w] # "idle"

\* The inference workers take turns on the shared receiver.
Lock(w) ==
    /\ at[w] = "locking"
    /\ LockFree
    /\ at' = [at EXCEPT ![w] = "idle"]
    /\ UNCHANGED <<chan, held, breaker, dlq, past, inputOpen, outputOpen,
                   cancelled, received, fate>>

\* The select! is biased: a cancelled task does not look at its channel.
CanReceive(t) == at[t] = "idle" /\ ~cancelled /\ chan[StageOf(t)] # << >>

Incoming(t) == Head(chan[StageOf(t)])

RestWithout(q) == q                            \* mutant: the request stays queued

Rest(q) == Tail(q)

\* Only rag and inference look at the deadline.
TooLate(t, r) == r \in past /\ StageOf(t) \in {"rag", "inference"}

Receive(t) ==
    /\ CanReceive(t)
    /\ ~TooLate(t, Incoming(t))
    /\ chan' = [chan EXCEPT ![StageOf(t)] = Rest(@)]
    /\ held' = [held EXCEPT ![t] = Incoming(t)]
    /\ at' = [at EXCEPT ![t] = "busy"]
    /\ UNCHANGED <<breaker, dlq, past, inputOpen, outputOpen, cancelled,
                   received, fate>>

\* rag_stage drops an expired request: a counter, but no dead letter.
SkipExpired ==
    /\ CanReceive("rag")
    /\ TooLate("rag", Incoming("rag"))
    /\ chan' = [chan EXCEPT !["rag"] = Rest(@)]
    /\ fate' = WithFate({Incoming("rag")}, "expired")
    /\ UNCHANGED <<at, held, breaker, dlq, past, inputOpen, outputOpen,
                   cancelled, received>>

\* An inference worker dead-letters it.
RefuseExpired(w) ==
    /\ CanReceive(w)
    /\ TooLate(w, Incoming(w))
    /\ chan' = [chan EXCEPT !["inference"] = Rest(@)]
    /\ DeadLetter(Incoming(w))
    /\ Release(w)
    /\ UNCHANGED <<breaker, past, inputOpen, outputOpen, cancelled, received>>

\* mutant: leaves its last requests behind
MustLeaveAtEnd(t) == cancelled \/ SendersGone(StageOf(t))

\* A waiting task leaves when it is cancelled or its channel has ended.
MustLeave(t) ==
    \/ cancelled
    \/ chan[StageOf(t)] = << >> /\ SendersGone(StageOf(t))

Leave(t) ==
    /\ at[t] = "idle"
    /\ MustLeave(t)
    /\ Stop(t, {})
    /\ UNCHANGED <<breaker, dlq, past, inputOpen, outputOpen, cancelled, received>>

-----------------------------------------------------------------------------
\* call_worker: the breaker refuses the request, which is dead-lettered ...
RefuseOpen(w) ==
    /\ w \in Workers /\ at[w] = "busy"
    /\ Rejects(breaker)
    /\ DeadLetter(held[w])
    /\ Release(w)
    /\ UNCHANGED <<chan, breaker, past, inputOpen, outputOpen, cancelled, received>>

\* ... or lets it through to the model.
Call(w) ==
    /\ w \in Workers /\ at[w] = "busy"
    /\ ~Rejects(breaker)
    /\ breaker' = Admitted(breaker)
    /\ at' = [at EXCEPT ![w] = "calling"]
    /\ UNCHANGED <<chan, held, dlq, past, inputOpen, outputOpen, cancelled,
                   received, fate>>

\* The model has answered.
Answer(w) ==
    /\ at[w] = "calling"
    /\ breaker' = Succeeded(breaker)
    /\ at' = [at EXCEPT ![w] = "answered"]
    /\ UNCHANGED <<chan, held, dlq, past, inputOpen, outputOpen, cancelled,
                   received, fate>>

\* The call has failed, after its retries, or timed out.
CallFails(w) ==
    /\ at[w] = "calling"
    /\ breaker' = Failed(breaker)
    /\ DeadLetter(held[w])
    /\ Release(w)
    /\ UNCHANGED <<chan, past, inputOpen, outputOpen, cancelled, received>>

-----------------------------------------------------------------------------
\* send_with_shed to the next stage.
Sends(t) == t # "stream" /\ at[t] = IF t \in Workers THEN "answered" ELSE "busy"

Target(t) == Following[StageOf(t)]

HasRoom(s) == Len(chan[s]) < Cap[s]

EnqueuedInFront(q, r) == << r >> \o q         \* mutant: overtakes

Enqueued(q, r) == Append(q, r)

Queue(t) ==
    /\ Sends(t)
    /\ ~ReceiverGone(Target(t)) /\ HasRoom(Target(t))
    /\ chan' = [chan EXCEPT ![Target(t)] = Enqueued(@, held[t])]
    /\ Release(t)
    /\ UNCHANGED <<breaker, dlq, past, inputOpen, outputOpen, cancelled,
                   received, fate>>

\* The channel is full: the request goes to the dead-letter queue.
Shed(t) ==
    /\ Sends(t)
    /\ ~ReceiverGone(Target(t)) /\ ~HasRoom(Target(t))
    /\ DeadLetter(held[t])
    /\ Release(t)
    /\ UNCHANGED <<chan, breaker, past, inputOpen, outputOpen, cancelled, received>>

\* The receiver is gone: the stage stops, and the request is lost with it.
Break(t) ==
    /\ Sends(t)
    /\ ReceiverGone(Target(t))
    /\ Stop(t, {held[t]})
    /\ UNCHANGED <<breaker, dlq, past, inputOpen, outputOpen, cancelled, received>>

\* The stream stage: the sink accepts the text (or fails transiently, which is
\* only logged) and the result goes to the output channel, if it fits.
Emits == at["stream"] = "busy"

Emit ==
    /\ Emits /\ outputOpen /\ HasRoom("output")
    /\ chan' = [chan EXCEPT !["output"] = Enqueued(@, held["stream"])]
    /\ Release("stream")
    /\ UNCHANGED <<breaker, dlq, past, inputOpen, outputOpen, cancelled,
                   received, fate>>

DiscardWhenClosed ==                           \* mutant: waits for room
    /\ Emits /\ ~outputOpen
    /\ fate' = WithFate({held["stream"]}, "discarded")
    /\ Release("stream")
    /\ UNCHANGED <<chan, breaker, dlq, past, inputOpen, outputOpen, cancelled, received>>

Discard ==
    /\ Emits /\ ~(outputOpen /\ HasRoom("output"))
    /\ fate' = WithFate({held["stream"]}, "discarded")
    /\ Release("stream")
    /\ UNCHANGED <<chan, breaker, dlq, past, inputOpen, outputOpen, cancelled, received>>

\* SinkError::Fatal ends the stage.
SinkFails ==
    /\ SinkMayFail
    /\ Emits
    /\ Stop("stream", {held["stream"]})
    /\ UNCHANGED <<breaker, dlq, past, inputOpen, outputOpen, cancelled, received>>

-----------------------------------------------------------------------------
\* The callers.

\* input_tx.send(): waits for room.
Submit(r) ==
    /\ fate[r] = "new"
    /\ \A x \in Requests : x < r => fate[x] # "new"
    /\ inputOpen /\ ~ReceiverGone("rag") /\ HasRoom("rag")
    /\ chan' = [chan EXCEPT !["rag"] = Enqueued(@, r)]
    /\ fate' = WithFate({r}, "inside")
    /\ UNCHANGED <<at, held, breaker, dlq, past, inputOpen, outputOpen,
                   cancelled, received>>

ReadOutput ==
    /\ outputOpen /\ chan["output"] # << >>
    /\ chan' = [chan EXCEPT !["output"] = Tail(@)]
    /\ received' = Append(received, Head(chan["output"]))
    /\ fate' = WithFate({Head(chan["output"])}, "delivered")
    /\ UNCHANGED <<at, held, breaker, dlq, past, inputOpen, outputOpen, cancelled>>

\* DeadLetterQueue::drain
DrainDlq ==
    /\ dlq # << >>
    /\ dlq' = << >>
    /\ fate' = WithFate(Range(dlq), "drained")
    /\ UNCHANGED <<chan, at, held, breaker, past, inputOpen, outputOpen,
                   cancelled, received>>

\* The last sender of the input is dropped.
CloseInput ==
    /\ inputOpen
    /\ inputOpen' = FALSE
    /\ UNCHANGED <<chan, at, held, breaker, dlq, past, outputOpen, cancelled,
                   received, fate>>

\* The output receiver is dropped with what it has not read.
CloseOutput ==
    /\ outputOpen
    /\ outputOpen' = FALSE
    /\ chan' = [chan EXCEPT !["output"] = << >>]
    /\ fate' = WithFate(Range(chan["output"]), "abandoned")
    /\ UNCHANGED <<at, held, breaker, dlq, past, inputOpen, cancelled, received>>

\* PipelineHandles::shutdown
Shutdown ==
    /\ ~cancelled
    /\ cancelled' = TRUE
    /\ UNCHANGED <<chan, at, held, breaker, dlq, past, inputOpen, outputOpen,
                   received, fate>>

Expire(r) ==
    /\ r \in WithDeadline \ past
    /\ past' = past \cup {r}
    /\ UNCHANGED <<chan, at, held, breaker, dlq, inputOpen, outputOpen,
                   cancelled, received, fate>>

Tick ==
    /\ breaker' = Aged(breaker)
    /\ UNCHANGED <<chan, at, held, dlq, past, inputOpen, outputOpen, cancelled,
                   received, fate>>

Worker(w) ==
    Lock(w) \/ RefuseExpired(w) \/ RefuseOpen(w) \/ Call(w) \/ Answer(w) \/ CallFails(w)

Step(t) == Receive(t) \/ Leave(t) \/ Queue(t) \/ Shed(t) \/ Break(t)

Stream == Emit \/ Discard \/ SinkFails

Environment ==
    \/ \E r \in Requests : Submit(r) \/ Expire(r)
    \/ ReadOutput \/ DrainDlq \/ CloseInput \/ CloseOutput \/ Shutdown \/ Tick

Next ==
    \/ \E t \in Tasks : Step(t)
    \/ \E w \in Workers : Worker(w)
    \/ SkipExpired
    \/ Stream
    \/ Environment

Spec == Init /\ [][Next]_vars

\* The runtime runs every task that can go on, and a model call ends, by its
\* answer or by its timeout.  The callers need not do anything.
TaskStep(t) ==
    \/ Step(t)
    \/ t \in Workers /\ Worker(t)
    \/ t = "rag" /\ SkipExpired
    \/ t = "stream" /\ Stream

Fairness == \A t \in Tasks : WF_vars(TaskStep(t))

FairSpec == Spec /\ Fairness

-----------------------------------------------------------------------------
\* Where a request is: its positions in the queues, and the tasks that hold
\* it (as positions 0).
Spots(r) ==
    (UNION { {<<s, i>> : i \in {j \in 1..Len(chan[s]) : chan[s][j] = r}} : s \in Channels })
      \cup {<<t, 0>> : t \in {u \in Tasks : held[u] = r}}

\* No accepted request is forgotten and none is processed twice: a request is
\* on its way if and only if it is in a queue or in the hands of a task, and
\* then in one place only, whatever stages have stopped, calls failed, queues
\* overflowed or receivers gone.
Accounted ==
    \A r \in Requests :
        /\ fate[r] = "inside" <=> Spots(r) # {}
        /\ \A p, q \in Spots(r) : p = q

\* The dead-letter queue lists each request that a stage refused or shed once,
\* never one that was delivered or is still on its way, and forgets it only
\* when the ring is full or is drained.
DlqExact ==
    /\ \A r \in Requests : fate[r] = "dead" <=> \E i \in 1..Len(dlq) : dlq[i] = r
    /\ \A i, j \in 1..Len(dlq) : dlq[i] = dlq[j] => i = j
    /\ Len(dlq) <= DlqCap

\* How far down the pipeline a place is; what a task holds is ahead of what
\* waits for it.
Depth == [rag |-> 1, assemble |-> 2, inference |-> 3, post |-> 4, stream |-> 5, output |-> 6]
DepthOf(p) == Depth[IF p[2] = 0 THEN StageOf(p[1]) ELSE p[1]]

Further(p, q) == DepthOf(p) > DepthOf(q) \/ (DepthOf(p) = DepthOf(q) /\ p[2] < q[2])

Leads(i, j) == \E p \in Spots(i), q \in Spots(j) : Further(p, q)

Moving == {r \in Requests : fate[r] = "inside"}
WithWorker(r) == \E w \in Workers : held[w] = r

\* A request passes another only while inference workers hold both: the queues,
\* the other stages and the requests that are shed, refused or dropped on the
\* way reorder nothing.  With one worker nothing is ever reordered.
NoOvertaking ==
    [][\A i, j \in Moving' : i # j /\ Leads(i, j)' =>
          Leads(i, j) \/ fate[j] = "new" \/ (WithWorker(i) /\ WithWorker(j))]_vars

\* The detailed pipeline keeps what Ledger promises.
KeepsLedger == L!Spec

\* A request that is on its way, and not yet in the output channel, is
\* resolved: no stage waits for a caller to read the output or the
\* dead-letter queue, for the circuit breaker, or for another stage's room.
Unresolved(r) == fate[r] = "inside" /\ \A i \in 1..Len(chan["output"]) : chan["output"][i] # r

EveryRequestResolved == \A r \in Requests : Unresolved(r) ~> ~Unresolved(r)

AllStopped == \A t \in Tasks : at[t] = "stopped"

\* shutdown() ends every task, also workers that queue for the receiver's lock.
ShutdownStops == cancelled ~> AllStopped

\* As long as the pipeline is not cancelled, its sink works and the output is
\* kept, every request runs to its end.
ClosingDrains ==
    ~cancelled /\ ~SinkMayFail /\ outputOpen => \A r \in Requests : fate[r] # "abandoned"

\* The end of the input ends every task of the pipeline, and by then it has
\* drained it.
ClosingEndsAll == ~inputOpen ~> (AllStopped /\ ClosingDrains)
=============================================================================
