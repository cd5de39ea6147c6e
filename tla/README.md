# Formal verification of tokio-prompt-orchestrator

TLA+ models of the concurrent core of the orchestrator, checked by TLC on small
instances, with theorems proved by TLAPS for every value of the constants.
Paths below are relative to the repository. `PROJECT.json` names, for every
definition that models code, the lines it was translated from.

Contents: [inventory](#1-inventory) · [plan](#2-plan) · [the modules and the
code](#3-the-modules-and-the-code) · [runs](#4-what-the-runs-check-and-show) ·
[fairness](#5-fairness) · [proofs](#6-what-is-proved) ·
[divergences](#7-where-the-code-differs-from-its-documentation) ·
[limits](#8-what-is-not-modelled-and-why) · [running it](#9-running-it)

## 1. Inventory

The crate puts a queue, deduplication and a circuit breaker between an
application and an LLM. A request travels

    caller -> rag -> assemble -> inference -> post -> stream -> output -> caller

through five stages, each a Tokio task, joined by bounded channels; the
inference stage is a pool of workers on one shared receiver. What cannot go on
is shed to a dead-letter ring. Around this core the repository has some hundred
further modules, most of them self-contained.

### Parts with a module

| Part | State | Operations | How it interacts |
|---|---|---|---|
| Circuit breaker (`src/enhanced/circuit_breaker.rs`) | status, failure counter, two instants, a window of outcomes, the back-off exponent, behind one lock | `call` (admission, then outcome), `reset`, `trip`, `retry_after_sync` | called by the inference workers; the lock is released while the operation runs |
| Deduplicator (`src/enhanced/dedup.rs`) | a moka cache of in-progress and completed entries; per token a flag, a reference count and a broadcast channel | `check_and_register`, `wait_for_result`, `complete`, `fail`, drop of a token, expiry and eviction | used by the chat endpoint, by several tasks per key |
| Pipeline (`src/stages.rs`, `src/lib.rs`) | five bounded channels, what each task holds, the breaker, the dead-letter ring, deadlines, a cancellation token | receive, call the model, `send_with_shed`, emit, `shutdown`, `drain` | channels between tasks, a mutex around the shared receiver, the shared breaker and ring |
| Chat endpoint (`src/web_api/openai_compat.rs`) | what each caller and each spawned task has in hand, the waiters by request, the remembered failures, the money spent | `complete`, `run_pipeline`, `resolve`, the spend cap, the retry of a joined call | callers share the deduplicator; tasks send to the pipeline and are told the outcome by a oneshot channel |
| Agent fleet (`src/coordination/`) | the task list in memory, and lock and marker files that survive the process | `TaskQueue::new`, `claim_next`, `complete`, `fail`, `all_done`; execution with a timeout | agents share the list behind a mutex and the lock directory with what a crash left behind |
| Leader election (`src/distributed/leader.rs`) | a key with a time to live in Redis, the role each node caches | `try_elect`, `renew`, `step_down`, `is_leader`, the election loop | nodes meet in the key only; `step_down` runs beside the loop of its own node |
| Distributed claims (`src/distributed/redis_dedup.rs`) | a key with a time to live, whose value is the id of the claiming node | `try_claim`, `refresh`, `release` | calls of several nodes, and several calls of one node, meet in the key |
| Cluster (`src/distributed/cluster.rs`) | the nodes by id, with the time of their last heartbeat and their load | `register`, `process_heartbeat`, `evict_stale_nodes`, `deregister`, `update_load`, `route` | heartbeats of other nodes, the eviction loop, the router |
| Worker pool (`src/worker_pool.rs`) | a channel, tasks on one receiver, two atomic counters, a shutdown signal | `submit`, `scale_up`, the loop of a worker, `drain_and_shutdown` | counters are read and written beside what they count |
| Dead-letter replay (`src/enhanced/dlq_replay.rs`) | entries with attempts and the time of the next one | `push`, `replay_all`, `replay_by_session`, `age_out` | concurrent calls over one queue, each with entries in hand while it sleeps; the pipeline's channel |
| Hot configuration (`src/hot_config.rs`) | a snapshot with a version, a watch channel, the modification time last seen | `set`, the reload, `subscribe` | callers and the file watcher write, subscribers are notified |
| Staged deployment (`src/self_modify/deployment.rs`) | the stage and percentage of active deployments, a bounded archive | create, validate, canary, `advance_rollout`, `rollback`, `promote` | any caller in any order, under one mutex |
| Token budget (`src/token_budget.rs`) | tokens used in a window and its start | `check` reserves, `release` corrects | calls that span two windows |

What is hard about each, and what makes it correct:

* **Breaker.** An outcome is recorded against whatever state the breaker is in
  by then, which need not be the one that admitted the call. Correct when an
  open circuit always knows the failure that keeps it open and stays open for
  its whole interval, a closed one is short of its threshold, the announced wait
  is the real one, and the circuit closes again once the service works.
* **Deduplicator.** None of its operations is atomic: each is several accesses
  to the cache, the flag, the count and the channel. Correct when one worker at
  a time computes a key, a late worker never disturbs a newer registration, an
  entry is never left without someone to resolve it, and every waiter wakes up.
* **Pipeline.** Full and closed channels, expiry, refused and failing calls,
  a fatal sink and a shutdown meet in five tasks that know only their
  neighbours. Correct when no accepted request is forgotten or processed twice,
  the dead-letter ring tells the truth, no stage waits for ever, order is kept
  where it is kept, and closing or cancelling ends every task.
* **Chat endpoint.** The cap is checked before a call and charged after it; a
  timeout races the answer; the client leaves while its task goes on; joiners of
  a call that failed try again. Correct when the cap is exceeded by what was
  already admitted and no more, no shared answer is unpaid, joiners of a failed
  call learn of the failure instead of repeating it, and everyone is answered.
* **Agent fleet.** A crash falls between any two file operations, a lock turns
  stale under a living agent, a write fails. Correct when a recorded task is
  never run again, a fresh claim is exclusive, priorities are respected and the
  fleet finishes.
* **Leader election.** The role is what the last answer said, and the lease runs
  out meanwhile; answers are late or lost, commands are executed after their
  caller gave up, nodes die with the lease. Correct when two nodes never both
  lead on a recent confirmation, a node that lost the lease finds out, and a
  lease nobody uses does not leave the nodes without a leader.
* **Distributed claims.** A claim expires under the call that relies on it, and
  a release or refresh arrives after that. Correct when a late command of one
  node does not touch the claim of another, and a lost claim lapses.
* **Cluster.** Heartbeats are stamped on arrival, so late and repeated ones
  speak for a node that is dead. Correct when they do so for a bounded time.
* **Worker pool.** The counters are changed apart from what they count, by tasks
  that may panic, and idle workers leave on what they read. Correct when it is
  known how far the counters are off, a drain leaves nothing behind, and a
  queued item is handled.
* **Dead-letter replay.** An entry is held without the lock, across sleeps.
  Correct when it is in one place at a time, retried at its pace, and its loss,
  where the code gives it up, is one of three known fates.
* **Hot configuration.** Two locks per reload and none around the announcement.
  Correct when an update is never lost unaccounted for, and changes arrive.
* **Deployment.** Callers race for the outcome, and ids return. Correct when a
  promotion was earned step by step and the archive loses nothing but its tail.
* **Token budget.** A correction may fall into another window. Correct when the
  limit is exceeded by the surplus of earlier windows and by overage only.

### Parts without a module

`PROJECT.json` lists them all with their files. In short:

| Part | State and operations | Hard behaviour | Correct when |
|---|---|---|---|
| Intelligence variant of the pipeline (`stages.rs:1338`) | as the pipeline, with a router, and no dead letters | as the pipeline | every request is accounted for, failures included |
| NATS (`distributed/nats.rs`) | the client | delivery | a transport, see section 8 |
| Priority queues, batching, tournament, caches, rate limits, retries, session budgets (`enhanced/`, `priority_queue.rs`, ...) | one structure behind one lock each | check-then-act between two locked steps | see below |
| Schedulers, webhooks, file watcher | timers and HTTP | late ticks, concurrent deliveries | see below |
| Routing, self-tuning, learned intelligence, evolution, experiments | running statistics and floats | numerical | out of reach of TLC, section 8 |
| Prompt and response processing, costs, tokens | text in, text out | sequential | not what these tools are for |
| Workers, retrieval, integrations, web API, metrics, programs, terminal UI | I/O | wiring | not modelled, section 8 |

### Further hazards

`PROJECT.json` lists the hazards that the properties are for, at their lines.
Others, met while reading, none of them covered by a property:

* `src/enhanced/dedup.rs:168`: the test for the last clone is not one step with
  the release of the reference; two clones dropped together each see the other,
  and the entry stays until it expires.
* `src/enhanced/circuit_breaker.rs:285`: nothing counts the probes: the
  half-open circuit lets every caller through.
* `src/stages.rs:1498`: the inference stage of the intelligence variant has no
  dead-letter queue: a refused or failed request leaves a log line only.
* `src/coordination/queue.rs:475`: a lock is created and then written; to
  another process it is empty in between and counts as stale.
* `src/coordination/queue.rs:226`: a second coordinator process on the same
  directory does not see the outcomes of the first.
* `src/coordination/queue.rs:291`: an agent that reports after its lock was
  taken over overwrites the outcome of the other.
* `src/coordination/worker.rs:124`: the output of a child is read only after it
  exits; one that writes more than a pipe holds runs into its timeout.
* `src/enhanced/cache.rs:185`: the expired entry is removed by key after its
  guard was dropped: an entry inserted in between is removed instead.
* `src/enhanced/cache.rs:249`: the size test and the insertion are not one
  step: concurrent insertions exceed max_entries.
* `src/enhanced/smart_batch.rs:314`: the first request never reports a full
  batch, so with a batch size of one nothing is flushed until the timer or a
  second request.
* `src/enhanced/priority.rs:301`: the time is read before waiting for the
  lock; a deadline that passes while waiting is not seen.
* `src/enhanced/rate_limit.rs:198`: the window is fixed: twice the limit
  passes around a boundary.
* `src/enhanced/tournament.rs:304`: the first success aborts the other
  workers, whose failures race it.
* `src/config/watcher.rs:151`: every event restarts the debounce: a file that
  keeps changing is not reloaded.
* `src/scheduler.rs:451`: the minute is computed again after the sleep: a tick
  that is late by a minute skips its prompts.
* `src/request_dedup.rs:167`: completion removes by key: an original that was
  pruned completes the entry of the one that replaced it.
* `src/retry_budget.rs:298`: two callers that both miss the key insert two
  budgets; the attempts of one are lost.
* `src/job_scheduler.rs:293`: a job that outlives its interval is started
  again while it runs.
* `src/webhooks/mod.rs:355`: the state of an endpoint is read, the event
  delivered without the lock, then the outcome recorded: outcomes of
  concurrent dispatches reset each other's back-off.
* `src/admission_control.rs:155`: increment first, compare then: a crowd of
  refused callers makes the counter exceed the limit for a moment and refuses
  callers there is room for.
* `src/enhanced/circuit_breaker.rs:263`: a configured timeout times 64
  overflows a Duration and panics with the write lock held.
* `src/coordination/queue.rs:376`: `release` on a running or recorded task
  makes it claimable again in memory; nothing outside the tests calls it.
* `src/distributed/leader.rs:298`: `step_down` runs beside the loop: it makes
  the node a follower after the loop may have won a new election.
* `src/distributed/leader.rs:401`: with `leader_ttl_s` of 1 or 2
  (`config.rs:192` requires only more than 0) the renewal interval is 0 and a
  leader renews without a pause.

## 2. Plan

Modules, most important behaviour first. A tick means done.

1. ✓ `BreakerOps`, `CircuitBreaker`: the breaker's transitions as operators on
   a value, and its concurrent callers. The operators are shared with `Pipeline`.
2. ✓ `Dedup`: one key, its tokens, clones and waiters.
3. ✓ `Ledger`, `Pipeline`: the abstract promise (one fate per request) and the
   five stages that implement it, composed with the breaker.
4. ✓ `TaskQueue`: the agent fleet over a lock directory that survives crashes.
5. ✓ `LeaderElection`: the lease, the loops and the clock, with lost and late
   requests and restarts.
6. ✓ `ChatCompletion`: the endpoint, composed with an instance of `Dedup` and a
   pipeline of which it sees the outcomes.
7. ✓ `WorkerPool`: counters that wrap, idle workers that leave, a drain.
8. ✓ `DlqReplay`, which implements `Ledger`; `HotConfig`; `RedisDedup`;
   `ClusterMembership`; `Deployment`; `TokenBudget`.
9. The intelligence variant, as a constant of `Pipeline`: no dead letters from
   inference, a single worker.
10. The pure algorithms against reference definitions: priority order with
    aging, batching, window limits.

Abstract specifications: `Ledger`, which `Pipeline` and `DlqReplay` implement;
`Dedup`, which the endpoint uses as a component keeping its specification.
Runs are grouped so that one run asks one question of one component, with
bounds that let every action fire: two or three actors, one or two items. The
six parts of step 8 do not interact and share a run.

Theorems: the type invariant of each module; each safety invariant a run
checks, from an inductive strengthening; the two implementations of `Ledger`;
the components kept inside what uses them (the breaker in the pipeline, the
deduplicator in the endpoint); the safety halves of the liveness properties.
Section 6 says which are done and which stay with TLC, as all liveness does.

## 3. The modules and the code

### BreakerOps and CircuitBreaker

Each transition of `CircuitState` runs under its write lock, so it is a
function from a breaker value to a breaker value in `BreakerOps`; the code that
calls it is in `CircuitBreaker` (and again in `Pipeline`).

* `Admit(c)` is the first critical section of `call`; `Succeed`, `Fail` and
  `Abandon` are what happens when the operation returns or its future is
  dropped. Between them the lock is free and anything else may happen.
* `Reset`, `Trip` are the operator's calls, `Tick` the clock.
* Instants are ages in ticks. An age is compared with nothing longer than
  `MaxInterval`, where it stops growing; `probe_failures` is only read through
  `min(_, BackoffCap)` (6 in the code). Both are exact, not approximations.
* The rate `successes / len >= success_threshold` is compared as integers; the
  threshold is the fraction `SuccessNum / SuccessDen`.

`StatusSound` is what each status promises; `OpenLastsTimeout` and
`RetryAfterHonest` are about steps, `Recovers` is liveness.

### Dedup

One key; keys do not share state. `entry` is the key's value in the cache,
`completed` the flag the clones of a token share, and `Holders(r)` their
reference count. A registration id stands for the uuid, for the channel and for
the result. An id nobody refers to may be used again, so the number of
registrations is unbounded although the ids are few.

`RegisterNew` and `RegisterDuplicate` are the outcomes of `check_and_register`;
`Lookup`, `Subscribe`, `Receive` the steps of `wait_for_result`; `Complete`,
`SendResult`, `Publish` those of `complete`; `Fail` that of `fail`;
`CheckDrop`, `SendCancel`, `ClearEntry`, `Free` those of dropping a token;
`Evict` is expiry, the size bound or `clear`. A step is one access to one of
the shared things. `Share` clones a token (`AllowClones`).

### Ledger and Pipeline

`Ledger` is the promise: a request is accepted once and meets one fate.
`Pipeline` refines it by the history variable `fate`, which every action sets
where the code moves or drops the request.

* `chan[s]` is the channel stage `s` receives from, `held[t]` the request in a
  task's hands, `at[t]` its place in its loop. A Tokio task is not interrupted
  between two awaits, so a step is one receive with the checks that follow it,
  one critical section of the breaker, or one `try_send` with its consequences.
* `Lock` is the mutex around the shared receiver of the inference pool. A worker
  that waits for it (`"locking"`) sees neither requests nor the cancellation.
* `Receive`, `SkipExpired` (rag: a counter and no dead letter), `RefuseExpired`
  (inference: a dead letter), `Leave` (cancelled, or the channel has ended).
  The `select!` is biased: a cancelled task does not look at its channel.
* `RefuseOpen`, `Call`, `Answer`, `CallFails` are `call_worker` with the breaker
  of `BreakerOps`. Retries are inside the call; their number decides nothing
  that is modelled.
* `Queue`, `Shed`, `Break` are the three outcomes of `send_with_shed`. `Stop`
  drops what the task holds and, when it was the last receiver, what is queued.
* `Emit`, `Discard`, `SinkFails` are the stream stage.
* The callers `Submit`, `ReadOutput`, `DrainDlq`, `CloseInput`, `CloseOutput`,
  `Shutdown` act when they like.

The contents of prompts, the transformations of the stages, sessions and
metrics are left out: no property is about them.

### ChatCompletion

Callers with the same conversation, hence the same key. `D` is an instance of
`Dedup` whose clients are the callers and the spawned tasks; its variables are
the endpoint's, and every step either is a step of `D` or leaves `D` alone
(`EndpointUsesDedup` proves that the endpoint keeps `D!Spec`).

* A caller (`call`) does `complete`: `Arrive` checks the spend cap, then
  `AskTracked` and `AskNew` are the results of `check_and_register`,
  `SemanticHit` is the search by similarity that finds an answer at any time,
  `TakeAnswer`, `JoinedInVain` and `GiveUp` the loop over joined calls,
  `Collect` and `Respond` the response. The three `Disconnect...` actions are
  the client's.
* A task (`step`) does `run_pipeline` and what follows it: `Register` (the
  waiter before the request), `Send`, `SendFails`, `Receive` or `TimesOut`,
  then `Charge` and `Finish`, or `Remember` and `DropToken`: a failure is
  remembered before the token is dropped and wakes the joiners.
* The pipeline is `Outcome` and `Silence`: a request that is inside leaves it
  with text, with an error, or unheard of.
* `spent` counts calls; a task is charged when its answer arrives.
* `paid`, `errored`, `forgot` and `racing` are history: who paid for what may be
  shared, whose call failed, whether that memory was lost for a legitimate
  reason, and how many calls had passed the check when the cap was reached.

`SpendCap` counts answers, as if each cost the same. Ids of tasks and
registrations are used again once nobody refers to them.

### TaskQueue

`mem` is the task list of the process; `lock`, `completed` and `failed` are the
lock directory. A lock file is represented by the age of the timestamp in it,
`Empty` when it has been created and not yet written. Ages stop at
`StaleSecs`, the only number they are compared with.

`claim_next` is `Begin` (takes the mutex, collects the candidates), then per
candidate `Create`, `Skip`, or `Steal` and `Recreate`, then `Fill`, or `GiveUp`;
`complete` and `fail` are `Record`, `Mark`, `Unlock`. All file operations of a
call happen under the mutex, so the steps are there for the clock and for
`Crash` and `IoFails`, which may come between any two of them. `Restart` is
`TaskQueue::new` on the same directory. `CheckDone` is `all_done`. An agent is
`"executing"` while it waits for its child (`ChildExits`, `TimesOut`,
`ChildFails`) and `"reading"` while it reads the pipes of a child that has
exited (`ReadsOutput`), to which the timeout does not apply.

Left out of `coordination/`: `release`, which the fleet does not call, the
content of task files and prompts, and the monitor, which only reads.

### LeaderElection

`owner` and `left` are the key `orchestrator:leader` and its remaining seconds,
`role[n]` what `is_leader` answers. `Effect` is what a command does to the key:
`SET NX EX`, and the two scripts that compare the owner first.

A pass of the loop is `Ask` (`try_elect` or `renew`, by the role), `Execute` in
Redis, and `Learn` or `Fail`; then the node sleeps `Pause`: a third of the time
to live after a renewal, all of it after an election. `Fail` is a connection
error or the 5-second timeout, which is not measured: a request may take any
time. `late` counts commands that are still on their way when their caller gives
up; `Late` executes one. `StepDown`, `SteppedDown` and `StepDownFails` are
`step_down`; a call that does not find its own key changes nothing and is left
out, and so is the connection set-up before each command. `Crash` ends a node's
process and starts it again under the same id. `Tick` is one second, for the key
and for the sleeping loops. `sent`, `since` and `resigned` are history.

`current_leader`, the GET after a lost election and `role_watcher` only read.

### RedisDedup

One key: `owner` and `ttl` are its value and its remaining seconds. A call
(`call`) issues `TryClaim`, `Refresh` or `Release`; the command takes effect
later (`SetKey`, `KeyTaken`, `ExpireKey`, `DeleteKey`), is applied unheard
(`SetUnheard`), or its caller fails or goes away (`Fail`, `Abandon`). The value
is the id of the node, as in the code, so that two calls of one node do not
tell their claims apart; `EXPIRE` does not look at the value at all. `fresh`
(how long a call may rely on its claim) and `robbed` are history.

### ClusterMembership

The view of one node: `listed` members with their `silence` and `load`.
`Receive` is `process_heartbeat`, `Evict` a pass of the eviction loop,
`Deregister`, `UpdateLoad` the calls, `Routable` what `route` may answer: the
least loaded of the nodes whose heartbeat is recent. Heartbeats are in
`inFlight` for up to `MaxDelay`; one may be received and stay there
(duplication) or be lost. Members start, stop and crash. The code has the
receiver of heartbeats only, so the sender is anyone.

### WorkerPool

Each access to an atomic, to the channel or to the shutdown signal is a step.
`SizeUp`, `ScaleUp`, `Spawn`, `Enqueue` are `submit` and `scale_up`; `Top`,
`Take`, `Wake`, `Idle`, `ReadCount`, `Subtract`, `Restore`, `Start`, `Return`,
`Panic`, `Reply`, `End` the loop of a worker; `Drain`, `DrainQueue`,
`DrainActive`, `SignalShutdown`, `Drained` are `drain_and_shutdown`. A worker
that leaves for idleness subtracts itself in `Subtract` and again in `End`, as
the code does. Counters are taken modulo `UsizeRange`. `departed` and
`shrinking` are history: how many have left that way, and whether any has
tried to; `owed` is what the pool held when a drain began.

### DlqReplay

A call of `replay_filtered` takes what is due (`TakeDue`), then for each entry
sleeps (`PickNext`) and injects it (`Inject`), puts it back with one attempt
more (`Refuse`, the channel is full) or drops it (`Discard`, the channel is
closed). `DropCall` drops the future, with all it holds. `Push` and `AgeOut` run
beside it; callers make the entries with the time they were queued, so `AgeOut`
takes any of them. The function `fateOf` maps the state to `Ledger`: the detailed
specification implements the same promise as the pipeline's, where "discarded"
and "abandoned" are the two losses the code allows itself.

### HotConfig

`file` and `mtime` are the disk, `loaded`, `keys` and `version` the snapshot: of
its values remain the file they came from and the keys set since. `Set` and
`AnnounceSet` are the two halves of `set`; `Poll`, `Load` or `LoadFails`,
`ReadVersion`, `WriteSnapshot`, `EndReload` a pass of the watcher, one per lock.
`announced` and `marked` are the watch channel, which keeps the last message
only. A modification time may repeat (`Times` is a small set): a clock with
seconds does not move between two quick edits. `overtaken` and `missed` are
history.

### Deployment

Every operation holds one mutex throughout, so each is an action, in any order:
a call in the wrong stage is refused and changes nothing. `Advance` takes the
next percentage of `RolloutSteps` above the present one, in the order of the
list, and promotes at the end if `AutoPromote` says so. `completed` is the
bounded archive; `passed` and `outcomes` are history.

### TokenBudget

`Reserve`, `RejectLarge` and `RejectPeriod` are the outcomes of `check`, which
rolls the window when it has elapsed; `ReleaseSurplus` and `ReleaseOverage` those
of `release`, which does not look at the window. A limit of 0 disables a cap.
`inWindow` and `actual` are history: whose reservations the window holds, and
what they cost. So are `lateSurplus` and `cutOverage`: how much less than
reserved the requests of earlier windows released in this one have used, and how
much more than fits under the limit its own have. They are what the requests
say, whatever `release` does to the counter.

## 4. What the runs check and show

Each run's cfg fixes the constants; nothing else bounds the models except the
bounds named in the modules: `NumRequests` (pipeline), `NumItems` (worker pool),
`NumEntries` (replay), `MaxFaults` (task queue, election), `MaxEdits` and
`MaxSets` (configuration), `MaxInFlight` (cluster), `MaxCreated` (deployment).

| Run | Instance | Shows |
|---|---|---|
| `breaker` | 3 callers, threshold 2, window 2, interval 2 ticks, back-off up to 4x | `StatusSound`, `OpenLastsTimeout`, `RetryAfterHonest`, `Recovers` |
| `dedup` | 3 tasks, 2 registrations, no clones | `SingleFlight`, `NoOrphan`, `WaitersWoken` |
| `dedup_clones` | 3 tasks, 3 registrations, clones | `LateCallsHarmless` |
| `dedup_pending_answered` | 3 tasks, 2 registrations | violated (`PendingAnswered`): a waiter of a completed request gets `None` |
| `pipeline` | 2 requests with deadlines, 2 workers, room for 2 before inference, every other channel and the ring of size 1, fatal sink | `Accounted`, `DlqExact`, `NoOvertaking`, and that it implements `Ledger` (`KeepsLedger`) |
| `pipeline_liveness` | 2 requests, 2 workers, every channel of size 1 | `EveryRequestResolved`, `ClosingEndsAll`, `ShutdownStops` |
| `task_queue` | 2 agents, 2 tasks, 2 faults, stale 1 s, timeout 2 s | `FreshClaimExclusive`, `NeverRerun`, `PriorityFirst`, `FleetFinishes` |
| `leader_election` | 2 nodes, time to live 3 s, 2 faults | `FreshLeaderExclusive`, `LoserNotices`, `SelfHealing` |
| `chat` | 2 callers, 1 task id, 1 registration id, cap of one call, 2 join attempts, similarity search on | `OvershootBounded`, `SharedAnswersPaid`, `FailureKnownToJoiners`, `EveryCallerAnswered` |
| `worker_pool` | 2 workers, at least 1, 3 items, queue of 2, counters modulo 6 | `CountersAccount`, `DrainFinishesWork`, `QueuedIsHandled`, `DrainReturns` |
| `worker_pool_min` | 3 workers, at least 1, 1 item | violated (`MinWorkersKept`): fewer workers than `min_workers` remain |
| `services` | six parts that do not interact, see below | replay: `ReplayKeepsLedger`, `EntriesRetried`; configuration: `VersionAccounts`, `ChangesArrive`; claims: `FreshClaimsApart`, `ClaimLapses`; cluster: `NoRouteToTheDead`, `DeadForgotten`; deployment: `OutcomesSound`; budget: `WindowBounded` |

`MCServices` holds six components that share no state and never call one
another. Its initial state chooses one of them, which then runs alone while the
others keep their initial state: the run is six instances in one, and every
property is checked on the component it speaks of.

Every property of a passing run has a mutant of the code, defined beside the
original, that breaks it under the same configuration. The type invariants are
proved (section 6) and not repeated in the runs.

Deadlock is checked wherever the system cannot stop. It is switched off for the
task queue (a finished fleet), the worker pool (drained) and the services
(deployments are bounded in number).

Why the bounds are enough for the cases that matter:

* *Breaker.* Three callers are a straggler of an earlier period, one that sets
  the state and one that meets it; a threshold and a window of 2 distinguish
  first, second and one too many; a back-off of two doublings reaches its cap.
* *Dedup.* Three tasks are a late worker, the worker that replaced it and a
  waiter (or a second clone). Liveness needs a run without symmetry, hence two
  ids there and three in the safety run.
* *Pipeline.* Channels of size one are full and empty all the time; two
  requests compete for every slot, and a ring of one evicts on the second
  entry. `NoOvertaking` needs two requests waiting for inference. In the
  liveness run two workers queue for the lock of their receiver, so that a
  shutdown or the end of the input meets one that holds it and one that waits.
  There the breaker's interval is 0, so that it refuses nothing; refusals are in
  the safety run. Deadlines and a fatal sink are left to the safety run as well.
* *Chat.* An owner and a joiner; ids are used again, so a call may be joined,
  cancelled, replaced and joined again any number of times. A cap of one call
  is reached by the first answer and exceeded by what then is in flight.
  Entries are evicted at any moment (`UnderPressure`), so the one task is late
  for its own registration as well. Two concurrent tasks need two task ids;
  the theorems of section 6 hold for any number of them.
* *Task queue.* One second less than the timeout is the default order of the
  two (300 s and 600 s); two faults allow a crash during the recovery from
  another fault.
* *Leader election.* Three seconds are the least time to live with a renewal
  interval that is not zero; one node leads and the other waits for the lease;
  with two faults a late command meets a step-down, a restart or another one.
* *Worker pool.* One worker too many is what an idle timeout needs; three items
  are one in a hand, one queued and one that does not fit or comes late; the
  modulus only has to exceed what two workers can subtract. `worker_pool_min`
  needs a third worker, which leaves on the wrong count.
* *Services.* Two replay calls compete for two entries of different sessions,
  with a back-off that reaches its cap at the second attempt. One edit of the
  file besides its first content and two calls of `set` overtake a reload.
  Three claims are two of one node and one of another. Two members with two
  heartbeats under way: one late, one overtaking it. Three creations of two ids
  with an archive of one: an id comes back and the archive drops its oldest;
  the rollout steps 50, 25, 100 are not sorted. Two requests, one of which is
  corrected in a later window than it was made in.

The part `HalfOpenWindowEmpty` of `StatusSound` is also an observation about the
configuration: since the first outcome ends a half-open period,
`success_threshold` is only ever compared with 0 or 1, and any threshold above
zero acts like 1.

## 5. Fairness

* *Breaker*: time passes; callers keep calling; a caller that keeps trying is
  not cancelled or failed every time (strong fairness of `Succeed`). `Recovers`
  is stated under its own premise that failures and trips cease.
* *Dedup*: weak fairness of each task's steps, because the runtime polls a task
  that can go on, and of `Resolve`: a worker completes, fails or goes away.
  Nothing is assumed of eviction or of who registers.
* *Pipeline*: weak fairness of each task (`TaskStep`): the runtime polls a task
  that can go on, and a model call ends, by its timeout if not by itself. It is
  enough for the lock of the receiver: when the others have stopped it stays
  free. Nothing is assumed of the callers: they may never read the output or
  drain the ring.
* *Chat*: weak fairness of the tasks, of the deduplicator's steps and of
  requests leaving the pipeline (answered or silently); strong fairness of a
  caller, because the model has few task ids and in the code a new one is
  always free. Nothing is assumed of the clients, which may never disconnect,
  nor of expiry and eviction.
* *Task queue*: strong fairness of each agent, because a Tokio mutex is first
  come, first served; time passes; a crashed coordinator is started again.
  Nothing is assumed of the child processes: `TimesOut` ends them. Nor is it
  assumed that the pipes of one that has exited come to their ends; an agent
  may stay `"reading"` for ever, which `FleetFinishes` allows for that agent and
  not for the others.
* *Leader election*: weak fairness of each loop, because it is a task the
  runtime polls and its requests have a timeout, and of the end of `step_down`;
  time passes. Nothing is assumed of late commands, which may never arrive.
* *Worker pool*: weak fairness of the workers' loops and of the drain, strong
  fairness of `Take`, because the receiver's mutex is first come, first served.
  A handler ends: it returns, unless it panics first.
  `DrainReturns` has as premises that callers stop scaling up, that no worker
  has tried to leave for idleness and that no handler has panicked: without
  the last two it is false, see section 7.
* *Replay*: time passes; calls go on; somebody keeps calling `replay_all`, and a
  call that meets the channel again and again finds it with room once (strong
  fairness of `TakeDue` and `Inject`). A service that never replays, or a
  pipeline that is always full, resolves nothing. `EntryResolved` promises
  nothing once the channel is closed, and an abandoned entry counts as resolved:
  in both cases the code drops it, see section 7.
* *Configuration*: weak fairness of the watcher, of an announcement already
  under way and of subscribers that re-read when notified. `FileLoaded` excludes
  a file that is edited again, does not parse, or of which nothing tells the
  watcher (`missed`).
* *Claims*: time passes. `ClaimLapses` is stated under the premise that refreshes
  cease.
* *Cluster*: time passes and the eviction loop runs. `DeadForgotten` is stated
  under the premise that the member stays down.

Deployment and token budget have safety properties only. The steps of the
services that time and the runtime take by themselves share one weak fairness
condition in `MCServices` (`Background`): only one part runs, and it has one
of them.

## 6. What is proved

TLAPS checks the following for all values of the constants that satisfy the
named assumptions (`BreakerAssumption`, `CallersAssumption`, `DedupAssumption`,
`PipelineAssumption`, `ChatAssumption`, `TaskQueueAssumption`,
`ElectionAssumption`, `PoolAssumption`, `ReplayAssumption`, `ConfigAssumption`,
`ClaimAssumption`, `ClusterAssumption`, `DeploymentAssumption`,
`BudgetAssumption`). The type invariant of every module is among it, and every
safety invariant and safety action property of the passing runs. Few of these
are inductive alone; the strengthening is the argument. Where a liveness
property is out of reach, what it rests on is proved: that no state is reached
in which somebody waits for what nobody will do.

**CircuitBreakerProofs.** `TypeCorrect`, `OpenKnowsItsFailure`,
`ClosedIsBelowThreshold`, `FirstOutcomeDecides` and with them `StatusFitsRecord`
(`StatusSound`), `OpenPeriod`. The invariant `TypeOK /\ Good(breaker)` speaks of
the breaker value only, one conjunct per status, so each transition is a lemma
about an operator of `BreakerOps` and the callers do not matter; that is why the
theorems hold for any number of them. `OpenPeriod` follows because an open
circuit's failure is no older than its opening, and the interval is at least
`Timeout`. `AnnouncedWaitHonest` (`RetryAfterHonest`) compares two states: the
announced wait is the interval less the age of the failure, the interval does
not grow while the circuit stays open (`AnnouncedWait`, `WaitShrinks`), and the
clock only ages the failure (`AgedWait`); what lets the next call in is the same
comparison.

**DedupProofs.** `DedupTypeCorrect`; `OneWorkerPerKey` and `NoEntryOrphaned`, for
tokens that are not cloned. The invariant says that a registration has one
token, that a worker whose registration was not lost owns the entry, that the
flag of an unresolved token is not set, and that an in-progress entry has a task
about to resolve it. With clones `NoOrphan` is false, see section 7.
`ClonesHarmNobody` (`LateCallsHarmless`) holds with clones as well, and has an
invariant of its own (`CInv`), since owners are not unique any more: a
cancellation is sent only by the last holder of a registration nobody completed,
so whoever was told is told for good (`CancelFinal`); what a step does to the
entry follows from the guards (`EntryStep`). `NobodyLeftWaiting` is the safety half of
`WaitersWoken`: a waiter has its message, or its channel is closed, or somebody
holds a sender of it and is not blocked. `DedupAssumption` asks for a finite set
of clients because the last clone is found by counting the holders.

**PipelineProofs.** `PipelineTypeCorrect`, `EveryRequestAccounted`,
`DeadLetterQueueExact`, `PipelineKeepsLedger`, for any number of requests,
workers and any capacities. The invariant is
`Types /\ Hands /\ Placed /\ Ring`: a task holds a request
exactly in its working phases; queues and hands are disjoint and contain exactly
the requests whose fate is `inside`; the ring contains exactly those whose fate
is `dead`. `Placed` is needed because an action removes from one queue and adds
to another; it is proved by lemmas about what removing and adding does to
queues, shared by all actions. The refinement proof shows that each step moves
the requests it touches from one fate to the next as `Ledger` allows, which
needs `Placed` and `Ring` to know their fates before the step.

`OvertakingOnlyByWorkers` (`NoOvertaking`) compares the places of two requests
after a step with those before it: each place after has one before, one queue
position further back or in the hand it came from, at the same depth or one less
(`TakingKeepsOrder`, `PuttingKeepsOrder`, `SubmittingKeepsOrder`,
`LosingKeepsOrder`). The order is the same both times, but for a request that a
task puts into the next queue while another task of its stage holds one, and
only workers share a stage.

`OrderKept` is what `NoOvertaking` comes to with a single worker, stated of a
state (`InOrder`): what is on its way is sorted from the output back to the
input. It describes the line as twelve places, output first, each
a queue or a hand: every place is ascending and everything in a place comes
before everything in the places behind it (`Ordered`); a step takes the head of
a place and puts it at the end of the one in front, or removes it. One worker
makes the inference stage one hand. `NothingAbandoned` (`ClosingDrains`, the
safety part of `ClosingEndsAll`) rests on `StopsInTurn`: a stopped task has no
sender left, so a stage that still sends never finds its receiver gone
(`NoBreak`).

`WorkersUseBreaker` shows that the inference workers are callers of
`CircuitBreaker` (`Circuit`, an instance of its proofs with the workers as
callers and those calling the model as running): each step of the pipeline is a
step of the breaker or leaves it alone (`StepIsCircuit`). `PipelineBreakerSound`
then has the breaker's theorems for the pipeline without proving them again.

**ChatCompletionProofs.** `ChatTypeCorrect`, `EndpointUsesDedup`,
`NobodyWaitsForNothing`, `NothingSharedUnpaid` (`SharedAnswersPaid`),
`JoinersLearnOfFailure` (`FailureKnownToJoiners`), `CapHolds`
(`OvershootBounded`), for any number of callers, tasks and registrations and any
cap. Each step of the endpoint is a step of the deduplicator or leaves its
variables alone (`StepIsDedup`), so an invariant of the deduplicator carries
over. `SharedAnswersPaid` needs `Settled`: what is on its way into the cache is
paid for; the token has one holder, so nobody else publishes under that
registration. `FailureKnownToJoiners` needs `Remembered` (a call that failed is
remembered, or still about to be) and `Cancellations` (who was told of a
cancellation joined a call nobody works for any more, so its task is past
remembering). `CapHolds` counts what is under way: an admission either finds
room below the cap or was past the check, so the sum of what is spent and
pending does not grow once the cap is reached. `EndpointIsSingleFlight` instances
`DedupProofs` (`Inner`) and carries its theorems over `EndpointUsesDedup`: one
worker per prompt, no orphaned entry and no waiter left behind, inside the
endpoint with its time-outs, disconnections and refusals.

**TaskQueueProofs.** `TypeCorrect`, `FreshClaimsExclude`, `RecordedNeverRerun`,
for any number of agents and tasks and any two timeouts. `FreshClaimExclusive`
needs `Guarded` (the lock file of a fresh claim on an unfinished task carries
that claim's own timestamp, so nobody finds it stale) and `Apart` (nobody is in
the middle of taking it over); `NeverRerun` needs `Locked` (the mutex), `Known`
(every recorded outcome is known in memory, which `Restart` re-establishes) and
`Unfinished` (what is about to be claimed is not terminal). `UrgentFirst`
(`PriorityFirst`) follows a scan: what it has passed over is finished or locked
(`Passed`) and what it is about to claim was the foremost of the rest
(`Chosen`), which stays true because the scan holds the mutex and a recorder
needs it too. `FleetKeepsWorking` is what `FleetFinishes` rests on: the holder of
the mutex is on its way to release it, and an agent that has left has left a
list of finished tasks.

**LeaderElectionProofs.** `TypeCorrect`, `FreshLeadersExclude`, for any number
of nodes, any time to live and any number of failures. `LeaderHolds` says that a
leader whose confirmation was asked for `a` seconds ago owns the key for at
least `Ttl - a` more, so there is only one; it needs `GrantHolds`, the same of
an answer that has not arrived yet, and `Asked`, that only a request in progress
has an answer. `EffectHolds` is the argument: a command leaves the key alone,
belongs to its owner, or finds it free, and a grant is for the whole time to
live; `TickInv` lets both sides of the inequality run down together.

**WorkerPoolProofs.** `PoolTypeCorrect`, `CountersAreExact` (`CountersAccount`),
`DrainFinishes` (`DrainFinishesWork`), for any number of workers, items and
submitters and any width of the counters. Arithmetic modulo `UsizeRange` is in
`AddModulus`; what a step does to the counted sets is in `CountSteps`. The drain
needs `FreshParcels` (what is not submitted yet is nowhere in the pool),
`OwedReceived` (what the drain found does not return to the queue it saw empty)
and `Ended` (where the workers are when nobody has left and the count is zero).
`ItemsHandledOnce` is what `QueuedIsHandled` rests on: an item has one place in
the queue or one worker's hands or is done with (`OneHolder`, for which a
submitted item must be new, `FreshParcels`), and no step loses one
(`ItemsKept`).

**ServicesProofs**, for each part alone:

* `ReplayMeetsPromise`: `DlqReplay` implements `Ledger`, for any number of
  entries and concurrent calls. The invariant is that every pushed entry is in
  one place, so that `fateOf` is defined by that place.
* `ConfigTypeCorrect`, `VersionsAccountForSets`: between its two locks the
  watcher is behind by exactly the calls of `set` it was overtaken by. That
  versions stay in their range needs the changes still to come to be counted in.
* `ClaimTypeCorrect`, `ClaimsApart`: who relies on a claim that nobody of its
  node deleted owns the key for as long as it relies on it.
* `ClusterTypeCorrect`, `DeadNotRouted`: a heartbeat under way, or the silence of
  a listed member, is no younger than the time its member is down, less the
  delay.
* `DeploymentTypeCorrect`, `PromotionEarned`, `OutcomesEarnedOnce`: a rolling
  deployment has stood at every milestone up to its percentage
  (`AllStepsTaken`), for any list of steps; the archive is a suffix of the
  outcomes (`SuffixKept`).
* `BudgetTypeCorrect`, `WindowLimited` (`WindowBounded`): the sum over the
  requests of a window is the number of their tokens, a set, so that lemmas
  about cardinality (`TallyMore`, `TallySame`, `TallyChanged`) replace induction
  over the requests: an admission adds its estimate to the sum and to the
  count, a release changes both, or it is a surplus that goes to `lateSurplus`
  or an overage of which what does not fit goes to `cutOverage`.
* `ReplayTypeCorrect`, `RetriesPaced` (`BackoffRespected`, the safety part of
  `EntriesRetried`): the back-off doubles, and that powers of two are natural
  numbers comes from the number of subsets of a finite set (`PowersOfTwo`). An
  entry that was handed out has waited its back-off in the queue already
  (`Paced`), so the second wait makes it twice.

Only model-checked: all liveness (`Recovers`, `WaitersWoken`,
`EveryRequestResolved`, `ClosingEndsAll`, `ShutdownStops`, `FleetFinishes`,
`LoserNotices`, `SelfHealing`, `EveryCallerAnswered`, `QueuedIsHandled`,
`DrainReturns`, the rest of `EntriesRetried`, `ChangesArrive`, `ClaimLapses`,
`DeadForgotten`), which is outside the prover's reach with fairness and ENABLED.
No module uses RECURSIVE operators.

## 7. Where the code differs from its documentation

Two differences have a run that shows them (listed as findings):

1. `wait_for_result` may return `None` for a request that completes: the result
   is sent before it is cached, and read before the waiter subscribes
   (`dedup_pending_answered`).
2. A worker that leaves for idleness is subtracted twice, and two may leave on
   one count (`src/worker_pool.rs:256`): fewer than `min_workers` remain, which
   line 40 says are kept even when idle (`worker_pool_min`).

Others were met while modelling and are part of the models:

* The half-open circuit lets every caller through (`circuit_breaker.rs:285`),
  where line 57 and `ARCHITECTURE.md:83` speak of a single probe. A call
  admitted before the circuit opened closes the half-open circuit when it
  succeeds (line 265 expects a probe's outcome there).
* `complete` on one clone after `fail` on another still caches the result
  (`dedup.rs:105`); two clones dropped at the same moment each see the other,
  so neither removes the entry (`dedup.rs:98`, `:168`).
* `shutdown` drops what is queued (`stages.rs:626`), where line 226 and
  `docs/distributed.md:211` say that in-flight requests complete.
* A request that expires before the rag stage leaves no dead letter
  (`stages.rs:70`); a full output channel discards without one (`lib.rs:57`).
* An answer that arrives after the endpoint's timeout is never charged, and
  another call for the same conversation may run meanwhile.
* A task that runs longer than `stale_lock_secs` is executed by a second agent
  at the same time (`queue.rs:248`), where `coordination/mod.rs:32` says that no
  task is ever executed twice.
* Two coordinator processes on one lock directory execute completed tasks again,
  since markers are read at start-up only (`queue.rs:6`); and a lock another
  process has created and not yet written counts as stale.
* An agent that reports after its lock was taken over overwrites the outcome of
  the other (`queue.rs:291`).
* The coordinator drops the sender of its shutdown channel when `spawn_fleet`
  returns, so the shutdown branch of `agent_loop` is never taken by a signal.
* `worker.rs:9` promises "Timeout-safe: processes are killed after the configured
  timeout", and `config.rs:65` calls `timeout_secs` the "Maximum seconds per task
  before timeout". The output of a child is read after it has exited and outside
  the timeout (`worker.rs:126`-`138`): a process the child started, and left
  behind with its stdout or stderr, keeps the agent for as long as it lives. It
  is read only then (`:124`), so a child that writes more than a pipe holds runs
  until its timeout.
* After winning an election a leader sleeps a whole time to live before its
  first renewal (`leader.rs:438`), which is then refused unless a late command
  has prolonged the lease; `leader.rs:12` and `ARCHITECTURE.md:145` say that
  leaders renew before expiry.
* A release deletes the claim of another call of the same node, and a refresh
  prolongs whoever's key it finds (`redis_dedup.rs:213`, `:302`).
* A drain of the worker pool may never return, or may return with an item in a
  worker's hand, once a worker has left for idleness or a handler has panicked.
* `dlq_replay.rs:257`-`258` says: "Entries whose `Sender` is closed are left in
  the queue and a `warn!` is emitted." The code warns and drops them (`:348`-`353`),
  each entry the call still holds in turn. A call whose future is dropped while
  it sleeps (`:321`) loses all of its entries as well. `ReplayKeepsLedger` counts
  both as fates of their own (`discarded`, `abandoned`) and does not forbid them.
* A version of the hot configuration may repeat or go down when `set` overtakes
  a reload (`hot_config.rs:395`), and a file that fails to load is not tried
  again before its modification time changes (`:393`).
* Deployment operations are called idempotent (`deployment.rs:11`) and answer a
  repeated call with an error. An archived id may be created again. With a last
  step below 100 and `auto_promote` a deployment is promoted there; without
  `auto_promote` it can only be rolled back. Steps out of order are skipped.
* A release of tokens that comes in a later window is credited to that window,
  which then admits more than its limit (`token_budget.rs:220`). The window is a
  fixed one that starts anew (`:173`), where lines 36 and 62 speak of a "rolling"
  window: around its boundary twice the limit may pass.

## 8. What is not modelled, and why

* *Real time and floats*: intervals are ticks; statistics, PID controllers,
  bandits, similarity scores and costs are numerical and have no discrete state
  worth exploring.
* *I/O*: HTTP clients, Redis, NATS, the terminal. Models take the possible
  outcomes (an answer, a failure, silence until a timeout) as choices.
* *Text*: templates, prompts, parsing, safety filters. Sequential and without
  state that another task could see.
* *Several keys, several processes*: the keys of the deduplicator, of the
  endpoint and of the claims are independent; one coordinator process is
  modelled.
* *Clocks that go backwards*, poisoned locks and panics inside critical
  sections.
* *Within the parts that have a module*: the mutex around the worker pool's
  receiver and a pool dropped without a drain; a client that disconnects while
  a semantic hit is being published; the sender of heartbeats, which is not in
  the code; `release` of the task queue, which only the tests call.
* The parts of the plan that are not ticked in section 2: the intelligence
  variant of the pipeline differs by what it leaves out (dead letters of the
  inference stage), and the pure algorithms work on one structure behind one
  lock.

The models cover a small share of the lines of the repository, because most of
those lines are adapters to HTTP services, a terminal dashboard, command lines,
numerical tuning, text processing, data structures behind one lock and the tests
beside them. What is shared between tasks, processes or nodes, and can go wrong
by their interleaving, is the core the modules above describe.

## 9. Running it

    tlc -workers 2 -config Pipeline.cfg MCPipeline
    tlapm PipelineProofs.tla

Each MC module takes the configurations of its name: `MCCircuitBreaker` with
`CircuitBreaker.cfg`, `MCDedup` with `Dedup*.cfg`, `MCPipeline` with
`Pipeline*.cfg`, `MCChatCompletion` with `ChatCompletion.cfg`, `MCTaskQueue` with
`TaskQueue.cfg`, `MCLeaderElection` with `LeaderElection.cfg`, `MCWorkerPool` with
`WorkerPool*.cfg`, `MCServices` with `Services.cfg`. The passing runs take up to
a few minutes each, the proofs of a module up to several.
