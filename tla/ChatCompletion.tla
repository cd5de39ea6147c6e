---------------------------- MODULE ChatCompletion ----------------------------
(***************************************************************************)
(* The chat completion endpoint of web_api/openai_compat.rs, for identical *)
(* conversations: callers that share one deduplication key.                *)
(*                                                                         *)
(* A caller checks the spend cap and asks the deduplicator (D, an instance *)
(* of Dedup).  It is served from the cache, joins a call in flight, or     *)
(* starts a task of its own, which holds the token, sends the request to   *)
(* the pipeline and waits for the outcome with a timeout.  The task goes   *)
(* on when its caller disconnects.  The pipeline is what the endpoint can  *)
(* see of it: an accepted request is answered, dead-lettered, or never     *)
(* heard of again.                                                         *)
(***************************************************************************)
EXTENDS FiniteSets, Naturals

CONSTANTS
    Callers,          \* clients of the endpoint
    Tasks,            \* spawned tasks, and the request ids they work for
    Regs,             \* registration ids of the deduplicator
    None,
    Cancelled,        \* DEDUP_CANCELLED_SENTINEL
    CacheResults,     \* dedup_window_secs is not zero
    WithEmbedder,     \* semantic deduplication is on
    UnderPressure,    \* entries in progress may be evicted: too many keys
    MaxJoinAttempts,  \* MAX_JOIN_ATTEMPTS
    SpendCap          \* max_spend_usd, in calls

ASSUME ChatAssumption ==
    /\ IsFiniteSet(Callers) /\ IsFiniteSet(Tasks)
    /\ Callers \cap Tasks = {}
    /\ None \notin Tasks \cup Regs /\ Cancelled \notin Regs \cup {None}
    /\ {CacheResults, WithEmbedder, UnderPressure} \subseteq BOOLEAN
    /\ MaxJoinAttempts \in Nat /\ SpendCap \in Nat

VARIABLES
    entry, pc, reg, msg, completed, lost,  \* the deduplicator
    call,      \* where a caller is
    tries,     \* how often it has joined in vain
    job,       \* the task it waits for
    step,      \* where a task is in run_pipeline and after it
    waiters,   \* the tasks registered to be told an outcome
    reply,     \* what a task's oneshot channel holds
    inside,    \* the tasks whose request is inside the pipeline
    failure,   \* a recent failure of this key is remembered
    spent,     \* spent_usd, in calls
    paid,      \* history: registrations whose answer is paid for
    errored,   \* history: registrations whose call failed
    forgot,    \* history: the last failure expired, or a success cleared it
    racing     \* history: calls past the check when the cap was reached

dedupVars == <<entry, pc, reg, msg, completed, lost>>
callerVars == <<call, tries, job>>
taskVars == <<step, waiters, reply, inside>>
sharedVars == <<failure, spent, paid, errored, forgot, racing>>
vars == <<dedupVars, callerVars, taskVars, sharedVars>>

D == INSTANCE Dedup WITH
        Clients <- Callers \cup Tasks, Regs <- Regs, None <- None,
        Cancelled <- Cancelled, CacheResults <- CacheResults,
        AllowClones <- FALSE, entry <- entry, pc <- pc, reg <- reg,
        msg <- msg, completed <- completed, lost <- lost

\* A caller before its response, and with it.
Busy == {"asking", "embedding", "joining", "owning"}
CallPhases == {"idle", "answered", "failed"} \cup Busy

\* A task before its answer is charged, and after.
Uncharged == {"embedding", "starting", "sending", "awaiting", "answered"}
StepPhases ==
    {"free", "charged", "refused", "remembered", "succeeded", "failed"} \cup Uncharged

TypeOK ==
    /\ D!TypeOK
    /\ call \in [Callers -> CallPhases]
    /\ tries \in [Callers -> 0..MaxJoinAttempts]
    /\ job \in [Callers -> Tasks \cup {None}]
    /\ step \in [Tasks -> StepPhases]
    /\ waiters \subseteq Tasks /\ inside \subseteq Tasks
    /\ reply \in [Tasks -> {"none", "text", "error"}]
    /\ failure \in BOOLEAN /\ forgot \in BOOLEAN
    /\ spent \in Nat /\ racing \in Nat
    /\ paid \subseteq Regs /\ errored \subseteq Regs

Init ==
    /\ D!Init
    /\ call = [c \in Callers |-> "idle"]
    /\ tries = [c \in Callers |-> 0]
    /\ job = [c \in Callers |-> None]
    /\ step = [t \in Tasks |-> "free"]
    /\ waiters = {} /\ inside = {}
    /\ reply = [t \in Tasks |-> "none"]
    /\ failure = FALSE /\ forgot = FALSE
    /\ spent = 0 /\ racing = 0
    /\ paid = {} /\ errored = {}

-----------------------------------------------------------------------------
Become(c, phase) == call' = [call EXCEPT ![c] = phase]
Proceed(t, phase) == step' = [step EXCEPT ![t] = phase]

\* The calls that passed the check of the cap and may still be charged.
Pending ==
    Cardinality({c \in Callers : call[c] \in {"asking", "joining"}})
        + Cardinality({t \in Tasks : step[t] \in Uncharged})

\* mutant: the cap is not looked at
AdmittedAlways == TRUE

\* The spend cap: what was charged so far is below it.
Admitted == spent < SpendCap

\* chat_completions(): the check of the cap.
Arrive(c) ==
    /\ call[c] = "idle"
    /\ Become(c, IF Admitted THEN "asking" ELSE "failed")
    /\ tries' = [tries EXCEPT ![c] = 0]
    /\ UNCHANGED <<dedupVars, job, taskVars, sharedVars>>

\* complete(): an attempt is left.
MayAsk(c) == tries[c] < MaxJoinAttempts

\* complete(): the key is tracked.  The caller is served or joins.
AskTracked(c) ==
    /\ call[c] = "asking" /\ MayAsk(c)
    /\ D!RegisterDuplicate(c)
    /\ Become(c, "joining")
    /\ UNCHANGED <<tries, job, taskVars, sharedVars>>

\* Nothing is left of an earlier call of this task.
Unused(t) ==
    /\ pc[t] = "idle"
    /\ t \notin inside \cup waiters
    /\ \A c \in Callers : job[c] # t

\* complete(): the key is new.  The caller starts a task; with an embedder
\* it first holds the token itself while it waits for the embedding.
AskNew(c, t, r) ==
    /\ call[c] = "asking" /\ MayAsk(c)
    /\ Unused(t)
    /\ D!RegisterNew(t, r)
    /\ Become(c, IF WithEmbedder THEN "embedding" ELSE "owning")
    /\ job' = [job EXCEPT ![c] = t]
    /\ Proceed(t, IF WithEmbedder THEN "embedding" ELSE "starting")
    /\ reply' = [reply EXCEPT ![t] = "none"]
    /\ paid' = paid \ {r} /\ errored' = errored \ {r}
    /\ UNCHANGED <<tries, waiters, inside, failure, spent, forgot, racing>>

\* check_and_register_semantic(): no similar prompt (or no embedding).
SpawnTask(c) ==
    /\ call[c] = "embedding" /\ step[job[c]] = "embedding"
    /\ Become(c, "owning")
    /\ Proceed(job[c], "starting")
    /\ UNCHANGED <<dedupVars, tries, job, waiters, reply, inside, sharedVars>>

\* check_and_register_semantic(): a similar prompt has a cached answer, which
\* completes this registration as well.
SemanticHit(c) ==
    /\ call[c] = "embedding" /\ step[job[c]] = "embedding"
    /\ D!Complete(job[c])
    /\ Become(c, "owning")
    /\ Proceed(job[c], "succeeded")
    /\ paid' = paid \cup {reg[job[c]]}
    /\ UNCHANGED <<tries, job, waiters, reply, inside,
                   failure, spent, errored, forgot, racing>>

\* complete(): MAX_JOIN_ATTEMPTS is used up.
GiveUp(c) ==
    /\ call[c] = "asking" /\ ~MayAsk(c)
    /\ Become(c, "failed")
    /\ UNCHANGED <<dedupVars, tries, job, taskVars, sharedVars>>

\* complete(): the text of the cache, or of the call joined.
TakeAnswer(c) ==
    /\ call[c] = "joining" /\ pc[c] = "served" /\ msg[c] # Cancelled
    /\ D!Leave(c)
    /\ Become(c, "answered")
    /\ UNCHANGED <<tries, job, taskVars, sharedVars>>

\* mutant: a cancelled join does not count as an attempt
AttemptsUncounted(c) == tries[c]

\* The attempts used after one more join in vain.
Attempts(c) == tries[c] + 1

\* complete(): the call joined was cancelled, or its end was missed.  The
\* caller shares its error, or asks again.
JoinedInVain(c) ==
    /\ call[c] = "joining"
    /\ pc[c] = "missed" \/ (pc[c] = "served" /\ msg[c] = Cancelled)
    /\ D!Leave(c)
    /\ IF failure THEN Become(c, "failed") /\ UNCHANGED tries
       ELSE Become(c, "asking") /\ tries' = [tries EXCEPT ![c] = Attempts(c)]
    /\ UNCHANGED <<job, taskVars, sharedVars>>

\* complete(): task.await.
Collect(c) ==
    /\ call[c] = "owning" /\ pc[job[c]] = "idle"
    /\ Become(c, IF step[job[c]] = "succeeded" THEN "answered" ELSE "failed")
    /\ job' = [job EXCEPT ![c] = None]
    /\ UNCHANGED <<dedupVars, tries, taskVars, sharedVars>>

\* The response is sent.
Respond(c) ==
    /\ call[c] \in {"answered", "failed"}
    /\ Become(c, "idle")
    /\ UNCHANGED <<dedupVars, tries, job, taskVars, sharedVars>>

\* The client disconnects: the handler's future is dropped where it waits.
\* A spawned task goes on; a token held during the embedding is dropped.
DisconnectJoined(c) ==
    /\ call[c] = "joining" /\ pc[c] \in {"joining", "waiting"}
    /\ D!Leave(c)
    /\ Become(c, "idle")
    /\ UNCHANGED <<tries, job, taskVars, sharedVars>>

DisconnectOwner(c) ==
    /\ call[c] = "owning"
    /\ Become(c, "idle")
    /\ job' = [job EXCEPT ![c] = None]
    /\ UNCHANGED <<dedupVars, tries, taskVars, sharedVars>>

DisconnectEmbedding(c) ==
    /\ call[c] = "embedding"
    /\ D!Abandon(job[c])
    /\ Become(c, "idle")
    /\ Proceed(job[c], "failed")
    /\ job' = [job EXCEPT ![c] = None]
    /\ UNCHANGED <<tries, waiters, reply, inside, sharedVars>>

-----------------------------------------------------------------------------
\* run_pipeline() returns an answer, or an error.
Answered(t) == Proceed(t, "answered") /\ UNCHANGED errored
Refused(t) == Proceed(t, "refused") /\ errored' = errored \cup {reg[t]}

\* run_pipeline(): the tracker has room and the waiter is registered, or not.
Register(t) ==
    /\ step[t] = "starting"
    /\ \/ Proceed(t, "sending") /\ waiters' = waiters \cup {t} /\ UNCHANGED errored
       \/ Refused(t) /\ UNCHANGED waiters
    /\ UNCHANGED <<dedupVars, callerVars, reply, inside, failure, spent, paid,
                   forgot, racing>>

\* run_pipeline(): try_send.
Send(t) ==
    /\ step[t] = "sending"
    /\ Proceed(t, "awaiting")
    /\ inside' = inside \cup {t}
    /\ UNCHANGED <<dedupVars, callerVars, waiters, reply, sharedVars>>

\* run_pipeline(): the channel is full or closed.
SendFails(t) ==
    /\ step[t] = "sending"
    /\ Refused(t)
    /\ waiters' = waiters \ {t}
    /\ UNCHANGED <<dedupVars, callerVars, reply, inside, failure, spent, paid,
                   forgot, racing>>

\* resolve(), called by the collector of answers and the listener of dead
\* letters: an outcome reaches its waiter, if there still is one.
Outcome(t, what) ==
    /\ t \in inside
    /\ inside' = inside \ {t}
    /\ waiters' = waiters \ {t}
    /\ reply' = [reply EXCEPT ![t] = IF t \in waiters THEN what ELSE @]
    /\ UNCHANGED <<dedupVars, callerVars, step, sharedVars>>

\* The pipeline was shut down with the request in it, or the listener lagged.
Silence(t) ==
    /\ t \in inside
    /\ inside' = inside \ {t}
    /\ UNCHANGED <<dedupVars, callerVars, step, waiters, reply, sharedVars>>

\* run_pipeline(): the outcome arrived.
Receive(t) ==
    /\ step[t] = "awaiting" /\ reply[t] # "none"
    /\ IF reply[t] = "text" THEN Answered(t) ELSE Refused(t)
    /\ UNCHANGED <<dedupVars, callerVars, waiters, reply, inside, failure, spent,
                   paid, forgot, racing>>

\* run_pipeline(): timeout_seconds have passed.
TimesOut(t) ==
    /\ step[t] = "awaiting" /\ reply[t] = "none"
    /\ Refused(t)
    /\ waiters' = waiters \ {t}
    /\ UNCHANGED <<dedupVars, callerVars, reply, inside, failure, spent, paid,
                   forgot, racing>>

\* mutant: the charge is forgotten for an answer that nobody waits for
ChargedIfOwned(t) ==
    IF \E c \in Callers : job[c] = t THEN paid \cup {reg[t]} ELSE paid

\* The registrations that are paid for once t was charged.
Charged(t) == paid \cup {reg[t]}

\* The task charges the call.
Charge(t) ==
    /\ step[t] = "answered"
    /\ Proceed(t, "charged")
    /\ spent' = spent + 1
    /\ paid' = Charged(t)
    /\ racing' = IF spent + 1 = SpendCap THEN Pending - 1 ELSE racing
    /\ UNCHANGED <<dedupVars, callerVars, waiters, reply, inside,
                   failure, errored, forgot>>

\* The task clears the failure and begins dedup.complete().
Finish(t) ==
    /\ step[t] = "charged"
    /\ D!Complete(t)
    /\ Proceed(t, "succeeded")
    /\ failure' = FALSE /\ forgot' = TRUE
    /\ UNCHANGED <<callerVars, waiters, reply, inside, spent, paid, errored, racing>>

\* remember_failure().
Remember(t) ==
    /\ step[t] = "refused"
    /\ Proceed(t, "remembered")
    /\ failure' = TRUE /\ forgot' = FALSE
    /\ UNCHANGED <<dedupVars, callerVars, waiters, reply, inside, spent, paid,
                   errored, racing>>

\* mutant: the token is dropped before the failure is remembered
DropsAtOnce(t) == step[t] \in {"refused", "remembered"}

\* The failure is remembered first.
MayDrop(t) == step[t] = "remembered"

\* drop(token) after a failure.
DropToken(t) ==
    /\ MayDrop(t)
    /\ D!Abandon(t)
    /\ Proceed(t, "failed")
    /\ UNCHANGED <<callerVars, waiters, reply, inside, sharedVars>>

\* FAILURE_MEMORY has passed.
FailureExpires ==
    /\ failure
    /\ failure' = FALSE /\ forgot' = TRUE
    /\ UNCHANGED <<dedupVars, callerVars, taskVars, spent, paid, errored, racing>>

-----------------------------------------------------------------------------
\* The calls in progress inside the deduplicator.
DedupStep(p) == D!Step(p) /\ UNCHANGED <<callerVars, taskVars, sharedVars>>

\* Its expiry.  An entry in progress lives for MIN_IN_PROGRESS_TTL, longer than
\* the timeout of a call, and goes earlier only when there are too many keys.
DedupEvict ==
    /\ UnderPressure \/ entry.state = "Completed"
    /\ D!Evict
    /\ UNCHANGED <<callerVars, taskVars, sharedVars>>

CallerStep(c) ==
    \/ AskTracked(c) \/ GiveUp(c) \/ TakeAnswer(c) \/ JoinedInVain(c) \/ Collect(c)
    \/ SpawnTask(c) \/ SemanticHit(c)
    \/ \E t \in Tasks, r \in Regs : AskNew(c, t, r)

Disconnect(c) == DisconnectJoined(c) \/ DisconnectOwner(c) \/ DisconnectEmbedding(c)

TaskStep(t) ==
    \/ Register(t) \/ Send(t) \/ SendFails(t) \/ Receive(t) \/ TimesOut(t)
    \/ Charge(t) \/ Finish(t) \/ Remember(t) \/ DropToken(t)

Leaves(t) == Outcome(t, "text") \/ Outcome(t, "error") \/ Silence(t)

Next ==
    \/ \E c \in Callers : Arrive(c) \/ CallerStep(c) \/ Respond(c) \/ Disconnect(c)
    \/ \E t \in Tasks : TaskStep(t) \/ Leaves(t)
    \/ \E p \in Callers \cup Tasks : DedupStep(p)
    \/ DedupEvict
    \/ FailureExpires

Spec == Init /\ [][Next]_vars

\* Every handler and task is polled, and the embedder answers or fails.  A
\* request leaves the pipeline some day, answered or not, and a caller that
\* waits for one of the model's few task ids gets one (a new id is always free
\* in the code).  Nothing is assumed of the clients or of the cache.
FairSpec ==
    /\ Spec
    /\ \A c \in Callers : SF_vars(CallerStep(c)) /\ WF_vars(DedupStep(c))
    /\ \A t \in Tasks : WF_vars(TaskStep(t)) /\ WF_vars(DedupStep(t)) /\ WF_vars(Leaves(t))

-----------------------------------------------------------------------------
\* The spend cap is exceeded by at most the calls that were past its check
\* when it was reached: what a caller charges, retries and detached tasks
\* included, was admitted below the cap.
OvershootBounded == spent >= SpendCap => spent + Pending <= SpendCap + racing

\* An answer that others may share, in the cache or on its way to a caller
\* that joined, has been charged, or is itself a shared one: whoever
\* disconnected meanwhile, no text is given away before it is paid for.
SharedAnswersPaid ==
    /\ \A r \in Regs : entry = D!Completed(r) => r \in paid
    /\ \A c \in Callers : msg[c] \in Regs => msg[c] \in paid

\* No waiter is left behind: the entry of a request goes with its outcome, its
\* refusal or its timeout, and a late outcome finds nobody.
NoWaiterLeft == \A t \in waiters : step[t] \in {"sending", "awaiting"}

\* A caller that joined a call which failed finds its failure, unless that
\* expired or was cleared meanwhile: the failure is remembered before the
\* token wakes the callers up, so that they do not all call again.
FailureKnownToJoiners ==
    \A c \in Callers :
        msg[c] = Cancelled /\ reg[c] \in errored => failure \/ forgot

\* Every request gets its response (or its client has left), whether the
\* pipeline answers or not, and however often the calls it joins are cancelled.
EveryCallerAnswered == \A c \in Callers : call[c] \in Busy ~> call[c] \notin Busy
=============================================================================
