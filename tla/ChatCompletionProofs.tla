------------------------- MODULE ChatCompletionProofs -------------------------
(***************************************************************************)
(* What holds of ChatCompletion for every number of callers, tasks and     *)
(* registrations, every cap, with or without an embedder, a cache and      *)
(* early evictions.                                                        *)
(***************************************************************************)
EXTENDS ChatCompletion, FiniteSetTheorems, TLAPS

\* A task that holds its token and has not begun to resolve it.
Working == Uncharged \cup {"charged", "refused", "remembered"}

\* The deduplicator's variables: who has a token has a registration, and a
\* token has one holder.
DedupInv ==
    /\ D!TypeOK
    /\ \A p \in Callers \cup Tasks : pc[p] \in D!TokenPhases => reg[p] \in Regs
    /\ \A p, q \in Callers \cup Tasks :
         pc[p] \in D!TokenPhases /\ pc[q] \in D!TokenPhases /\ reg[p] = reg[q] => p = q

\* The endpoint's own variables.
ChatTypeOK ==
    /\ call \in [Callers -> CallPhases]
    /\ tries \in [Callers -> 0..MaxJoinAttempts]
    /\ job \in [Callers -> Tasks \cup {None}]
    /\ step \in [Tasks -> StepPhases]
    /\ waiters \subseteq Tasks /\ inside \subseteq Tasks
    /\ reply \in [Tasks -> {"none", "text", "error"}]
    /\ failure \in BOOLEAN /\ forgot \in BOOLEAN
    /\ spent \in Nat /\ racing \in Nat
    /\ paid \subseteq Regs /\ errored \subseteq Regs

\* A caller that joined has an attempt left.
JoinsInTime == \A c \in Callers : call[c] = "joining" => tries[c] < MaxJoinAttempts

\* A caller that waits for the embedder holds the token through its task, and
\* no task has two callers.
Embedding ==
    /\ \A c \in Callers : call[c] = "embedding" =>
         job[c] \in Tasks /\ step[job[c]] = "embedding"
    /\ \A c, d \in Callers : job[c] = job[d] /\ job[c] # None => c = d

\* Callers hold no tokens; a task in run_pipeline or between it and the end of
\* the call holds one.
TokensHeld ==
    /\ \A c \in Callers : pc[c] \notin D!TokenPhases
    /\ \A t \in Tasks : step[t] \in Working => pc[t] = "working"

\* A task has no outcome before it waits for one, and an outcome that was
\* delivered has no waiter any more.
NoStaleReply ==
    \A t \in Tasks :
        /\ reply[t] # "none" => t \notin waiters
        /\ step[t] \in {"embedding", "starting"} => reply[t] = "none"

\* Whatever is on its way into the cache is paid for.
Settled ==
    \A t \in Tasks :
        step[t] = "charged" \/ pc[t] \in {"marked", "sent"} => reg[t] \in paid

\* A caller holds a message only while it waits or was served, and one that
\* was told of a cancellation joined a call that nobody works for any more.
Cancellations ==
    /\ \A c \in Callers : msg[c] # None => pc[c] \in {"waiting", "served"}
    /\ \A c \in Callers, t \in Tasks :
         msg[c] = Cancelled /\ reg[c] = reg[t] /\ reg[c] # None => pc[t] # "working"

\* A call that failed is remembered, or was, or is about to be.
Remembered ==
    \A r \in errored :
        \/ failure \/ forgot
        \/ \E t \in Tasks : reg[t] = r /\ step[t] = "refused"

ChatInv ==
    /\ DedupInv /\ ChatTypeOK /\ JoinsInTime /\ Embedding /\ TokensHeld
    /\ NoStaleReply /\ NoWaiterLeft /\ Settled /\ SharedAnswersPaid
    /\ Cancellations /\ Remembered

-----------------------------------------------------------------------------
(* The deduplicator inside the endpoint.                                   *)

\* The entries of the deduplicator are told apart.
LEMMA EntryKinds ==
    /\ \A r, s : D!Completed(r) = D!Completed(s) => r = s
    /\ \A r, s : D!InProgress(r) # D!Completed(s)
    /\ \A r : D!Completed(r) # D!Vacant
    /\ \A r \in Regs : D!InProgress(r) \in D!Entries /\ D!Completed(r) \in D!Entries
    /\ D!Vacant \in D!Entries
    /\ \A e \in D!Entries : e # D!Vacant => e.id \in Regs
    /\ \A e \in D!Entries :
         e # D!Vacant /\ e.state # "InProgress" => e = D!Completed(e.id)
    /\ \A r : D!Completed(r).id = r /\ D!InProgress(r).id = r
<1>1. \A r, s : D!Completed(r) = D!Completed(s) => r = s
  <2>. TAKE r, s
  <2>. QED  BY DEF D!Completed
<1>2. \A r, s : D!InProgress(r) # D!Completed(s)
  <2>. TAKE r, s
  <2>. QED  BY DEF D!InProgress, D!Completed
<1>3. \A r : D!Completed(r) # D!Vacant
  <2>. TAKE r
  <2>. QED  BY DEF D!Completed, D!Vacant
<1>4. /\ \A r \in Regs : D!InProgress(r) \in D!Entries /\ D!Completed(r) \in D!Entries
      /\ D!Vacant \in D!Entries
  BY DEF D!Entries
<1>5. \A e \in D!Entries :
         \/ e = D!Vacant
         \/ \E r \in Regs : e = D!InProgress(r) \/ e = D!Completed(r)
  BY DEF D!Entries
<1>6. \A e \in D!Entries : e # D!Vacant => e.id \in Regs
  BY <1>5 DEF D!InProgress, D!Completed
<1>7. \A e \in D!Entries :
         e # D!Vacant /\ e.state # "InProgress" => e = D!Completed(e.id)
  BY <1>5 DEF D!InProgress, D!Completed
<1>8. \A r : D!Completed(r).id = r /\ D!InProgress(r).id = r
  BY DEF D!Completed, D!InProgress
<1>. QED  BY <1>1, <1>2, <1>3, <1>4, <1>6, <1>7, <1>8

USE DEF D!TokenPhases, D!InComplete, D!InDrop, D!JoinPhases, D!Phases

LEMMA InitDedup == Init => DedupInv
<1>. SUFFICES ASSUME Init PROVE DedupInv
  OBVIOUS
<1>1. D!TypeOK
  BY EntryKinds DEF Init, D!Init, D!TypeOK
<1>2. \A p \in Callers \cup Tasks : pc[p] = "idle"
  BY DEF Init, D!Init
<1>. QED  BY <1>1, <1>2 DEF DedupInv

\* Every step of the endpoint is one of the deduplicator, or leaves it alone.
LEMMA StepIsDedup == ChatTypeOK /\ Embedding /\ [Next]_vars => [D!Next]_dedupVars
<1>. SUFFICES ASSUME ChatTypeOK, Embedding, [Next]_vars PROVE [D!Next]_dedupVars
  OBVIOUS
<1>1. ASSUME NEW p \in Callers \cup Tasks,
             \/ \E r \in Regs : D!RegisterNew(p, r)
             \/ D!RegisterDuplicate(p) \/ D!Complete(p) \/ D!Abandon(p)
             \/ D!Step(p) \/ D!Leave(p)
      PROVE  D!Next
  BY <1>1 DEF D!Next, D!Resolve
<1>2. ASSUME NEW c \in Callers,
             Arrive(c) \/ CallerStep(c) \/ Respond(c) \/ Disconnect(c)
      PROVE  [D!Next]_dedupVars
  <2>1. CASE \E t \in Tasks, r \in Regs : AskNew(c, t, r)
    BY <1>1, <2>1 DEF AskNew
  <2>2. CASE SemanticHit(c) \/ DisconnectEmbedding(c)
    <3>1. job[c] \in Tasks
      BY <2>2 DEF SemanticHit, DisconnectEmbedding, Embedding
    <3>. QED  BY <1>1, <2>2, <3>1 DEF SemanticHit, DisconnectEmbedding
  <2>3. CASE AskTracked(c) \/ TakeAnswer(c) \/ JoinedInVain(c) \/ DisconnectJoined(c)
    BY <1>1, <2>3 DEF AskTracked, TakeAnswer, JoinedInVain, DisconnectJoined
  <2>4. CASE \/ Arrive(c) \/ GiveUp(c) \/ Collect(c) \/ SpawnTask(c) \/ Respond(c)
             \/ DisconnectOwner(c)
    BY <2>4 DEF Arrive, GiveUp, Collect, SpawnTask, Respond, DisconnectOwner
  <2>. QED  BY <1>2, <2>1, <2>2, <2>3, <2>4 DEF CallerStep, Disconnect
<1>3. ASSUME NEW t \in Tasks, TaskStep(t) \/ Leaves(t) PROVE [D!Next]_dedupVars
  <2>1. CASE Finish(t) \/ DropToken(t)
    BY <1>1, <2>1 DEF Finish, DropToken
  <2>2. CASE \/ Register(t) \/ Send(t) \/ SendFails(t) \/ Receive(t) \/ TimesOut(t)
             \/ Charge(t) \/ Remember(t) \/ Leaves(t)
    BY <2>2 DEF Register, Send, SendFails, Receive, TimesOut, Charge, Remember,
                Leaves, Outcome, Silence
  <2>. QED  BY <1>3, <2>1, <2>2 DEF TaskStep
<1>4. ASSUME NEW p \in Callers \cup Tasks, DedupStep(p) PROVE [D!Next]_dedupVars
  BY <1>1, <1>4 DEF DedupStep
<1>5. CASE DedupEvict
  BY <1>5 DEF DedupEvict, D!Next
<1>6. CASE FailureExpires \/ UNCHANGED vars
  BY <1>6 DEF FailureExpires, vars
<1>. QED  BY <1>2, <1>3, <1>4, <1>5, <1>6 DEF Next

\* The deduplicator keeps its tokens in order; the endpoint clones none.
LEMMA DedupKeeps == DedupInv /\ [D!Next]_dedupVars => DedupInv'
<1>. SUFFICES ASSUME DedupInv, [D!Next]_dedupVars PROVE DedupInv'
  OBVIOUS
<1>. USE EntryKinds, ChatAssumption DEF DedupInv, D!TypeOK, D!Goto
<1>1. ASSUME NEW p \in Callers \cup Tasks, NEW r \in Regs, D!RegisterNew(p, r)
      PROVE  DedupInv'
  <2>1. \A q \in Callers \cup Tasks : reg[q] # r
    BY <1>1 DEF D!RegisterNew, D!InUse
  <2>. QED  BY <1>1, <2>1 DEF D!RegisterNew
<1>2. ASSUME NEW p \in Callers \cup Tasks, D!RegisterDuplicate(p) PROVE DedupInv'
  BY <1>2 DEF D!RegisterDuplicate
<1>3. ASSUME NEW p \in Callers \cup Tasks, D!Resolve(p) PROVE DedupInv'
  <2>1. pc[p] = "working" /\ reg[p] \in Regs
    BY <1>3 DEF D!Resolve, D!Complete, D!Fail, D!Abandon
  <2>2. CASE D!Complete(p)
    BY <2>1, <2>2 DEF D!Complete
  <2>3. CASE D!Fail(p) \/ D!Abandon(p)
    <3>1. entry' \in D!Entries
      BY <2>3 DEF D!Fail, D!Abandon, D!EntryWithout
    <3>. QED  BY <2>1, <2>3, <3>1 DEF D!Fail, D!Abandon
  <2>. QED  BY <1>3, <2>2, <2>3 DEF D!Resolve
<1>4. ASSUME NEW p \in Callers \cup Tasks, D!Step(p) PROVE DedupInv'
  <2>1. CASE D!Lookup(p)
    <3>1. pc[p] = "joining" /\ UNCHANGED <<entry, completed, lost>>
      BY <2>1 DEF D!Lookup
    <3>2. CASE entry = D!Vacant
      <4>1. pc' = [pc EXCEPT ![p] = "missed"] /\ reg' = reg /\ msg' = msg
        BY <2>1, <3>2 DEF D!Lookup, D!Vacant
      <4>. QED  BY <3>1, <4>1
    <3>3. CASE entry # D!Vacant /\ entry.state = "InProgress"
      <4>1. /\ pc' = [pc EXCEPT ![p] = "found"] /\ msg' = msg
            /\ reg' = [reg EXCEPT ![p] = entry.id] /\ entry.id \in Regs
        BY <2>1, <3>3 DEF D!Lookup
      <4>. QED  BY <3>1, <4>1
    <3>4. CASE entry # D!Vacant /\ entry.state # "InProgress"
      <4>1. /\ pc' = [pc EXCEPT ![p] = "served"] /\ reg' = reg
            /\ msg' = [msg EXCEPT ![p] = entry.id] /\ entry.id \in Regs
        BY <2>1, <3>4 DEF D!Lookup
      <4>. QED  BY <3>1, <4>1
    <3>. QED  BY <3>2, <3>3, <3>4
  <2>2. CASE D!Subscribe(p) \/ D!Receive(p)
    BY <2>2 DEF D!Subscribe, D!Receive
  <2>3. CASE D!SendResult(p)
    <3>1. pc[p] = "marked" /\ reg[p] \in Regs
      BY <2>3 DEF D!SendResult
    <3>2. msg' \in [Callers \cup Tasks -> Regs \cup {None, Cancelled}]
      BY <2>3, <3>1 DEF D!SendResult, D!Delivered
    <3>. QED  BY <2>3, <3>1, <3>2 DEF D!SendResult
  <2>4. CASE D!Publish(p)
    BY <2>4 DEF D!Publish, D!Published, D!EntryWithout
  <2>5. CASE D!CheckDrop(p)
    BY <2>5 DEF D!CheckDrop
  <2>6. CASE D!SendCancel(p)
    BY <2>6 DEF D!SendCancel, D!Delivered
  <2>7. CASE D!ClearEntry(p)
    BY <2>7 DEF D!ClearEntry, D!EntryWithout
  <2>8. CASE D!Free(p)
    BY <2>8 DEF D!Free
  <2>. QED  BY <1>4, <2>1, <2>2, <2>3, <2>4, <2>5, <2>6, <2>7, <2>8 DEF D!Step
<1>5. ASSUME NEW p \in Callers \cup Tasks, D!Leave(p) PROVE DedupInv'
  BY <1>5 DEF D!Leave
<1>6. CASE D!Evict
  BY <1>6 DEF D!Evict
<1>7. CASE UNCHANGED dedupVars
  BY <1>7 DEF dedupVars
<1>8. ASSUME NEW p \in Callers \cup Tasks, NEW q \in Callers \cup Tasks, D!Share(p, q)
      PROVE  DedupInv'
  BY <1>8 DEF D!Share
<1>. QED  BY <1>1, <1>2, <1>3, <1>4, <1>5, <1>6, <1>7, <1>8 DEF D!Next

-----------------------------------------------------------------------------
(* The calls that may still be charged.                                    *)

Unsettled == {c \in Callers : call[c] \in {"asking", "joining"}}
InWork == {t \in Tasks : step[t] \in Uncharged}

\* Their number is one, and it is positive while an answer is to be charged.
LEMMA PendingType ==
    /\ IsFiniteSet(Unsettled) /\ Cardinality(Unsettled) \in Nat
    /\ IsFiniteSet(InWork) /\ Cardinality(InWork) \in Nat
    /\ Pending = Cardinality(Unsettled) + Cardinality(InWork)
    /\ Pending \in Nat
<1>1. IsFiniteSet(Unsettled) /\ IsFiniteSet(InWork)
  BY FS_Subset, ChatAssumption DEF Unsettled, InWork
<1>2. Cardinality(Unsettled) \in Nat /\ Cardinality(InWork) \in Nat
  BY <1>1, FS_CardinalityType
<1>3. Pending = Cardinality(Unsettled) + Cardinality(InWork)
  BY DEF Pending, Unsettled, InWork
<1>. QED  BY <1>1, <1>2, <1>3

LEMMA PendingTask ==
    ASSUME NEW t \in Tasks, step[t] = "answered"
    PROVE  Pending > 0 /\ Pending - 1 \in Nat
<1>1. t \in InWork
  BY DEF InWork, Uncharged
<1>2. Cardinality(InWork) # 0
  BY <1>1, PendingType, FS_EmptySet
<1>. QED  BY <1>2, PendingType

-----------------------------------------------------------------------------
(* The endpoint's invariant, conjunct by conjunct.                         *)

LEMMA InitChat == Init => ChatInv
<1>. SUFFICES ASSUME Init PROVE ChatInv
  OBVIOUS
<1>1. DedupInv
  BY InitDedup
<1>2. /\ \A p \in Callers \cup Tasks : pc[p] = "idle" /\ msg[p] = None
      /\ entry = D!Vacant
  BY DEF Init, D!Init
<1>3. ChatTypeOK
  <2>1. 0 \in 0..MaxJoinAttempts
    BY ChatAssumption
  <2>2. /\ call \in [Callers -> CallPhases]
        /\ tries \in [Callers -> 0..MaxJoinAttempts]
        /\ job \in [Callers -> Tasks \cup {None}]
        /\ step \in [Tasks -> StepPhases]
        /\ reply \in [Tasks -> {"none", "text", "error"}]
    BY <2>1 DEF Init, CallPhases, StepPhases
  <2>. QED  BY <2>2 DEF Init, ChatTypeOK
<1>4. JoinsInTime /\ Embedding
  BY DEF Init, JoinsInTime, Embedding
<1>5. TokensHeld
  BY <1>2 DEF Init, TokensHeld, Working, Uncharged
<1>6. NoStaleReply /\ NoWaiterLeft
  BY DEF Init, NoStaleReply, NoWaiterLeft
<1>7. Settled
  BY <1>2 DEF Init, Settled
<1>8. SharedAnswersPaid
  BY <1>2, EntryKinds, ChatAssumption DEF SharedAnswersPaid
<1>9. Cancellations
  BY <1>2, ChatAssumption DEF Cancellations
<1>10. Remembered
  BY DEF Init, Remembered
<1>. QED
  BY <1>1, <1>3, <1>4, <1>5, <1>6, <1>7, <1>8, <1>9, <1>10 DEF ChatInv

\* The registration of a task that works is one.
LEMMA WorksForRegistration ==
    ASSUME ChatInv, NEW t \in Tasks, step[t] \in Working
    PROVE  pc[t] = "working" /\ reg[t] \in Regs
BY DEF ChatInv, TokensHeld, DedupInv

LEMMA NextChatType == ChatInv /\ Next => ChatTypeOK' /\ JoinsInTime'
<1>. SUFFICES ASSUME ChatInv, Next PROVE ChatTypeOK' /\ JoinsInTime'
  OBVIOUS
<1>1. ChatTypeOK /\ JoinsInTime /\ Embedding
  BY DEF ChatInv
<1>. USE DEF ChatTypeOK, JoinsInTime, Become, Proceed, CallPhases, Busy, StepPhases,
             Uncharged, dedupVars, callerVars, taskVars, sharedVars
<1>2. ASSUME NEW c \in Callers, Arrive(c) PROVE ChatTypeOK' /\ JoinsInTime'
  BY <1>1, <1>2, ChatAssumption DEF Arrive
<1>3. ASSUME NEW c \in Callers, AskTracked(c) PROVE ChatTypeOK' /\ JoinsInTime'
  <2>1. tries[c] < MaxJoinAttempts
    BY <1>3 DEF AskTracked, MayAsk
  <2>. QED  BY <1>1, <1>3, <2>1 DEF AskTracked
<1>4. ASSUME NEW c \in Callers, NEW t \in Tasks, NEW r \in Regs, AskNew(c, t, r)
      PROVE  ChatTypeOK' /\ JoinsInTime'
  BY <1>1, <1>4 DEF AskNew
<1>5. ASSUME NEW c \in Callers, SpawnTask(c) PROVE ChatTypeOK' /\ JoinsInTime'
  BY <1>1, <1>5 DEF SpawnTask
<1>6. ASSUME NEW c \in Callers, SemanticHit(c) PROVE ChatTypeOK' /\ JoinsInTime'
  <2>1. job[c] \in Tasks /\ reg[job[c]] \in Regs
    BY <1>1, <1>6, WorksForRegistration DEF SemanticHit, Embedding, Working
  <2>. QED  BY <1>1, <1>6, <2>1 DEF SemanticHit
<1>7. ASSUME NEW c \in Callers, GiveUp(c) \/ TakeAnswer(c) \/ Respond(c)
      PROVE  ChatTypeOK' /\ JoinsInTime'
  BY <1>1, <1>7 DEF GiveUp, TakeAnswer, Respond
<1>8. ASSUME NEW c \in Callers, JoinedInVain(c) PROVE ChatTypeOK' /\ JoinsInTime'
  <2>1. tries[c] + 1 \in 0..MaxJoinAttempts
    BY <1>1, <1>8, ChatAssumption DEF JoinedInVain
  <2>2. CASE failure
    BY <1>1, <1>8, <2>2 DEF JoinedInVain
  <2>3. CASE ~failure
    BY <1>1, <1>8, <2>1, <2>3 DEF JoinedInVain, Attempts
  <2>. QED  BY <2>2, <2>3
<1>9. ASSUME NEW c \in Callers, Collect(c) \/ DisconnectJoined(c) \/ DisconnectOwner(c)
      PROVE  ChatTypeOK' /\ JoinsInTime'
  BY <1>1, <1>9 DEF Collect, DisconnectJoined, DisconnectOwner
<1>10. ASSUME NEW c \in Callers, DisconnectEmbedding(c)
       PROVE  ChatTypeOK' /\ JoinsInTime'
  BY <1>1, <1>10 DEF DisconnectEmbedding
<1>11. ASSUME NEW t \in Tasks, Register(t) \/ SendFails(t) \/ Receive(t) \/ TimesOut(t)
       PROVE  ChatTypeOK' /\ JoinsInTime'
  <2>1. reg[t] \in Regs
    BY <1>11, WorksForRegistration
       DEF Register, SendFails, Receive, TimesOut, Working
  <2>2. CASE Register(t)
    BY <1>1, <2>1, <2>2 DEF Register, Refused
  <2>3. CASE SendFails(t) \/ TimesOut(t)
    BY <1>1, <2>1, <2>3 DEF SendFails, TimesOut, Refused
  <2>4. CASE Receive(t)
    BY <1>1, <2>1, <2>4 DEF Receive, Answered, Refused
  <2>. QED  BY <1>11, <2>2, <2>3, <2>4
<1>12. ASSUME NEW t \in Tasks, Send(t) \/ Remember(t) \/ DropToken(t) \/ Finish(t)
       PROVE  ChatTypeOK' /\ JoinsInTime'
  BY <1>1, <1>12 DEF Send, Remember, DropToken, Finish
<1>13. ASSUME NEW t \in Tasks, Charge(t) PROVE ChatTypeOK' /\ JoinsInTime'
  <2>1. reg[t] \in Regs
    BY <1>13, WorksForRegistration DEF Charge, Working
  <2>2. spent' \in Nat
    BY <1>1, <1>13 DEF Charge
  <2>3. racing' \in Nat
    BY <1>1, <1>13, PendingTask DEF Charge
  <2>. QED  BY <1>1, <1>13, <2>1, <2>2, <2>3 DEF Charge, Charged
<1>14. ASSUME NEW t \in Tasks, Leaves(t) PROVE ChatTypeOK' /\ JoinsInTime'
  BY <1>1, <1>14 DEF Leaves, Outcome, Silence
<1>15. ASSUME NEW p \in Callers \cup Tasks, DedupStep(p)
       PROVE  ChatTypeOK' /\ JoinsInTime'
  BY <1>1, <1>15 DEF DedupStep
<1>16. CASE DedupEvict \/ FailureExpires
  BY <1>1, <1>16 DEF DedupEvict, FailureExpires
<1>. QED
  BY <1>2, <1>3, <1>4, <1>5, <1>6, <1>7, <1>8, <1>9, <1>10, <1>11, <1>12, <1>13,
     <1>14, <1>15, <1>16 DEF Next, CallerStep, Disconnect, TaskStep

LEMMA NextEmbedding == ChatInv /\ Next => Embedding'
<1>. SUFFICES ASSUME ChatInv, Next PROVE Embedding'
  OBVIOUS
<1>1. ChatTypeOK /\ Embedding
  BY DEF ChatInv
<1>. USE DEF ChatTypeOK, Embedding, Become, Proceed, callerVars, taskVars
<1>2. ASSUME NEW c \in Callers, NEW t \in Tasks, NEW r \in Regs, AskNew(c, t, r)
      PROVE  Embedding'
  <2>1. \A d \in Callers : job[d] # t
    BY <1>2 DEF AskNew, Unused
  <2>2. /\ call' = [call EXCEPT ![c] = IF WithEmbedder THEN "embedding" ELSE "owning"]
        /\ step' = [step EXCEPT ![t] = IF WithEmbedder THEN "embedding" ELSE "starting"]
        /\ job' = [job EXCEPT ![c] = t]
    BY <1>2 DEF AskNew
  <2>. QED  BY <1>1, <2>1, <2>2
<1>3. ASSUME NEW c \in Callers, SpawnTask(c) \/ SemanticHit(c) \/ DisconnectEmbedding(c)
      PROVE  Embedding'
  BY <1>1, <1>3, ChatAssumption DEF SpawnTask, SemanticHit, DisconnectEmbedding
<1>4. ASSUME NEW c \in Callers,
             \/ Arrive(c) \/ AskTracked(c) \/ GiveUp(c) \/ TakeAnswer(c)
             \/ JoinedInVain(c) \/ Respond(c) \/ DisconnectJoined(c)
      PROVE  Embedding'
  BY <1>1, <1>4
     DEF Arrive, AskTracked, GiveUp, TakeAnswer, JoinedInVain, Respond, DisconnectJoined
<1>5. ASSUME NEW c \in Callers, Collect(c) \/ DisconnectOwner(c) PROVE Embedding'
  BY <1>1, <1>5, ChatAssumption DEF Collect, DisconnectOwner
<1>6. ASSUME NEW t \in Tasks, TaskStep(t) \/ Leaves(t) PROVE Embedding'
  <2>1. UNCHANGED <<call, job>>
    BY <1>6 DEF TaskStep, Leaves, Register, Send, SendFails, Receive, TimesOut, Charge,
                Finish, Remember, DropToken, Outcome, Silence
  <2>2. CASE step' = step
    BY <1>1, <2>1, <2>2
  <2>3. CASE TaskStep(t)
    <3>1. /\ step[t] # "embedding"
          /\ \A u \in Tasks : u # t => step'[u] = step[u]
      BY <1>1, <2>3 DEF TaskStep, Register, Send, SendFails, Receive, TimesOut, Charge,
                Finish, Remember, DropToken, Answered, Refused, MayDrop
    <3>. QED  BY <1>1, <2>1, <3>1
  <2>4. CASE Leaves(t)
    BY <2>2, <2>4 DEF Leaves, Outcome, Silence
  <2>. QED  BY <1>6, <2>3, <2>4
<1>7. CASE DedupEvict \/ FailureExpires \/ \E p \in Callers \cup Tasks : DedupStep(p)
  BY <1>1, <1>7 DEF DedupEvict, FailureExpires, DedupStep
<1>. QED
  BY <1>2, <1>3, <1>4, <1>5, <1>6, <1>7 DEF Next, CallerStep, Disconnect

\* What a call in progress inside the deduplicator does.
LEMMA StepShape ==
    ASSUME DedupInv, NEW p \in Callers \cup Tasks, D!Step(p)
    PROVE  /\ pc[p] # "working" /\ pc'[p] # "working"
           /\ \A q \in Callers \cup Tasks : q # p => pc'[q] = pc[q] /\ reg'[q] = reg[q]
           /\ pc'[p] \in D!TokenPhases => pc[p] \in D!TokenPhases
           /\ pc'[p] \in {"marked", "sent"} =>
                pc[p] \in {"marked", "sent"} /\ reg'[p] = reg[p]
<1>1. pc \in [Callers \cup Tasks -> D!Phases]
  BY DEF DedupInv, D!TypeOK
<1>2. reg \in [Callers \cup Tasks -> Regs \cup {None}]
  BY DEF DedupInv, D!TypeOK
<1>. USE <1>1, <1>2 DEF D!Goto
<1>3. CASE D!Lookup(p)
  <2>1. pc[p] = "joining"
    BY <1>3 DEF D!Lookup
  <2>2. \E x \in {"missed", "found", "served"} : pc' = [pc EXCEPT ![p] = x]
    <3>1. CASE entry = D!Vacant
      BY <1>3, <3>1 DEF D!Lookup, D!Vacant
    <3>2. CASE entry # D!Vacant
      BY <1>3, <3>2 DEF D!Lookup
    <3>. QED  BY <3>1, <3>2
  <2>3. reg' = reg \/ reg' = [reg EXCEPT ![p] = entry.id]
    <3>1. CASE entry = D!Vacant
      BY <1>3, <3>1 DEF D!Lookup, D!Vacant
    <3>2. CASE entry # D!Vacant
      BY <1>3, <3>2 DEF D!Lookup
    <3>. QED  BY <3>1, <3>2
  <2>. QED  BY <2>1, <2>2, <2>3
<1>4. CASE D!Subscribe(p)
  BY <1>4 DEF D!Subscribe
<1>5. CASE D!Receive(p)
  BY <1>5 DEF D!Receive
<1>6. CASE D!SendResult(p) \/ D!Publish(p) \/ D!CheckDrop(p)
  BY <1>6 DEF D!SendResult, D!Publish, D!CheckDrop
<1>7. CASE D!SendCancel(p) \/ D!ClearEntry(p) \/ D!Free(p)
  BY <1>7 DEF D!SendCancel, D!ClearEntry, D!Free
<1>. QED  BY <1>3, <1>4, <1>5, <1>6, <1>7 DEF D!Step

LEMMA NextTokens == ChatInv /\ Next => TokensHeld'
<1>. SUFFICES ASSUME ChatInv, Next PROVE TokensHeld'
  OBVIOUS
<1>1. /\ DedupInv /\ ChatTypeOK /\ Embedding /\ TokensHeld
      /\ pc \in [Callers \cup Tasks -> D!Phases]
  BY DEF ChatInv, DedupInv, D!TypeOK
<1>. USE ChatAssumption DEF ChatTypeOK, TokensHeld, Proceed, D!Goto
<1>2. ASSUME NEW c \in Callers, NEW t \in Tasks, NEW r \in Regs, AskNew(c, t, r)
      PROVE  TokensHeld'
  <2>1. /\ pc' = [pc EXCEPT ![t] = "working"]
        /\ step' = [step EXCEPT ![t] = IF WithEmbedder THEN "embedding" ELSE "starting"]
    BY <1>2 DEF AskNew, D!RegisterNew
  <2>. QED  BY <1>1, <2>1
<1>3. ASSUME NEW c \in Callers, SpawnTask(c) PROVE TokensHeld'
  <2>1. /\ job[c] \in Tasks /\ step[job[c]] \in Working
        /\ pc' = pc /\ step' = [step EXCEPT ![job[c]] = "starting"]
    BY <1>1, <1>3 DEF SpawnTask, Embedding, Working, Uncharged, dedupVars
  <2>. QED  BY <1>1, <2>1
<1>4. ASSUME NEW c \in Callers, SemanticHit(c) \/ DisconnectEmbedding(c)
      PROVE  TokensHeld'
  <2>1. /\ job[c] \in Tasks
        /\ \E x \in {"marked", "dropping"} : pc' = [pc EXCEPT ![job[c]] = x]
        /\ \E x \in {"succeeded", "failed"} : step' = [step EXCEPT ![job[c]] = x]
    BY <1>1, <1>4 DEF SemanticHit, DisconnectEmbedding, Embedding, D!Complete, D!Abandon
  <2>. QED  BY <1>1, <2>1 DEF Working, Uncharged
<1>5. ASSUME NEW c \in Callers,
             AskTracked(c) \/ TakeAnswer(c) \/ JoinedInVain(c) \/ DisconnectJoined(c)
      PROVE  TokensHeld'
  <2>1. /\ \E x \in {"idle", "joining", "served"} : pc' = [pc EXCEPT ![c] = x]
        /\ UNCHANGED step
    <3>1. CASE AskTracked(c)
      <4>1. D!RegisterDuplicate(c) /\ step' = step
        BY <3>1 DEF AskTracked, taskVars
      <4>. QED  BY <4>1 DEF D!RegisterDuplicate
    <3>2. CASE TakeAnswer(c) \/ JoinedInVain(c) \/ DisconnectJoined(c)
      BY <3>2 DEF TakeAnswer, JoinedInVain, DisconnectJoined, D!Leave, taskVars
    <3>. QED  BY <1>5, <3>1, <3>2
  <2>. QED  BY <1>1, <2>1
<1>6. ASSUME NEW c \in Callers,
             Arrive(c) \/ GiveUp(c) \/ Collect(c) \/ Respond(c) \/ DisconnectOwner(c)
      PROVE  TokensHeld'
  BY <1>1, <1>6 DEF Arrive, GiveUp, Collect, Respond, DisconnectOwner, dedupVars, taskVars
<1>7. ASSUME NEW t \in Tasks, Finish(t) \/ DropToken(t) PROVE TokensHeld'
  <2>1. /\ \E x \in {"marked", "dropping"} : pc' = [pc EXCEPT ![t] = x]
        /\ \E x \in {"succeeded", "failed"} : step' = [step EXCEPT ![t] = x]
    BY <1>7 DEF Finish, DropToken, D!Complete, D!Abandon
  <2>. QED  BY <1>1, <2>1 DEF Working, Uncharged
<1>8. ASSUME NEW t \in Tasks,
             \/ Register(t) \/ Send(t) \/ SendFails(t) \/ Receive(t) \/ TimesOut(t)
             \/ Charge(t) \/ Remember(t)
      PROVE  TokensHeld'
  <2>1. step[t] \in Working /\ pc' = pc
    BY <1>8 DEF Register, Send, SendFails, Receive, TimesOut, Charge, Remember,
                dedupVars, Working, Uncharged
  <2>2. \E x \in StepPhases : step' = [step EXCEPT ![t] = x]
    BY <1>8 DEF Register, Send, SendFails, Receive, TimesOut, Charge, Remember,
                Answered, Refused, StepPhases, Uncharged
  <2>. QED  BY <1>1, <2>1, <2>2
<1>9. ASSUME NEW p \in Callers \cup Tasks, DedupStep(p) PROVE TokensHeld'
  <2>1. step' = step /\ D!Step(p)
    BY <1>9 DEF DedupStep, taskVars
  <2>2. ASSUME NEW c \in Callers PROVE pc'[c] \notin D!TokenPhases
    BY <1>1, <2>1, StepShape
  <2>3. ASSUME NEW t \in Tasks, step'[t] \in Working PROVE pc'[t] = "working"
    BY <1>1, <2>1, <2>3, StepShape
  <2>. QED  BY <2>2, <2>3
<1>10. ASSUME NEW t \in Tasks, Leaves(t) PROVE TokensHeld'
  BY <1>1, <1>10 DEF Leaves, Outcome, Silence, dedupVars
<1>11. CASE DedupEvict \/ FailureExpires
  BY <1>1, <1>11 DEF DedupEvict, D!Evict, FailureExpires, dedupVars, taskVars
<1>. QED
  BY <1>2, <1>3, <1>4, <1>5, <1>6, <1>7, <1>8, <1>9, <1>10, <1>11
     DEF Next, CallerStep, Disconnect, TaskStep

LEMMA NextWaiters == ChatInv /\ Next => NoStaleReply' /\ NoWaiterLeft'
<1>. SUFFICES ASSUME ChatInv, Next PROVE NoStaleReply' /\ NoWaiterLeft'
  OBVIOUS
<1>1. ChatTypeOK /\ Embedding /\ NoStaleReply /\ NoWaiterLeft
  BY DEF ChatInv
<1>. USE DEF ChatTypeOK, NoStaleReply, NoWaiterLeft, Proceed, callerVars, taskVars
<1>2. ASSUME NEW c \in Callers, NEW t \in Tasks, NEW r \in Regs, AskNew(c, t, r)
      PROVE  NoStaleReply' /\ NoWaiterLeft'
  BY <1>1, <1>2 DEF AskNew, Unused
<1>3. ASSUME NEW c \in Callers, SpawnTask(c) \/ SemanticHit(c) \/ DisconnectEmbedding(c)
      PROVE  NoStaleReply' /\ NoWaiterLeft'
  <2>1. /\ job[c] \in Tasks /\ step[job[c]] = "embedding"
        /\ reply' = reply /\ waiters' = waiters
        /\ \E x \in {"starting", "succeeded", "failed"} :
             step' = [step EXCEPT ![job[c]] = x]
    BY <1>1, <1>3 DEF SpawnTask, SemanticHit, DisconnectEmbedding, Embedding
  <2>. QED  BY <1>1, <2>1
<1>4. ASSUME NEW t \in Tasks, TaskStep(t) PROVE NoStaleReply' /\ NoWaiterLeft'
  <2>1. CASE Register(t)
    BY <1>1, <2>1 DEF Register, Refused
  <2>2. CASE Send(t)
    BY <1>1, <2>2 DEF Send
  <2>3. CASE SendFails(t) \/ TimesOut(t)
    BY <1>1, <2>3 DEF SendFails, TimesOut, Refused
  <2>4. CASE Receive(t)
    BY <1>1, <2>4 DEF Receive, Answered, Refused
  <2>5. CASE Charge(t) \/ Finish(t) \/ Remember(t) \/ DropToken(t)
    BY <1>1, <2>5 DEF Charge, Finish, Remember, DropToken, MayDrop
  <2>. QED  BY <1>4, <2>1, <2>2, <2>3, <2>4, <2>5 DEF TaskStep
<1>5. ASSUME NEW t \in Tasks, Leaves(t) PROVE NoStaleReply' /\ NoWaiterLeft'
  BY <1>1, <1>5 DEF Leaves, Outcome, Silence
<1>6. ASSUME NEW c \in Callers,
             \/ Arrive(c) \/ AskTracked(c) \/ GiveUp(c) \/ TakeAnswer(c)
             \/ JoinedInVain(c) \/ Collect(c) \/ Respond(c)
             \/ DisconnectJoined(c) \/ DisconnectOwner(c)
      PROVE  NoStaleReply' /\ NoWaiterLeft'
  BY <1>1, <1>6 DEF Arrive, AskTracked, GiveUp, TakeAnswer, JoinedInVain, Collect,
                    Respond, DisconnectJoined, DisconnectOwner
<1>7. CASE DedupEvict \/ FailureExpires \/ \E p \in Callers \cup Tasks : DedupStep(p)
  BY <1>1, <1>7 DEF DedupEvict, FailureExpires, DedupStep
<1>. QED
  BY <1>2, <1>3, <1>4, <1>5, <1>6, <1>7 DEF Next, CallerStep, Disconnect

\* Where cached answers and messages come from.
LEMMA StepAnswers ==
    ASSUME DedupInv, NEW p \in Callers \cup Tasks, D!Step(p)
    PROVE  /\ \A r : entry' = D!Completed(r) =>
                entry = D!Completed(r) \/ (pc[p] = "sent" /\ reg[p] = r)
           /\ \A q \in Callers \cup Tasks :
                \/ msg'[q] = msg[q]
                \/ q = p /\ pc'[q] = "served" /\ msg'[q] \in Regs
                     /\ entry = D!Completed(msg'[q])
                \/ pc[q] = "waiting" /\ pc'[q] = "waiting" /\ reg'[q] = reg[q]
                     /\ reg[q] = reg[p] /\ pc[p] = "marked" /\ msg'[q] = reg[p]
                \/ pc[q] = "waiting" /\ pc'[q] = "waiting" /\ reg'[q] = reg[q]
                     /\ reg[q] = reg[p] /\ pc[p] = "cancelling" /\ msg'[q] = Cancelled
<1>1. /\ pc \in [Callers \cup Tasks -> D!Phases]
      /\ reg \in [Callers \cup Tasks -> Regs \cup {None}]
      /\ msg \in [Callers \cup Tasks -> Regs \cup {None, Cancelled}]
      /\ entry \in D!Entries
  BY DEF DedupInv, D!TypeOK
<1>. USE <1>1, EntryKinds DEF D!Goto
<1>2. CASE D!Lookup(p)
  <2>1. entry' = entry
    BY <1>2 DEF D!Lookup
  <2>2. CASE entry = D!Vacant
    BY <1>2, <2>1, <2>2 DEF D!Lookup, D!Vacant
  <2>3. CASE entry # D!Vacant /\ entry.state = "InProgress"
    <3>1. msg' = msg
      BY <1>2, <2>3 DEF D!Lookup
    <3>. QED  BY <2>1, <3>1
  <2>4. CASE entry # D!Vacant /\ entry.state # "InProgress"
    <3>1. /\ msg' = [msg EXCEPT ![p] = entry.id] /\ pc' = [pc EXCEPT ![p] = "served"]
          /\ entry.id \in Regs /\ entry = D!Completed(entry.id)
      BY <1>2, <2>4 DEF D!Lookup
    <3>. QED  BY <2>1, <3>1
  <2>. QED  BY <2>2, <2>3, <2>4
<1>3. CASE D!Subscribe(p) \/ D!Receive(p) \/ D!CheckDrop(p) \/ D!Free(p)
  BY <1>3 DEF D!Subscribe, D!Receive, D!CheckDrop, D!Free
<1>4. CASE D!SendResult(p)
  BY <1>4 DEF D!SendResult, D!Delivered
<1>5. CASE D!Publish(p)
  BY <1>5 DEF D!Publish, D!Published, D!EntryWithout
<1>6. CASE D!SendCancel(p)
  BY <1>6 DEF D!SendCancel, D!Delivered
<1>7. CASE D!ClearEntry(p)
  BY <1>7 DEF D!ClearEntry, D!EntryWithout
<1>. QED  BY <1>2, <1>3, <1>4, <1>5, <1>6, <1>7 DEF D!Step

LEMMA NextSettled == ChatInv /\ Next => Settled' /\ SharedAnswersPaid'
<1>. SUFFICES ASSUME ChatInv, Next PROVE Settled' /\ SharedAnswersPaid'
  OBVIOUS
<1>1. /\ DedupInv /\ ChatTypeOK /\ Embedding /\ TokensHeld /\ Settled /\ SharedAnswersPaid
      /\ pc \in [Callers \cup Tasks -> D!Phases]
      /\ reg \in [Callers \cup Tasks -> Regs \cup {None}]
      /\ msg \in [Callers \cup Tasks -> Regs \cup {None, Cancelled}]
      /\ entry \in D!Entries
  BY DEF ChatInv, DedupInv, D!TypeOK
<1>. USE ChatAssumption DEF ChatTypeOK, Settled, SharedAnswersPaid, Proceed, D!Goto
<1>2. ASSUME NEW c \in Callers, NEW t \in Tasks, NEW r \in Regs, AskNew(c, t, r)
      PROVE  Settled' /\ SharedAnswersPaid'
  <2>1. /\ pc' = [pc EXCEPT ![t] = "working"] /\ reg' = [reg EXCEPT ![t] = r]
        /\ msg' = msg /\ entry' = D!InProgress(r) /\ paid' = paid \ {r}
        /\ step' = [step EXCEPT ![t] = IF WithEmbedder THEN "embedding" ELSE "starting"]
    BY <1>2 DEF AskNew, D!RegisterNew
  <2>2. \A p \in Callers \cup Tasks : reg[p] # r /\ msg[p] # r
    BY <1>2 DEF AskNew, D!RegisterNew, D!InUse
  <2>3. Settled'
    BY <1>1, <2>1, <2>2
  <2>4. SharedAnswersPaid'
    BY <1>1, <2>1, <2>2, EntryKinds
  <2>. QED  BY <2>3, <2>4
<1>3. ASSUME NEW c \in Callers, SpawnTask(c) PROVE Settled' /\ SharedAnswersPaid'
  BY <1>1, <1>3 DEF SpawnTask, Embedding, dedupVars, sharedVars
<1>4. ASSUME NEW t \in Tasks, paid' = paid \cup {reg[t]}, D!Complete(t),
             step' = [step EXCEPT ![t] = "succeeded"]
      PROVE  Settled' /\ SharedAnswersPaid'
  BY <1>1, <1>4 DEF D!Complete
<1>5. ASSUME NEW c \in Callers, SemanticHit(c) PROVE Settled' /\ SharedAnswersPaid'
  BY <1>1, <1>4, <1>5 DEF SemanticHit, Embedding
<1>6. ASSUME NEW t \in Tasks, Finish(t) PROVE Settled' /\ SharedAnswersPaid'
  <2>1. paid' = paid \cup {reg[t]}
    BY <1>1, <1>6 DEF Finish
  <2>. QED  BY <1>4, <1>6, <2>1 DEF Finish
<1>7. ASSUME NEW t \in Tasks, D!Abandon(t), step' = [step EXCEPT ![t] = "failed"],
             paid' = paid
      PROVE  Settled' /\ SharedAnswersPaid'
  BY <1>1, <1>7 DEF D!Abandon
<1>8. ASSUME NEW c \in Callers, DisconnectEmbedding(c)
      PROVE  Settled' /\ SharedAnswersPaid'
  BY <1>1, <1>7, <1>8 DEF DisconnectEmbedding, Embedding, sharedVars
<1>9. ASSUME NEW t \in Tasks, DropToken(t) PROVE Settled' /\ SharedAnswersPaid'
  BY <1>7, <1>9 DEF DropToken, sharedVars
<1>10. ASSUME NEW c \in Callers, AskTracked(c) PROVE Settled' /\ SharedAnswersPaid'
  <2>1. /\ D!RegisterDuplicate(c) /\ step' = step /\ paid' = paid
    BY <1>10 DEF AskTracked, taskVars, sharedVars
  <2>2. /\ reg' = reg /\ entry' = entry
        /\ \E x \in {"joining", "served"} : pc' = [pc EXCEPT ![c] = x]
        /\ \/ msg' = msg
           \/ msg' = [msg EXCEPT ![c] = entry.id] /\ entry = D!Completed(entry.id)
    BY <1>1, <2>1, EntryKinds DEF D!RegisterDuplicate
  <2>. QED  BY <1>1, <2>1, <2>2, EntryKinds
<1>11. ASSUME NEW c \in Callers, TakeAnswer(c) \/ JoinedInVain(c) \/ DisconnectJoined(c)
       PROVE  Settled' /\ SharedAnswersPaid'
  <2>1. D!Leave(c) /\ step' = step /\ paid' = paid
    BY <1>11 DEF TakeAnswer, JoinedInVain, DisconnectJoined, taskVars, sharedVars
  <2>. QED  BY <1>1, <2>1 DEF D!Leave
<1>12. ASSUME NEW t \in Tasks, Charge(t) PROVE Settled' /\ SharedAnswersPaid'
  BY <1>1, <1>12 DEF Charge, Charged, dedupVars
<1>13. ASSUME NEW t \in Tasks,
              \/ Register(t) \/ Send(t) \/ SendFails(t) \/ Receive(t) \/ TimesOut(t)
              \/ Remember(t)
       PROVE  Settled' /\ SharedAnswersPaid'
  <2>1. \E x \in {"sending", "awaiting", "answered", "refused", "remembered"} :
          step' = [step EXCEPT ![t] = x]
    BY <1>13 DEF Register, Send, SendFails, Receive, TimesOut, Remember, Answered, Refused
  <2>2. UNCHANGED dedupVars /\ paid' = paid
    BY <1>13 DEF Register, Send, SendFails, Receive, TimesOut, Remember, sharedVars
  <2>. QED  BY <1>1, <2>1, <2>2 DEF dedupVars
<1>14. ASSUME NEW p \in Callers \cup Tasks, DedupStep(p)
       PROVE  Settled' /\ SharedAnswersPaid'
  <2>1. D!Step(p) /\ step' = step /\ paid' = paid
    BY <1>14 DEF DedupStep, taskVars, sharedVars
  <2>2. ASSUME NEW t \in Tasks,
               step'[t] = "charged" \/ pc'[t] \in {"marked", "sent"}
        PROVE  reg'[t] \in paid'
    <3>1. CASE p # t
      BY <1>1, <2>1, <2>2, <3>1, StepShape
    <3>2. CASE p = t /\ step[t] = "charged"
      <4>1. pc[t] = "working"
        BY <1>1, <3>2 DEF TokensHeld, Working
      <4>2. pc[p] # "working"
        BY <1>1, <2>1, StepShape
      <4>. QED  BY <3>2, <4>1, <4>2
    <3>3. CASE p = t /\ step[t] # "charged"
      BY <1>1, <2>1, <2>2, <3>3, StepShape
    <3>. QED  BY <3>1, <3>2, <3>3
  <2>3. ASSUME pc[p] \in {"marked", "sent"} PROVE reg[p] \in paid
    <3>1. p \in Tasks
      BY <1>1, <2>3 DEF TokensHeld
    <3>. QED  BY <1>1, <2>3, <3>1
  <2>4. ASSUME NEW r \in Regs, entry' = D!Completed(r) PROVE r \in paid'
    BY <1>1, <2>1, <2>3, <2>4, StepAnswers
  <2>5. ASSUME NEW c \in Callers, msg'[c] \in Regs PROVE msg'[c] \in paid'
    BY <1>1, <2>1, <2>3, <2>5, StepAnswers
  <2>. QED  BY <2>2, <2>4, <2>5
<1>15. ASSUME UNCHANGED dedupVars, UNCHANGED <<step, paid>>
       PROVE  Settled' /\ SharedAnswersPaid'
  BY <1>1, <1>15 DEF dedupVars
<1>16. ASSUME NEW c \in Callers,
              Arrive(c) \/ GiveUp(c) \/ Collect(c) \/ Respond(c) \/ DisconnectOwner(c)
       PROVE  Settled' /\ SharedAnswersPaid'
  BY <1>15, <1>16
     DEF Arrive, GiveUp, Collect, Respond, DisconnectOwner, taskVars, sharedVars
<1>17. ASSUME NEW t \in Tasks, Leaves(t) PROVE Settled' /\ SharedAnswersPaid'
  BY <1>15, <1>17 DEF Leaves, Outcome, Silence, sharedVars
<1>18. CASE FailureExpires
  BY <1>15, <1>18 DEF FailureExpires, taskVars
<1>19. CASE DedupEvict
  <2>1. entry' = D!Vacant /\ UNCHANGED <<pc, reg, msg, step, paid>>
    BY <1>19 DEF DedupEvict, D!Evict, taskVars, sharedVars
  <2>. QED  BY <1>1, <2>1, EntryKinds
<1>. QED
  BY <1>2, <1>3, <1>5, <1>6, <1>8, <1>9, <1>10, <1>11, <1>12, <1>13, <1>14,
     <1>16, <1>17, <1>18, <1>19 DEF Next, CallerStep, Disconnect, TaskStep

LEMMA NextCancellations == ChatInv /\ Next => Cancellations'
<1>. SUFFICES ASSUME ChatInv, Next PROVE Cancellations'
  OBVIOUS
<1>1. /\ DedupInv /\ ChatTypeOK /\ Embedding /\ TokensHeld /\ Cancellations
      /\ pc \in [Callers \cup Tasks -> D!Phases]
      /\ reg \in [Callers \cup Tasks -> Regs \cup {None}]
      /\ msg \in [Callers \cup Tasks -> Regs \cup {None, Cancelled}]
      /\ entry \in D!Entries
  BY DEF ChatInv, DedupInv, D!TypeOK
<1>. USE ChatAssumption DEF ChatTypeOK, Cancellations, D!Goto
<1>2. ASSUME NEW c \in Callers, NEW t \in Tasks, NEW r \in Regs, AskNew(c, t, r)
      PROVE  Cancellations'
  <2>1. /\ pc' = [pc EXCEPT ![t] = "working"] /\ reg' = [reg EXCEPT ![t] = r]
        /\ msg' = msg /\ \A p \in Callers \cup Tasks : reg[p] # r
    BY <1>2 DEF AskNew, D!RegisterNew, D!InUse
  <2>. QED  BY <1>1, <2>1
<1>3. ASSUME NEW t \in Tasks, D!Complete(t) \/ D!Abandon(t) PROVE Cancellations'
  <2>1. /\ \E x \in {"marked", "dropping"} : pc' = [pc EXCEPT ![t] = x]
        /\ UNCHANGED <<reg, msg>>
    BY <1>3 DEF D!Complete, D!Abandon
  <2>. QED  BY <1>1, <2>1
<1>4. ASSUME NEW c \in Callers, SemanticHit(c) \/ DisconnectEmbedding(c)
      PROVE  Cancellations'
  BY <1>1, <1>3, <1>4 DEF SemanticHit, DisconnectEmbedding, Embedding
<1>5. ASSUME NEW t \in Tasks, Finish(t) \/ DropToken(t) PROVE Cancellations'
  BY <1>3, <1>5 DEF Finish, DropToken
<1>6. ASSUME NEW c \in Callers, AskTracked(c) PROVE Cancellations'
  <2>1. D!RegisterDuplicate(c)
    BY <1>6 DEF AskTracked
  <2>2. CASE entry.state = "InProgress"
    <3>1. pc' = [pc EXCEPT ![c] = "joining"] /\ UNCHANGED <<reg, msg>> /\ pc[c] = "idle"
      BY <2>1, <2>2 DEF D!RegisterDuplicate
    <3>. QED  BY <1>1, <3>1
  <2>3. CASE entry.state # "InProgress"
    <3>1. /\ pc' = [pc EXCEPT ![c] = "served"] /\ reg' = reg
          /\ msg' = [msg EXCEPT ![c] = entry.id] /\ entry.id \in Regs
      BY <1>1, <2>1, <2>3, EntryKinds DEF D!RegisterDuplicate
    <3>. QED  BY <1>1, <3>1
  <2>. QED  BY <2>2, <2>3
<1>7. ASSUME NEW c \in Callers, TakeAnswer(c) \/ JoinedInVain(c) \/ DisconnectJoined(c)
      PROVE  Cancellations'
  <2>1. D!Leave(c)
    BY <1>7 DEF TakeAnswer, JoinedInVain, DisconnectJoined
  <2>. QED  BY <1>1, <2>1 DEF D!Leave
<1>8. ASSUME NEW p \in Callers \cup Tasks, DedupStep(p) PROVE Cancellations'
  <2>1. D!Step(p)
    BY <1>8 DEF DedupStep
  <2>2. ASSUME NEW c \in Callers, msg'[c] # None PROVE pc'[c] \in {"waiting", "served"}
    <3>1. CASE msg'[c] = msg[c] /\ c # p
      BY <1>1, <2>1, <2>2, <3>1, StepShape
    <3>2. CASE msg'[c] = msg[c] /\ c = p
      <4>1. pc[c] \in {"waiting", "served"}
        BY <1>1, <2>2, <3>2
      <4>2. pc[c] = "waiting" /\ D!Receive(c)
        BY <2>1, <3>2, <4>1
           DEF D!Step, D!Lookup, D!Subscribe, D!Receive, D!SendResult, D!Publish,
               D!CheckDrop, D!SendCancel, D!ClearEntry, D!Free
      <4>3. pc' = [pc EXCEPT ![c] = "served"]
        BY <2>2, <3>2, <4>2 DEF D!Receive
      <4>. QED  BY <1>1, <4>3
    <3>3. CASE msg'[c] # msg[c]
      BY <1>1, <2>1, <3>3, StepAnswers
    <3>. QED  BY <3>1, <3>2, <3>3
  <2>3. ASSUME NEW c \in Callers, NEW t \in Tasks,
               msg'[c] = Cancelled, reg'[c] = reg'[t], reg'[c] # None,
               pc'[t] = "working"
        PROVE  FALSE
    <3>1. p # t /\ pc[t] = "working" /\ reg'[t] = reg[t]
      BY <1>1, <2>1, <2>3, StepShape
    <3>2. CASE msg'[c] = msg[c]
      <4>1. pc[c] \in {"waiting", "served"}
        BY <1>1, <2>3, <3>2
      <4>2. reg'[c] = reg[c]
        <5>1. CASE c # p
          BY <1>1, <2>1, <5>1, StepShape
        <5>2. CASE c = p
          <6>1. D!Receive(c)
            BY <2>1, <4>1, <5>2
               DEF D!Step, D!Lookup, D!Subscribe, D!Receive, D!SendResult, D!Publish,
                   D!CheckDrop, D!SendCancel, D!ClearEntry, D!Free
          <6>. QED  BY <6>1 DEF D!Receive
        <5>. QED  BY <5>1, <5>2
      <4>. QED  BY <1>1, <2>3, <3>1, <3>2, <4>2
    <3>3. CASE msg'[c] # msg[c]
      <4>1. reg'[c] = reg[c] /\ reg[c] = reg[p] /\ pc[p] = "cancelling"
        BY <1>1, <2>1, <2>3, <3>3, StepAnswers
      <4>2. reg[p] = reg[t] /\ pc[p] \in D!TokenPhases /\ pc[t] \in D!TokenPhases
        BY <2>3, <3>1, <4>1
      <4>3. p = t
        BY <1>1, <4>2 DEF DedupInv
      <4>. QED  BY <3>1, <4>3
    <3>. QED  BY <3>2, <3>3
  <2>. QED  BY <2>2, <2>3
<1>9. CASE UNCHANGED <<pc, reg, msg>>
  BY <1>1, <1>9
<1>10. ASSUME NEW c \in Callers,
              \/ Arrive(c) \/ GiveUp(c) \/ Collect(c) \/ Respond(c) \/ DisconnectOwner(c)
              \/ SpawnTask(c)
       PROVE  Cancellations'
  BY <1>9, <1>10
     DEF Arrive, GiveUp, Collect, Respond, DisconnectOwner, SpawnTask, dedupVars
<1>11. ASSUME NEW t \in Tasks,
              \/ Register(t) \/ Send(t) \/ SendFails(t) \/ Receive(t) \/ TimesOut(t)
              \/ Charge(t) \/ Remember(t) \/ Leaves(t)
       PROVE  Cancellations'
  BY <1>9, <1>11 DEF Register, Send, SendFails, Receive, TimesOut, Charge, Remember,
                     Leaves, Outcome, Silence, dedupVars
<1>12. CASE DedupEvict \/ FailureExpires
  BY <1>9, <1>12 DEF DedupEvict, D!Evict, FailureExpires, dedupVars
<1>. QED
  BY <1>2, <1>4, <1>5, <1>6, <1>7, <1>8, <1>10, <1>11, <1>12
     DEF Next, CallerStep, Disconnect, TaskStep

LEMMA NextRemembered == ChatInv /\ Next => Remembered'
<1>. SUFFICES ASSUME ChatInv, Next PROVE Remembered'
  OBVIOUS
<1>1. /\ DedupInv /\ ChatTypeOK /\ Embedding /\ TokensHeld /\ Remembered
      /\ pc \in [Callers \cup Tasks -> D!Phases]
      /\ reg \in [Callers \cup Tasks -> Regs \cup {None}]
  BY DEF ChatInv, DedupInv, D!TypeOK
<1>. USE ChatAssumption DEF ChatTypeOK, Remembered, Proceed, D!Goto
<1>2. ASSUME NEW c \in Callers, NEW t \in Tasks, NEW r \in Regs, AskNew(c, t, r)
      PROVE  Remembered'
  <2>1. /\ reg' = [reg EXCEPT ![t] = r] /\ errored' = errored \ {r}
        /\ \E x \in StepPhases : step' = [step EXCEPT ![t] = x]
        /\ UNCHANGED <<failure, forgot>> /\ pc[t] = "idle"
    BY <1>2 DEF AskNew, D!RegisterNew, Unused, StepPhases, Uncharged
  <2>2. step[t] # "refused"
    BY <1>1, <2>1 DEF TokensHeld, Working
  <2>. QED  BY <1>1, <2>1, <2>2
<1>3. ASSUME NEW t \in Tasks, step[t] \in StepPhases \ {"refused"},
             \E x \in StepPhases : step' = [step EXCEPT ![t] = x],
             UNCHANGED <<reg, errored>>, failure' = failure, forgot' = forgot
      PROVE  Remembered'
  BY <1>1, <1>3
<1>4. ASSUME NEW c \in Callers, SpawnTask(c) \/ SemanticHit(c) \/ DisconnectEmbedding(c)
      PROVE  Remembered'
  <2>1. /\ job[c] \in Tasks /\ step[job[c]] = "embedding"
        /\ UNCHANGED <<reg, errored, failure, forgot>>
        /\ \E x \in StepPhases : step' = [step EXCEPT ![job[c]] = x]
    BY <1>1, <1>4 DEF SpawnTask, SemanticHit, DisconnectEmbedding, Embedding, StepPhases,
                      Uncharged, dedupVars, sharedVars, D!Complete, D!Abandon
  <2>2. step[job[c]] \in StepPhases \ {"refused"}
    BY <2>1 DEF StepPhases, Uncharged
  <2>. QED  BY <1>3, <2>1, <2>2
<1>5. ASSUME NEW t \in Tasks, Refused(t), step[t] \in StepPhases \ {"refused"},
             reg' = reg, failure' = failure, forgot' = forgot
      PROVE  Remembered'
  BY <1>1, <1>5 DEF Refused, StepPhases
<1>6. ASSUME NEW t \in Tasks, Register(t) \/ SendFails(t) \/ Receive(t) \/ TimesOut(t)
      PROVE  Remembered'
  <2>1. /\ step[t] \in StepPhases \ {"refused"}
        /\ reg' = reg /\ UNCHANGED <<failure, forgot>>
    BY <1>6 DEF Register, SendFails, Receive, TimesOut, dedupVars, StepPhases, Uncharged
  <2>2. \/ Refused(t)
        \/ UNCHANGED errored /\ \E x \in StepPhases : step' = [step EXCEPT ![t] = x]
    BY <1>6 DEF Register, SendFails, Receive, TimesOut, Answered, StepPhases, Uncharged
  <2>. QED  BY <1>3, <1>5, <2>1, <2>2
<1>7. ASSUME NEW t \in Tasks, Send(t) \/ Charge(t) \/ DropToken(t) PROVE Remembered'
  <2>1. /\ step[t] \in StepPhases \ {"refused"}
        /\ UNCHANGED <<reg, errored, failure, forgot>>
        /\ \E x \in StepPhases : step' = [step EXCEPT ![t] = x]
    BY <1>7 DEF Send, Charge, DropToken, MayDrop, dedupVars, sharedVars, D!Abandon,
                StepPhases, Uncharged
  <2>. QED  BY <1>3, <2>1
<1>8. ASSUME NEW t \in Tasks, Remember(t) \/ Finish(t) PROVE Remembered'
  BY <1>8 DEF Remember, Finish
<1>9. CASE FailureExpires
  BY <1>9 DEF FailureExpires
<1>10. ASSUME UNCHANGED <<step, errored>>, failure' = failure, forgot' = forgot,
              \A t \in Tasks : step[t] = "refused" => reg'[t] = reg[t]
       PROVE  Remembered'
  BY <1>1, <1>10
<1>11. ASSUME NEW p \in Callers \cup Tasks, DedupStep(p) PROVE Remembered'
  <2>1. D!Step(p) /\ UNCHANGED <<step, errored, failure, forgot>>
    BY <1>11 DEF DedupStep, taskVars, sharedVars
  <2>2. ASSUME NEW t \in Tasks, step[t] = "refused" PROVE reg'[t] = reg[t]
    <3>1. pc[t] = "working"
      BY <1>1, <2>2 DEF TokensHeld, Working
    <3>2. pc[p] # "working"
      BY <1>1, <2>1, StepShape
    <3>. QED  BY <1>1, <2>1, <3>1, <3>2, StepShape
  <2>. QED  BY <1>10, <2>1, <2>2
<1>12. ASSUME NEW c \in Callers,
              AskTracked(c) \/ TakeAnswer(c) \/ JoinedInVain(c) \/ DisconnectJoined(c)
       PROVE  Remembered'
  <2>1. D!RegisterDuplicate(c) \/ D!Leave(c)
    BY <1>12 DEF AskTracked, TakeAnswer, JoinedInVain, DisconnectJoined
  <2>2. \A t \in Tasks : reg'[t] = reg[t]
    BY <1>1, <2>1 DEF D!RegisterDuplicate, D!Leave
  <2>3. UNCHANGED <<step, errored, failure, forgot>>
    BY <1>12 DEF AskTracked, TakeAnswer, JoinedInVain, DisconnectJoined, taskVars,
                 sharedVars
  <2>. QED  BY <1>10, <2>2, <2>3
<1>13. ASSUME NEW c \in Callers,
              Arrive(c) \/ GiveUp(c) \/ Collect(c) \/ Respond(c) \/ DisconnectOwner(c)
       PROVE  Remembered'
  BY <1>10, <1>13 DEF Arrive, GiveUp, Collect, Respond, DisconnectOwner, dedupVars,
                      taskVars, sharedVars
<1>14. ASSUME NEW t \in Tasks, Leaves(t) PROVE Remembered'
  BY <1>10, <1>14 DEF Leaves, Outcome, Silence, dedupVars, sharedVars
<1>15. CASE DedupEvict
  BY <1>10, <1>15 DEF DedupEvict, D!Evict, taskVars, sharedVars
<1>. QED
  BY <1>2, <1>4, <1>6, <1>7, <1>8, <1>9, <1>11, <1>12, <1>13, <1>14, <1>15
     DEF Next, CallerStep, Disconnect, TaskStep

LEMMA NextChat == ChatInv /\ [Next]_vars => ChatInv'
<1>. SUFFICES ASSUME ChatInv, [Next]_vars PROVE ChatInv'
  OBVIOUS
<1>1. CASE Next
  <2>1. DedupInv'
    BY <1>1, StepIsDedup, DedupKeeps DEF ChatInv
  <2>. QED
    BY <1>1, <2>1, NextChatType, NextEmbedding, NextTokens, NextWaiters, NextSettled,
       NextCancellations, NextRemembered DEF ChatInv
<1>2. CASE UNCHANGED vars
  BY <1>2 DEF vars, dedupVars, callerVars, taskVars, sharedVars, ChatInv, DedupInv,
              D!TypeOK, ChatTypeOK, JoinsInTime, Embedding, TokensHeld, NoStaleReply,
              NoWaiterLeft, Settled, SharedAnswersPaid, Cancellations, Remembered
<1>. QED  BY <1>1, <1>2

LEMMA AlwaysChat == Spec => []ChatInv
<1>. QED  BY InitChat, NextChat, PTL DEF Spec

-----------------------------------------------------------------------------
(* The theorems.                                                           *)

\* Type correctness of the endpoint and of the deduplicator inside it
\* (web_api/openai_compat.rs, enhanced/dedup.rs).
THEOREM ChatTypeCorrect == Spec => []TypeOK
<1>1. ChatInv => TypeOK
  BY DEF ChatInv, ChatTypeOK, DedupInv, TypeOK
<1>. QED  BY <1>1, AlwaysChat, PTL

\* The endpoint uses the deduplicator only in the ways its specification
\* allows: what callers, tasks, timeouts and disconnects do to it is a
\* behaviour of Dedup, so what holds of Dedup holds inside the endpoint.
THEOREM EndpointUsesDedup == Spec => D!Spec
<1>1. Init => D!Init
  BY DEF Init
<1>2. ChatInv /\ [Next]_vars => [D!Next]_dedupVars
  BY StepIsDedup DEF ChatInv
<1>3. [D!Next]_dedupVars <=> [D!Next]_(D!vars)
  BY DEF dedupVars, D!vars
<1>. QED  BY <1>1, <1>2, <1>3, AlwaysChat, PTL DEF Spec, D!Spec

\* No entry of the waiters' map outlives the call that made it, whatever the
\* order of answer, dead letter, refusal and timeout (run_pipeline, resolve).
THEOREM NobodyWaitsForNothing == Spec => []NoWaiterLeft
<1>1. ChatInv => NoWaiterLeft
  BY DEF ChatInv
<1>. QED  BY <1>1, AlwaysChat, PTL

\* No answer reaches the cache or a caller that joined before its call is
\* charged, whoever disconnected meanwhile (complete, and the spawned task).
THEOREM NothingSharedUnpaid == Spec => []SharedAnswersPaid
<1>1. ChatInv => SharedAnswersPaid
  BY DEF ChatInv
<1>. QED  BY <1>1, AlwaysChat, PTL

\* A caller that is told its join was cancelled finds the failure remembered,
\* unless it expired or was cleared since (complete: remember_failure is
\* called before the token is dropped).
THEOREM JoinersLearnOfFailure == Spec => []FailureKnownToJoiners
<1>1. ChatInv => FailureKnownToJoiners
  <2>. SUFFICES ASSUME ChatInv, NEW c \in Callers, msg[c] = Cancelled, reg[c] \in errored
                PROVE  failure \/ forgot
    BY DEF FailureKnownToJoiners
  <2>1. reg[c] # None
    BY ChatAssumption DEF ChatInv, ChatTypeOK
  <2>2. ASSUME NEW t \in Tasks, reg[t] = reg[c], step[t] = "refused" PROVE FALSE
    <3>1. pc[t] = "working"
      BY <2>2 DEF ChatInv, TokensHeld, Working
    <3>2. pc[t] # "working"
      BY <2>1, <2>2 DEF ChatInv, Cancellations
    <3>. QED  BY <3>1, <3>2
  <2>. QED  BY <2>2 DEF ChatInv, Remembered
<1>. QED  BY <1>1, AlwaysChat, PTL

-----------------------------------------------------------------------------
(* What is proved of Dedup holds inside the endpoint.  DedupProofs speaks   *)
(* of the same deduplicator: its definitions are those of D.                *)

Inner == INSTANCE DedupProofs WITH
        Clients <- Callers \cup Tasks, Regs <- Regs, None <- None,
        Cancelled <- Cancelled, CacheResults <- CacheResults,
        AllowClones <- FALSE, entry <- entry, pc <- pc, reg <- reg,
        msg <- msg, completed <- completed, lost <- lost

LEMMA SameParts ==
    /\ Inner!Vacant = D!Vacant /\ Inner!TokenPhases = D!TokenPhases
    /\ \A r : Inner!InProgress(r) = D!InProgress(r) /\ Inner!Completed(r) = D!Completed(r)
    /\ \A r : Inner!Holders(r) = D!Holders(r)
    /\ \A S : Inner!Cardinality(S) = D!Cardinality(S)
<1>1. \A S : Inner!Cardinality(S) = D!Cardinality(S)
  BY DEF Inner!Cardinality, D!Cardinality
<1>. QED
  BY <1>1
     DEF Inner!Vacant, D!Vacant, Inner!InProgress, D!InProgress, Inner!Completed, D!Completed,
         Inner!Holders, D!Holders, Inner!TokenPhases, D!TokenPhases,
         Inner!InComplete, D!InComplete, Inner!InDrop, D!InDrop

\* The tests that callers and tasks make.
LEMMA SameTests ==
    ASSUME NEW r
    PROVE  /\ Inner!Closed(r) <=> D!Closed(r)
           /\ Inner!InUse(r) <=> D!InUse(r)
           /\ Inner!MustCancel(r) <=> D!MustCancel(r)
           /\ Inner!EntryWithout(r) = D!EntryWithout(r)
           /\ Inner!Published(r) = D!Published(r)
           /\ \A v : Inner!Delivered(r, v) = D!Delivered(r, v)
<1>1. Inner!EntryWithout(r) = D!EntryWithout(r)
  BY SameParts DEF Inner!EntryWithout, D!EntryWithout
<1>2. \A v : Inner!Delivered(r, v) = D!Delivered(r, v)
  BY DEF Inner!Delivered, D!Delivered
<1>3. Inner!MustCancel(r) <=> D!MustCancel(r)
  BY SameParts DEF Inner!MustCancel, D!MustCancel
<1>4. (Inner!Closed(r) <=> D!Closed(r)) /\ (Inner!InUse(r) <=> D!InUse(r))
  BY SameParts DEF Inner!Closed, D!Closed, Inner!InUse, D!InUse
<1>5. Inner!Published(r) = D!Published(r)
  BY <1>1, SameParts DEF Inner!Published, D!Published
<1>. QED  BY <1>1, <1>2, <1>3, <1>4, <1>5

LEMMA SameNext == D!Next => Inner!Next
<1>1. \A p, phase : D!Goto(p, phase) <=> Inner!Goto(p, phase)
  BY DEF D!Goto, Inner!Goto
<1>2. ASSUME NEW p \in Callers \cup Tasks, NEW r \in Regs, D!RegisterNew(p, r)
      PROVE  Inner!RegisterNew(p, r)
  BY <1>1, <1>2, SameParts, SameTests DEF D!RegisterNew, Inner!RegisterNew
<1>3. ASSUME NEW p \in Callers \cup Tasks, D!RegisterDuplicate(p) \/ D!Resolve(p) \/ D!Leave(p)
      PROVE  Inner!RegisterDuplicate(p) \/ Inner!Resolve(p) \/ Inner!Leave(p)
  BY <1>1, <1>3, SameParts, SameTests
     DEF D!RegisterDuplicate, Inner!RegisterDuplicate, D!Resolve, Inner!Resolve,
         D!Complete, Inner!Complete, D!Fail, Inner!Fail, D!Abandon, Inner!Abandon,
         D!Leave, Inner!Leave
<1>4. ASSUME NEW p \in Callers \cup Tasks, D!Step(p) PROVE Inner!Step(p)
  <2>1. CASE D!Lookup(p)
    BY <1>1, <2>1, SameParts DEF D!Lookup, Inner!Lookup, Inner!Step
  <2>2. CASE D!Subscribe(p) \/ D!Receive(p)
    BY <1>1, <2>2, SameTests
       DEF D!Subscribe, Inner!Subscribe, D!Receive, Inner!Receive, Inner!Step
  <2>3. CASE D!SendResult(p) \/ D!Publish(p) \/ D!CheckDrop(p)
    BY <1>1, <2>3, SameTests
       DEF D!SendResult, Inner!SendResult, D!Publish, Inner!Publish,
           D!CheckDrop, Inner!CheckDrop, Inner!Step
  <2>4. CASE D!SendCancel(p) \/ D!ClearEntry(p) \/ D!Free(p)
    BY <1>1, <2>4, SameTests
       DEF D!SendCancel, Inner!SendCancel, D!ClearEntry, Inner!ClearEntry,
           D!Free, Inner!Free, Inner!Step
  <2>. QED  BY <1>4, <2>1, <2>2, <2>3, <2>4 DEF D!Step
<1>5. ASSUME D!Evict PROVE Inner!Evict
  BY <1>5, SameParts DEF D!Evict, Inner!Evict
<1>6. ASSUME NEW p, NEW q, D!Share(p, q) PROVE FALSE
  BY <1>6 DEF D!Share
<1>. QED  BY <1>2, <1>3, <1>4, <1>5, <1>6 DEF D!Next, Inner!Next

LEMMA SameSpec == D!Spec => Inner!Spec
<1>1. D!Init => Inner!Init
  BY SameParts DEF D!Init, Inner!Init
<1>2. [D!Next]_(D!vars) => [Inner!Next]_(Inner!vars)
  BY SameNext DEF D!vars, Inner!vars
<1>. QED BY <1>1, <1>2, PTL DEF D!Spec, Inner!Spec

LEMMA InnerAssumption == Inner!DedupAssumption
<1>1. IsFiniteSet(Callers \cup Tasks)
  BY ChatAssumption, FS_Union
<1>. QED
  BY <1>1, ChatAssumption DEF Inner!DedupAssumption, Inner!IsFiniteSet, IsFiniteSet


\* Inside the endpoint, for any number of callers and tasks and however they
\* disconnect, time out and fail: one task at a time pays for a prompt unless
\* the cache dropped its entry, no prompt stays blocked by a task that is gone,
\* and nobody who joined a call is left waiting for it.
THEOREM EndpointIsSingleFlight ==
    Spec => [](D!SingleFlight /\ D!NoOrphan /\ Inner!WaitersAttended)
<1>1. Inner!Spec => []Inner!SingleFlight
  BY InnerAssumption, Inner!OneWorkerPerKey
<1>2. Inner!Spec => []Inner!NoOrphan
  BY InnerAssumption, Inner!NoEntryOrphaned
<1>3. Inner!Spec => []Inner!WaitersAttended
  BY InnerAssumption, Inner!NobodyLeftWaiting
<1>4. Inner!SingleFlight => D!SingleFlight
  BY DEF Inner!SingleFlight, D!SingleFlight
<1>5. Inner!NoOrphan => D!NoOrphan
  BY SameParts DEF Inner!NoOrphan, D!NoOrphan
<1>. QED  BY <1>1, <1>2, <1>3, <1>4, <1>5, SameSpec, EndpointUsesDedup, PTL

-----------------------------------------------------------------------------
(* The spend cap.                                                          *)

\* Fewer calls are pending when neither set grows.
LEMMA PendingShrinks ==
    ASSUME Unsettled' \subseteq Unsettled, InWork' \subseteq InWork
    PROVE  Pending' <= Pending
<1>1. PendingType /\ PendingType'
  BY PendingType, PTL
<1>2. Cardinality(Unsettled') <= Cardinality(Unsettled)
  BY <1>1, FS_Subset
<1>3. Cardinality(InWork') <= Cardinality(InWork)
  BY <1>1, FS_Subset
<1>. QED  BY <1>1, <1>2, <1>3

\* The overshoot is bounded while the cap is not reached again.
LEMMA BoundKept ==
    ASSUME ChatTypeOK, ChatTypeOK', OvershootBounded,
           UNCHANGED <<spent, racing>>, spent >= SpendCap => Pending' <= Pending
    PROVE  OvershootBounded'
<1>1. Pending \in Nat /\ Pending' \in Nat
  <2>1. PendingType /\ PendingType'
    BY PendingType, PTL
  <2>. QED  BY <2>1
<1>2. /\ spent \in Nat /\ racing \in Nat /\ SpendCap \in Nat
      /\ spent' = spent /\ racing' = racing
  BY ChatAssumption DEF ChatTypeOK
<1>3. CASE spent >= SpendCap
  <2>1. spent + Pending <= SpendCap + racing /\ Pending' <= Pending
    BY <1>3 DEF OvershootBounded
  <2>2. ASSUME NEW a \in Nat, NEW b \in Nat, NEW d \in Nat, NEW e \in Nat,
               d + a <= e, b <= a
        PROVE  d + b <= e
    BY <2>2
  <2>3. SpendCap + racing \in Nat
    BY <1>2
  <2>4. spent + Pending' <= SpendCap + racing
    BY <1>1, <1>2, <2>1, <2>2, <2>3
  <2>5. spent' + Pending' <= SpendCap + racing'
    BY <1>2, <2>4
  <2>. QED  BY <2>5 DEF OvershootBounded
<1>4. CASE ~(spent >= SpendCap)
  BY <1>4 DEF OvershootBounded
<1>. QED  BY <1>3, <1>4

LEMMA NextOvershoot ==
    ChatInv /\ ChatInv' /\ OvershootBounded /\ [Next]_vars => OvershootBounded'
<1>. SUFFICES ASSUME ChatInv, ChatInv', OvershootBounded, [Next]_vars
              PROVE  OvershootBounded'
  OBVIOUS
<1>1. ChatTypeOK /\ ChatTypeOK' /\ Embedding
  BY DEF ChatInv
<1>2. ASSUME UNCHANGED <<spent, racing>>,
             \A c \in Callers : call'[c] \in {"asking", "joining"} =>
                call[c] \in {"asking", "joining"},
             \A t \in Tasks : step'[t] \in Uncharged => step[t] \in Uncharged
      PROVE  OvershootBounded'
  <2>1. Unsettled' \subseteq Unsettled /\ InWork' \subseteq InWork
    BY <1>2 DEF Unsettled, InWork, Uncharged
  <2>. QED  BY <1>1, <1>2, <2>1, PendingShrinks, BoundKept
<1>. USE DEF ChatTypeOK, Become, Proceed, callerVars, taskVars, sharedVars
<1>3. ASSUME NEW c \in Callers, Arrive(c) PROVE OvershootBounded'
  <2>1. UNCHANGED <<spent, racing, step>>
    BY <1>3 DEF Arrive
  <2>2. CASE Admitted
    <3>1. ~(spent >= SpendCap)
      BY <1>1, <2>2, ChatAssumption DEF Admitted
    <3>. QED  BY <1>1, <2>1, <3>1, BoundKept
  <2>3. CASE ~Admitted
    BY <1>1, <1>2, <1>3, <2>1, <2>3 DEF Arrive
  <2>. QED  BY <2>2, <2>3
<1>4. ASSUME NEW c \in Callers, NEW t \in Tasks, NEW r \in Regs, AskNew(c, t, r)
      PROVE  OvershootBounded'
  <2>1. c \in Unsettled /\ Unsettled' \subseteq Unsettled \ {c}
    BY <1>1, <1>4 DEF AskNew, Unsettled
  <2>2. InWork' \subseteq InWork \cup {t}
    BY <1>1, <1>4 DEF AskNew, InWork
  <2>3. PendingType /\ PendingType'
    BY PendingType, PTL
  <2>4. Cardinality(Unsettled') <= Cardinality(Unsettled) - 1
    <3>1. /\ IsFiniteSet(Unsettled \ {c})
          /\ Cardinality(Unsettled \ {c}) = Cardinality(Unsettled) - 1
      BY <2>1, <2>3, FS_RemoveElement
    <3>. QED  BY <2>1, <3>1, FS_Subset
  <2>5. Cardinality(InWork') <= Cardinality(InWork) + 1
    <3>0. IsFiniteSet(InWork) /\ Cardinality(InWork) \in Nat
      BY <2>3
    <3>1. /\ IsFiniteSet(InWork \cup {t})
          /\ Cardinality(InWork \cup {t}) <= Cardinality(InWork) + 1
      <4>. DEFINE S == InWork
      <4>. HIDE DEF S
      <4>1. IsFiniteSet(S) /\ Cardinality(S) \in Nat
        BY <3>0 DEF S
      <4>2. /\ IsFiniteSet(S \cup {t})
            /\ Cardinality(S \cup {t}) =
                 IF t \in S THEN Cardinality(S) ELSE Cardinality(S) + 1
        BY <4>1, FS_AddElement
      <4>3. Cardinality(S \cup {t}) <= Cardinality(S) + 1
        BY <4>1, <4>2
      <4>. QED  BY <4>2, <4>3 DEF S
    <3>2. Cardinality(InWork') <= Cardinality(InWork \cup {t})
      BY <2>2, <3>1, FS_Subset
    <3>3. Cardinality(InWork \cup {t}) \in Nat
      BY <3>1, FS_CardinalityType
    <3>. QED  BY <2>3, <3>1, <3>2, <3>3
  <2>6. Pending' <= Pending
    BY <2>3, <2>4, <2>5
  <2>7. UNCHANGED <<spent, racing>>
    BY <1>4 DEF AskNew
  <2>. QED  BY <1>1, <2>6, <2>7, BoundKept
<1>5. ASSUME NEW c \in Callers,
             \/ AskTracked(c) \/ GiveUp(c) \/ TakeAnswer(c) \/ JoinedInVain(c)
             \/ Collect(c) \/ Respond(c) \/ DisconnectJoined(c) \/ DisconnectOwner(c)
      PROVE  OvershootBounded'
  <2>1. UNCHANGED <<spent, racing, step>>
    BY <1>5 DEF AskTracked, GiveUp, TakeAnswer, JoinedInVain, Collect, Respond,
                DisconnectJoined, DisconnectOwner
  <2>2. \A d \in Callers : call'[d] \in {"asking", "joining"} =>
           call[d] \in {"asking", "joining"}
    BY <1>1, <1>5 DEF AskTracked, GiveUp, TakeAnswer, JoinedInVain, Collect, Respond,
                      DisconnectJoined, DisconnectOwner
  <2>. QED  BY <1>2, <2>1, <2>2
<1>6. ASSUME NEW c \in Callers, SpawnTask(c) \/ SemanticHit(c) \/ DisconnectEmbedding(c)
      PROVE  OvershootBounded'
  <2>1. job[c] \in Tasks /\ step[job[c]] = "embedding"
    BY <1>1, <1>6 DEF SpawnTask, SemanticHit, DisconnectEmbedding, Embedding
  <2>2. /\ UNCHANGED <<spent, racing>>
        /\ \E x \in {"owning", "idle"} : call' = [call EXCEPT ![c] = x]
        /\ \E x \in {"starting", "succeeded", "failed"} :
             step' = [step EXCEPT ![job[c]] = x]
    BY <1>6 DEF SpawnTask, SemanticHit, DisconnectEmbedding
  <2>. QED  BY <1>1, <1>2, <2>1, <2>2 DEF Uncharged
<1>7. ASSUME NEW t \in Tasks,
             \/ Register(t) \/ Send(t) \/ SendFails(t) \/ Receive(t) \/ TimesOut(t)
             \/ Remember(t) \/ DropToken(t) \/ Finish(t)
      PROVE  OvershootBounded'
  <2>1. UNCHANGED <<spent, racing, call>>
    BY <1>7 DEF Register, Send, SendFails, Receive, TimesOut, Remember, DropToken, Finish
  <2>2. \A u \in Tasks : step'[u] \in Uncharged => step[u] \in Uncharged
    BY <1>1, <1>7 DEF Register, Send, SendFails, Receive, TimesOut, Remember, DropToken,
                      Finish, Answered, Refused, Uncharged
  <2>. QED  BY <1>2, <2>1, <2>2
<1>8. ASSUME NEW t \in Tasks, Charge(t) PROVE OvershootBounded'
  <2>1. PendingType /\ PendingType'
    BY PendingType, PTL
  <2>2. t \in InWork /\ InWork' \subseteq InWork \ {t} /\ Unsettled' = Unsettled
    BY <1>1, <1>8 DEF Charge, InWork, Unsettled, Uncharged
  <2>3. Cardinality(InWork') <= Cardinality(InWork) - 1
    <3>1. /\ IsFiniteSet(InWork \ {t})
          /\ Cardinality(InWork \ {t}) = Cardinality(InWork) - 1
      BY <2>1, <2>2, FS_RemoveElement
    <3>. QED  BY <2>2, <3>1, FS_Subset
  <2>4. Pending' <= Pending - 1
    BY <2>1, <2>2, <2>3
  <2>5. /\ spent' = spent + 1
        /\ racing' = IF spent + 1 = SpendCap THEN Pending - 1 ELSE racing
    BY <1>8 DEF Charge
  <2>. QED  BY <1>1, <2>1, <2>4, <2>5, ChatAssumption DEF OvershootBounded
<1>9. ASSUME UNCHANGED <<spent, racing, call, step>> PROVE OvershootBounded'
  BY <1>2, <1>9
<1>10. ASSUME NEW t \in Tasks, Leaves(t) PROVE OvershootBounded'
  BY <1>9, <1>10 DEF Leaves, Outcome, Silence
<1>11. CASE DedupEvict \/ FailureExpires \/ \E p \in Callers \cup Tasks : DedupStep(p)
  BY <1>9, <1>11 DEF DedupEvict, FailureExpires, DedupStep
<1>12. CASE UNCHANGED vars
  BY <1>9, <1>12 DEF vars
<1>. QED
  BY <1>3, <1>4, <1>5, <1>6, <1>7, <1>8, <1>10, <1>11, <1>12
     DEF Next, CallerStep, Disconnect, TaskStep

\* The cap is exceeded by no more than the calls that were admitted below it
\* (chat_completions checks it, the spawned task charges).
THEOREM CapHolds == Spec => []OvershootBounded
<1>1. Init => OvershootBounded
  <2>. SUFFICES ASSUME Init PROVE Pending = 0 /\ spent = 0 /\ racing = 0
    BY ChatAssumption DEF OvershootBounded
  <2>1. Unsettled = {} /\ InWork = {}
    BY DEF Init, Unsettled, InWork, Uncharged
  <2>. QED  BY <2>1, PendingType, FS_EmptySet DEF Init
<1>. QED  BY <1>1, NextOvershoot, AlwaysChat, PTL DEF Spec

==============================================================================
