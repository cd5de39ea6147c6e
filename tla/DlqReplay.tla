------------------------------- MODULE DlqReplay -------------------------------
(***************************************************************************)
(* The dead-letter replay scheduler of enhanced/dlq_replay.rs.  A call of  *)
(* replay_all or replay_by_session takes the entries that are due out of   *)
(* the queue and works through them without the lock: it sleeps before     *)
(* each retry, and entries it cannot deliver go back.  Several calls, and  *)
(* push and age_out, run beside each other.                                *)
(*                                                                         *)
(* Entries are numbered in the order they are pushed.  The order of the    *)
(* queue is left out: nothing depends on it.  Whether the pipeline's       *)
(* channel is full is up to its other users.                               *)
(***************************************************************************)
EXTENDS FiniteSets, Integers

CONSTANTS
    NumEntries,
    Replayers,      \* calls of replay_filtered
    Free,           \* no entry
    SessionOf,      \* the session of an entry
    MaxExponent,    \* 6: attempts.min(6)
    MaxBackoff      \* 60 seconds, in ticks

Entries == 1..NumEntries

ASSUME ReplayAssumption ==
    /\ NumEntries \in Nat
    /\ Free \notin Entries
    /\ MaxExponent \in Nat \ {0} /\ MaxBackoff \in Nat \ {0}

VARIABLES
    pushed,      \* how many entries were pushed
    waiting,     \* the queue
    attempts,    \* attempts of an entry, up to MaxExponent
    due,         \* ticks until next_attempt_at
    taken,       \* the candidates a call holds, the current one included
    current,     \* the entry it is at
    nap,         \* ticks it still sleeps before the current entry
    open,        \* the pipeline's channel is open
    sent,        \* entries re-injected
    agedOut, discarded, abandoned,  \* entries lost, by reason
    since        \* history: ticks since the last refusal of an entry

entryVars == <<attempts, due, since>>
callVars == <<taken, current, nap>>
lostVars == <<agedOut, discarded, abandoned>>
replayVars == <<pushed, waiting, entryVars, callVars, open, sent, lostVars>>

\* Ages are compared with nothing longer.
MaxSince == 2 * MaxBackoff

ReplayTypeOK ==
    /\ pushed \in 0..NumEntries
    /\ waiting \subseteq Entries
    /\ attempts \in [Entries -> 0..MaxExponent]
    /\ due \in [Entries -> 0..MaxBackoff]
    /\ taken \in [Replayers -> SUBSET Entries]
    /\ current \in [Replayers -> Entries \cup {Free}]
    /\ nap \in [Replayers -> 0..MaxBackoff]
    /\ open \in BOOLEAN
    /\ sent \subseteq Entries /\ agedOut \subseteq Entries
    /\ discarded \subseteq Entries /\ abandoned \subseteq Entries
    /\ since \in [Entries -> 0..MaxSince]

ReplayInit ==
    /\ pushed = 0 /\ waiting = {}
    /\ attempts = [e \in Entries |-> 0]
    /\ due = [e \in Entries |-> 0]
    /\ taken = [r \in Replayers |-> {}]
    /\ current = [r \in Replayers |-> Free]
    /\ nap = [r \in Replayers |-> 0]
    /\ open = TRUE
    /\ sent = {} /\ agedOut = {} /\ discarded = {} /\ abandoned = {}
    /\ since = [e \in Entries |-> 0]

-----------------------------------------------------------------------------
Least(m, n) == IF m < n THEN m ELSE n
OneLess(n) == IF n = 0 THEN 0 ELSE n - 1

\* (1 << attempts.min(6)).min(60)
Backoff(n) == Least(2^n, MaxBackoff)

\* push().
Push ==
    /\ pushed < NumEntries
    /\ pushed' = pushed + 1
    /\ waiting' = waiting \cup {pushed + 1}
    /\ UNCHANGED <<entryVars, callVars, open, sent, lostVars>>

\* replay_all() and replay_by_session().
Filters == {Entries} \cup {{x \in Entries : SessionOf[x] = SessionOf[e]} : e \in Entries}

\* next_attempt_at has passed.
Eligible(e) == due[e] = 0

\* mutant: the candidates are copied
KeptCopied(S) == waiting

\* to_keep: what stays in the queue when the candidates S are taken.
Kept(S) == waiting \ S

\* replay_filtered(): takes the candidates that are due.
TakeDue(r, F) ==
    /\ taken[r] = {}
    /\ LET S == {e \in waiting \cap F : Eligible(e)}
       IN /\ S # {}
          /\ taken' = [taken EXCEPT ![r] = S]
          /\ waiting' = Kept(S)
    /\ UNCHANGED <<pushed, entryVars, current, nap, open, sent, lostVars>>

\* mutant: no delay before a retry
NoNap(n) == 0

\* The delay before sending: none on the first attempt.
Nap(n) == IF n > 0 THEN Backoff(n) ELSE 0

\* The next candidate, and the sleep before it.
PickNext(r, e) ==
    /\ current[r] = Free /\ e \in taken[r]
    /\ current' = [current EXCEPT ![r] = e]
    /\ nap' = [nap EXCEPT ![r] = Nap(attempts[e])]
    /\ UNCHANGED <<pushed, waiting, entryVars, taken, open, sent, lostVars>>

\* The call is done with its current entry.
PutDown(r) ==
    /\ current[r] # Free /\ nap[r] = 0
    /\ taken' = [taken EXCEPT ![r] = @ \ {current[r]}]
    /\ current' = [current EXCEPT ![r] = Free]
    /\ UNCHANGED <<pushed, nap, open>>

\* try_send: Ok.
Inject(r) ==
    /\ open
    /\ PutDown(r)
    /\ sent' = sent \cup {current[r]}
    /\ UNCHANGED <<waiting, entryVars, lostVars>>

\* try_send: Full.  advance_backoff, and back into the queue.
Refuse(r) ==
    /\ open
    /\ PutDown(r)
    /\ LET e == current[r]
           n == Least(attempts[e] + 1, MaxExponent)
       IN /\ attempts' = [attempts EXCEPT ![e] = n]
          /\ due' = [due EXCEPT ![e] = Backoff(n)]
          /\ since' = [since EXCEPT ![e] = 0]
          /\ waiting' = waiting \cup {e}
    /\ UNCHANGED <<sent, lostVars>>

\* try_send: Closed.  The entry is dropped.
Discard(r) ==
    /\ ~open
    /\ PutDown(r)
    /\ discarded' = discarded \cup {current[r]}
    /\ UNCHANGED <<waiting, entryVars, sent, agedOut, abandoned>>

\* The future of the call is dropped where it sleeps, with all it holds.
DropCall(r) ==
    /\ current[r] # Free /\ attempts[current[r]] > 0
    /\ abandoned' = abandoned \cup taken[r]
    /\ taken' = [taken EXCEPT ![r] = {}]
    /\ current' = [current EXCEPT ![r] = Free]
    /\ nap' = [nap EXCEPT ![r] = 0]
    /\ UNCHANGED <<pushed, waiting, entryVars, open, sent, agedOut, discarded>>

\* age_out().  Callers make the entries and may set queued_at: any of them may
\* be over the limit.
AgeOut(Old) ==
    /\ Old # {} /\ Old \subseteq waiting
    /\ waiting' = waiting \ Old
    /\ agedOut' = agedOut \cup Old
    /\ UNCHANGED <<pushed, entryVars, callVars, open, sent, discarded, abandoned>>

\* The pipeline's receiver is dropped.
CloseChannel ==
    /\ open /\ open' = FALSE
    /\ UNCHANGED <<pushed, waiting, entryVars, callVars, sent, lostVars>>

ReplayTick ==
    /\ due' = [e \in Entries |-> OneLess(due[e])]
    /\ nap' = [r \in Replayers |-> OneLess(nap[r])]
    /\ since' = [e \in Entries |-> Least(since[e] + 1, MaxSince)]
    /\ UNCHANGED <<pushed, waiting, attempts, taken, current, open, sent, lostVars>>

-----------------------------------------------------------------------------
CallStep(r) ==
    \/ \E e \in Entries : PickNext(r, e)
    \/ Inject(r) \/ Refuse(r) \/ Discard(r)

ReplayNext ==
    \/ Push
    \/ \E r \in Replayers :
         \/ \E F \in Filters : TakeDue(r, F)
         \/ CallStep(r)
         \/ DropCall(r)
    \/ \E Old \in SUBSET Entries : AgeOut(Old)
    \/ CloseChannel
    \/ ReplayTick

ReplaySpec == ReplayInit /\ [][ReplayNext]_replayVars

-----------------------------------------------------------------------------
Gone == sent \cup agedOut \cup discarded \cup abandoned

\* An entry is in one place at a time: two calls never hold the same one, and
\* none that was sent or lost is still queued, so none is injected twice.
InOnePlace(e) ==
    /\ \A r, q \in Replayers : e \in taken[r] \cap taken[q] => r = q
    /\ \A r \in Replayers : e \in taken[r] => e \notin waiting \cup Gone
    /\ e \notin waiting \cap Gone

\* The ledger of the entries: an entry waits in the queue or in the hands of a
\* call, until it is delivered to the pipeline or lost in one of three ways.
\* One that is in two places has no fate the ledger knows.
fateOf ==
    [e \in Entries |->
        CASE ~InOnePlace(e) -> "torn"
          [] e \in waiting \/ \E r \in Replayers : e \in taken[r] -> "inside"
          [] e \in sent -> "delivered"
          [] e \in agedOut -> "expired"
          [] e \in discarded -> "discarded"
          [] e \in abandoned -> "abandoned"
          [] OTHER -> "new"]

Promise == INSTANCE Ledger WITH Requests <- Entries, fate <- fateOf

\* Each entry is in one place at a time and meets one fate, once, whatever
\* calls run beside each other.
ReplayKeepsLedger == Promise!Spec

\* Between two attempts at the same entry passes at least twice its back-off,
\* once in the queue and once in the hands of the call: whichever calls pick
\* it up, a full pipeline is not hammered.
BackoffRespected ==
    [][\A r \in Replayers :
         LET e == current[r]
         IN e # Free /\ current'[r] = Free /\ e \notin abandoned' =>
              attempts[e] = 0 \/ since[e] >= 2 * Backoff(attempts[e])]_replayVars

\* An entry that waits is delivered or aged out in the end, provided someone
\* keeps calling replay_all, the channel is not always found full and does not
\* close, and no call that holds the entry is dropped: those two lose it.
EntryResolved ==
    \A e \in Entries : e \in waiting ~> e \in sent \cup agedOut \cup abandoned \/ ~open

\* An entry is retried, in the end and at its pace.
EntriesRetried == BackoffRespected /\ EntryResolved
=============================================================================
