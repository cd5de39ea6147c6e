------------------------------- MODULE Dedup -------------------------------
(***************************************************************************)
(* The request deduplicator of enhanced/dedup.rs, for one key.             *)
(*                                                                         *)
(* Each access to the moka cache is atomic; complete(), fail(), the drop   *)
(* of a token and wait_for_result() are not: they are several accesses to  *)
(* the cache, to the token's `completed` flag, to its reference count and  *)
(* to the broadcast channel, and other tasks run in between.               *)
(*                                                                         *)
(* A registration is a call of check_and_register that returned New; its   *)
(* id stands for the uuid of the token, for the broadcast channel made     *)
(* with it and for the result its worker computes.  An id nothing refers   *)
(* to any more may be used again, so the number of registrations is not    *)
(* bounded.                                                                *)
(***************************************************************************)
EXTENDS FiniteSets, Naturals

CONSTANTS
    Clients,        \* tasks that share the Deduplicator
    Regs,           \* registration ids
    None,           \* no registration, no message
    Cancelled,      \* DEDUP_CANCELLED_SENTINEL
    CacheResults,   \* cache_duration is not zero
    AllowClones     \* the embedding program clones tokens

ASSUME DedupAssumption ==
    /\ IsFiniteSet(Clients)
    /\ {None, Cancelled} \cap Regs = {}
    /\ None # Cancelled
    /\ CacheResults \in BOOLEAN /\ AllowClones \in BOOLEAN

VARIABLES
    entry,      \* the key's entry in `requests`
    pc,         \* where each client is in the calls it makes
    reg,        \* the registration whose token, or channel, a client holds
    msg,        \* what a waiter's receiver holds, or the answer a client got
    completed,  \* the `completed` flag the clones of a token share
    lost        \* history: registrations whose entry the cache dropped

vars == <<entry, pc, reg, msg, completed, lost>>

Vacant == [state |-> "Vacant", id |-> None]
InProgress(r) == [state |-> "InProgress", id |-> r]
Completed(r) == [state |-> "Completed", id |-> r]

Entries == {Vacant} \cup {InProgress(r) : r \in Regs} \cup {Completed(r) : r \in Regs}

\* Holding a token: before complete or fail, in complete(), in drop().
InComplete == {"marked", "sent", "published"}
InDrop == {"dropping", "cancelling", "clearing", "freeing"}
TokenPhases == {"working"} \cup InComplete \cup InDrop
JoinPhases == {"joining", "found", "waiting"}
Phases == {"idle", "served", "missed"} \cup TokenPhases \cup JoinPhases

TypeOK ==
    /\ entry \in Entries
    /\ pc \in [Clients -> Phases]
    /\ reg \in [Clients -> Regs \cup {None}]
    /\ msg \in [Clients -> Regs \cup {None, Cancelled}]
    /\ completed \in [Regs -> BOOLEAN]
    /\ lost \subseteq Regs

Init ==
    /\ entry = Vacant
    /\ pc = [p \in Clients |-> "idle"]
    /\ reg = [p \in Clients |-> None]
    /\ msg = [p \in Clients |-> None]
    /\ completed = [r \in Regs |-> FALSE]
    /\ lost = {}

-----------------------------------------------------------------------------
\* The clones of r's token: what Arc::strong_count(&completed) counts.
Holders(r) == {p \in Clients : reg[p] = r /\ pc[p] \in TokenPhases}

\* All senders of r's channel are gone.  A client that read the entry holds
\* one until it has subscribed.
Closed(r) ==
    /\ Holders(r) = {}
    /\ entry # InProgress(r)
    /\ \A p \in Clients : ~(pc[p] = "found" /\ reg[p] = r)

InUse(r) ==
    \/ entry \in {InProgress(r), Completed(r)}
    \/ \E p \in Clients : reg[p] = r \/ msg[p] = r

\* mutant: any in-progress entry is removed, whoever owns it
EntryWithoutAny(r) == IF entry.state = "InProgress" THEN Vacant ELSE entry

\* remove_if_owned_by
EntryWithout(r) == IF entry = InProgress(r) THEN Vacant ELSE entry

\* waiter_tx.send: a receiver keeps the first message it gets.
Delivered(r, v) ==
    [p \in Clients |->
        IF pc[p] = "waiting" /\ reg[p] = r /\ msg[p] = None THEN v ELSE msg[p]]

Goto(p, phase) == pc' = [pc EXCEPT ![p] = phase]

-----------------------------------------------------------------------------
\* check_and_register() of a key that is not tracked: New(token).
RegisterNew(p, r) ==
    /\ pc[p] = "idle"
    /\ entry = Vacant
    /\ ~InUse(r)
    /\ entry' = InProgress(r)
    /\ reg' = [reg EXCEPT ![p] = r]
    /\ completed' = [completed EXCEPT ![r] = FALSE]
    /\ lost' = lost \ {r}
    /\ Goto(p, "working")
    /\ UNCHANGED msg

\* check_and_register() of a tracked key: InProgress or Cached(result).
RegisterDuplicate(p) ==
    /\ pc[p] = "idle"
    /\ entry # Vacant
    /\ IF entry.state = "InProgress"
       THEN Goto(p, "joining") /\ UNCHANGED msg
       ELSE Goto(p, "served") /\ msg' = [msg EXCEPT ![p] = entry.id]
    /\ UNCHANGED <<entry, reg, completed, lost>>

\* wait_for_result(): the cache lookup.
Lookup(p) ==
    /\ pc[p] = "joining"
    /\ CASE entry = Vacant ->
              Goto(p, "missed") /\ UNCHANGED <<reg, msg>>
         [] entry.state = "InProgress" ->
              /\ Goto(p, "found")
              /\ reg' = [reg EXCEPT ![p] = entry.id]
              /\ UNCHANGED msg
         [] OTHER ->
              /\ Goto(p, "served")
              /\ msg' = [msg EXCEPT ![p] = entry.id]
              /\ UNCHANGED reg
    /\ UNCHANGED <<entry, completed, lost>>

\* wait_for_result(): waiter_tx.subscribe().  Messages sent before are missed.
Subscribe(p) ==
    /\ pc[p] = "found"
    /\ Goto(p, "waiting")
    /\ UNCHANGED <<entry, reg, msg, completed, lost>>

\* wait_for_result(): rx.recv() returns a message, or Closed (None).
Receive(p) ==
    /\ pc[p] = "waiting"
    /\ \/ msg[p] # None /\ Goto(p, "served")
       \/ msg[p] = None /\ Closed(reg[p]) /\ Goto(p, "missed")
    /\ UNCHANGED <<entry, reg, msg, completed, lost>>

\* The client is done with its answer, or its wait is dropped.
Leave(p) ==
    /\ pc[p] \in {"served", "missed", "joining", "waiting"}
    /\ Goto(p, "idle")
    /\ reg' = [reg EXCEPT ![p] = None]
    /\ msg' = [msg EXCEPT ![p] = None]
    /\ UNCHANGED <<entry, completed, lost>>

-----------------------------------------------------------------------------
\* token.clone(), handed to another task.
Share(p, q) ==
    /\ AllowClones
    /\ pc[p] = "working" /\ pc[q] = "idle"
    /\ Goto(q, "working")
    /\ reg' = [reg EXCEPT ![q] = reg[p]]
    /\ UNCHANGED <<entry, msg, completed, lost>>

\* complete(): completed.store(true).
Complete(p) ==
    /\ pc[p] = "working"
    /\ completed' = [completed EXCEPT ![reg[p]] = TRUE]
    /\ Goto(p, "marked")
    /\ UNCHANGED <<entry, reg, msg, lost>>

\* complete(): waiter_tx.send(result).
SendResult(p) ==
    /\ pc[p] = "marked"
    /\ msg' = Delivered(reg[p], reg[p])
    /\ Goto(p, "sent")
    /\ UNCHANGED <<entry, reg, completed, lost>>

\* mutant: the answer of a late worker replaces the cached one
PublishedAlways(r) == IF ~CacheResults THEN EntryWithout(r) ELSE Completed(r)

\* What complete() leaves in the cache.
Published(r) ==
    IF ~CacheResults THEN EntryWithout(r)
    ELSE IF entry \in {InProgress(r), Vacant} THEN Completed(r) ELSE entry

\* complete(): and_compute_with, then the token goes out of scope.
Publish(p) ==
    /\ pc[p] = "sent"
    /\ entry' = Published(reg[p])
    /\ Goto(p, "published")
    /\ UNCHANGED <<reg, msg, completed, lost>>

\* fail(): remove_if_owned_by, then the token goes out of scope.
Fail(p) ==
    /\ pc[p] = "working"
    /\ entry' = EntryWithout(reg[p])
    /\ Goto(p, "dropping")
    /\ UNCHANGED <<reg, msg, completed, lost>>

\* The task holding the token is cancelled or panics, or drops it on purpose.
Abandon(p) ==
    /\ pc[p] = "working"
    /\ Goto(p, "dropping")
    /\ UNCHANGED <<entry, reg, msg, completed, lost>>

\* mutant: the count is taken after this clone's own reference is gone
MustCancelAtZero(r) == Cardinality(Holders(r)) = 0 /\ ~completed[r]

\* drop(): is this the last clone, and was complete() never called?
MustCancel(r) == Cardinality(Holders(r)) = 1 /\ ~completed[r]

CheckDrop(p) ==
    /\ pc[p] \in {"published", "dropping"}
    /\ Goto(p, IF MustCancel(reg[p]) THEN "cancelling" ELSE "freeing")
    /\ UNCHANGED <<entry, reg, msg, completed, lost>>

\* drop(): waiter_tx.send(sentinel).
SendCancel(p) ==
    /\ pc[p] = "cancelling"
    /\ msg' = Delivered(reg[p], Cancelled)
    /\ Goto(p, "clearing")
    /\ UNCHANGED <<entry, reg, completed, lost>>

\* drop(): remove_if_owned_by.
ClearEntry(p) ==
    /\ pc[p] = "clearing"
    /\ entry' = EntryWithout(reg[p])
    /\ Goto(p, "freeing")
    /\ UNCHANGED <<reg, msg, completed, lost>>

\* The fields of the token are dropped: the reference count and the sender.
Free(p) ==
    /\ pc[p] = "freeing"
    /\ Goto(p, "idle")
    /\ reg' = [reg EXCEPT ![p] = None]
    /\ UNCHANGED <<entry, msg, completed, lost>>

\* The entry expires, is evicted by the size bound, or clear() is called.
Evict ==
    /\ entry # Vacant
    /\ entry' = Vacant
    /\ lost' = IF entry.state = "InProgress" THEN lost \cup {entry.id} ELSE lost
    /\ UNCHANGED <<pc, reg, msg, completed>>

-----------------------------------------------------------------------------
Resolve(p) == Complete(p) \/ Fail(p) \/ Abandon(p)

Step(p) ==
    \/ Lookup(p) \/ Subscribe(p) \/ Receive(p)
    \/ SendResult(p) \/ Publish(p)
    \/ CheckDrop(p) \/ SendCancel(p) \/ ClearEntry(p) \/ Free(p)

Next ==
    \/ \E p \in Clients :
         \/ \E r \in Regs : RegisterNew(p, r)
         \/ RegisterDuplicate(p)
         \/ \E q \in Clients : Share(p, q)
         \/ Resolve(p)
         \/ Step(p)
         \/ Leave(p)
    \/ Evict

Spec == Init /\ [][Next]_vars

\* Every task keeps running, and the work of a token holder ends.
FairSpec == Spec /\ \A p \in Clients : WF_vars(Resolve(p)) /\ WF_vars(Step(p))

-----------------------------------------------------------------------------
\* Only one client works on the key, unless the cache itself dropped the
\* entry of one of them: a token that was resolved, dropped or superseded never
\* clears the registration of another.
SingleFlight ==
    \A p, q \in Clients :
        pc[p] = "working" /\ pc[q] = "working" /\ reg[p] # reg[q]
            => reg[p] \in lost \/ reg[q] \in lost

\* An in-progress entry always has a token holder who is still going to
\* replace or remove it: the key never stays blocked until its expiry because
\* a worker went away.
NoOrphan ==
    \A r \in Regs : entry = InProgress(r) =>
        \E p \in Holders(r) :
            pc[p] \in {"working", "marked", "sent", "dropping", "cancelling", "clearing"}

\* An in-progress entry is replaced or removed by a holder of its own token,
\* or by the cache: never by a late call for an earlier registration.
OnlyOwnerResolves ==
    [][\A r \in Regs : entry = InProgress(r) /\ entry' # entry =>
         \/ entry' = Vacant /\ UNCHANGED pc
         \/ \E p \in Holders(r) : pc'[p] # pc[p]]_vars

\* An answer that is cached stays until the cache drops it: a second worker
\* (after an eviction) that completes later does not replace it.
CachedAnswerStable ==
    [][\A r \in Regs : entry = Completed(r) /\ entry' # entry => entry' = Vacant]_vars

\* A waiter is told that the request was cancelled only when nobody completed
\* it, whichever clones of the token were dropped around the completion.
NoFalseCancellation ==
    \A p \in Clients :
        pc[p] = "waiting" /\ msg[p] = Cancelled => ~completed[reg[p]]

\* Calls on clones of a token, in any order and long after its request was
\* resolved, leave newer registrations, cached answers and waiters alone.
LateCallsHarmless == []NoFalseCancellation /\ OnlyOwnerResolves /\ CachedAnswerStable

\* "Waiters are NOT left hanging indefinitely": whatever the worker does, and
\* even when the entry was evicted meanwhile.
WaitersWoken == \A p \in Clients : pc[p] = "waiting" ~> pc[p] # "waiting"

-----------------------------------------------------------------------------
\* Checked as what the documentation says, and violated.

\* wait_for_result returns "`Some(result)` when the pending request completes":
\* a client that found the request pending does not get None if it completed.
PendingAnswered ==
    \A p \in Clients :
        pc[p] = "missed" /\ reg[p] # None => ~completed[reg[p]]
=============================================================================
