------------------------------ MODULE RedisDedup ------------------------------
(***************************************************************************)
(* Distributed claims on one request key, redis_dedup.rs: SET NX EX to     *)
(* claim, a compare-and-delete script to release, EXPIRE to refresh.  The  *)
(* value of the key is the id of the NODE, so two calls of one node cannot *)
(* tell their claims apart.  A command takes effect at the store some time *)
(* after it was issued, and its caller may have given up by then.          *)
(***************************************************************************)
EXTENDS FiniteSets, Integers

CONSTANTS
    Calls,        \* uses of the key, from try_claim to the last release
    NodeOf,       \* the node of each call
    Nobody,       \* the key is not set
    Ttl           \* ttl_seconds, in ticks

ASSUME ClaimAssumption ==
    /\ Nobody \notin {NodeOf[c] : c \in Calls}
    /\ Ttl \in Nat \ {0}

VARIABLES
    owner, ttl,   \* the key in the store, and the time it has left
    call,         \* where each call is
    fresh,        \* history: the time a call may count on its claim
    robbed        \* history: calls whose claim another call of their node deleted

claimVars == <<owner, ttl, call, fresh, robbed>>

Nodes == {NodeOf[c] : c \in Calls}

ClaimTypeOK ==
    /\ owner \in Nodes \cup {Nobody}
    /\ ttl \in 0..Ttl
    /\ call \in [Calls -> {"new", "claiming", "claimed", "refreshing", "releasing", "done"}]
    /\ fresh \in [Calls -> 0..Ttl]
    /\ robbed \subseteq Calls

ClaimInit ==
    /\ owner = Nobody /\ ttl = 0
    /\ call = [c \in Calls |-> "new"]
    /\ fresh = [c \in Calls |-> 0]
    /\ robbed = {}

-----------------------------------------------------------------------------
CallGoes(c, phase) == call' = [call EXCEPT ![c] = phase]

\* A caller issues a command.
TryClaim(c) ==
    /\ call[c] = "new"
    /\ CallGoes(c, "claiming")
    /\ UNCHANGED <<owner, ttl, fresh, robbed>>

Refresh(c) ==
    /\ call[c] = "claimed"
    /\ CallGoes(c, "refreshing")
    /\ UNCHANGED <<owner, ttl, fresh, robbed>>

Release(c) ==
    /\ call[c] = "claimed"
    /\ CallGoes(c, "releasing")
    /\ fresh' = [fresh EXCEPT ![c] = 0]
    /\ UNCHANGED <<owner, ttl, robbed>>

\* SET NX: the key is not set.
KeyFree(c) == owner = Nobody

\* SET key node NX EX ttl: "OK".
SetKey(c) ==
    /\ call[c] = "claiming" /\ KeyFree(c)
    /\ owner' = NodeOf[c] /\ ttl' = Ttl
    /\ fresh' = [fresh EXCEPT ![c] = Ttl]
    /\ CallGoes(c, "claimed")
    /\ UNCHANGED robbed

\* The key is set, but the answer is lost: nobody relies on the claim.
SetUnheard(c) ==
    /\ call[c] = "claiming" /\ KeyFree(c)
    /\ owner' = NodeOf[c] /\ ttl' = Ttl
    /\ CallGoes(c, "done")
    /\ UNCHANGED <<fresh, robbed>>

\* SET: nil.  AlreadyClaimed.
KeyTaken(c) ==
    /\ call[c] = "claiming" /\ ~KeyFree(c)
    /\ CallGoes(c, "done")
    /\ UNCHANGED <<owner, ttl, fresh, robbed>>

\* EXPIRE key ttl, whoever the key belongs to by now.  A call whose claim has
\* lapsed gains nothing by it; the key lives on.
ExpireKey(c) ==
    /\ call[c] = "refreshing"
    /\ CallGoes(c, "claimed")
    /\ ttl' = IF owner = Nobody THEN ttl ELSE Ttl
    /\ fresh' = [fresh EXCEPT ![c] = IF @ > 0 THEN Ttl ELSE 0]
    /\ UNCHANGED <<owner, robbed>>

\* mutant: delete without comparing
Anybodys(c) == owner # Nobody

\* GET key == node
OwnNode(c) == owner = NodeOf[c]

\* The release script.
DeleteKey(c) ==
    /\ call[c] = "releasing"
    /\ CallGoes(c, "done")
    /\ IF OwnNode(c)
         THEN /\ owner' = Nobody /\ ttl' = 0
              /\ robbed' = robbed \cup {d \in Calls \ {c} : NodeOf[d] = NodeOf[c] /\ fresh[d] > 0}
         ELSE UNCHANGED <<owner, ttl, robbed>>
    /\ UNCHANGED fresh

\* The connection fails before the command is executed; a call that failed to
\* refresh goes on.
Fail(c) ==
    /\ call[c] \in {"claiming", "refreshing", "releasing"}
    /\ CallGoes(c, IF call[c] = "refreshing" THEN "claimed" ELSE "done")
    /\ UNCHANGED <<owner, ttl, fresh, robbed>>

\* The node crashes, or the caller never releases.
Abandon(c) ==
    /\ call[c] \in {"claimed", "refreshing"}
    /\ CallGoes(c, "done")
    /\ fresh' = [fresh EXCEPT ![c] = 0]
    /\ UNCHANGED <<owner, ttl, robbed>>

\* mutant: the key is set without EX
KeptForever(n) == n

Remaining(n) == n - 1

\* The key expires with its last tick.
Expires == ttl = 1

\* A tick passes.
ClaimTick ==
    /\ owner # Nobody \/ \E c \in Calls : fresh[c] > 0
    /\ ttl' = IF owner = Nobody THEN ttl ELSE Remaining(ttl)
    /\ owner' = IF Expires THEN Nobody ELSE owner
    /\ fresh' = [c \in Calls |-> IF fresh[c] = 0 THEN 0 ELSE fresh[c] - 1]
    /\ UNCHANGED <<call, robbed>>

-----------------------------------------------------------------------------
Execute(c) == SetKey(c) \/ SetUnheard(c) \/ KeyTaken(c) \/ ExpireKey(c) \/ DeleteKey(c)

ClaimNext ==
    \/ \E c \in Calls : TryClaim(c) \/ Refresh(c) \/ Release(c) \/ Execute(c)
                     \/ Fail(c) \/ Abandon(c)
    \/ ClaimTick

ClaimSpec == ClaimInit /\ [][ClaimNext]_claimVars

-----------------------------------------------------------------------------
\* Two calls rely on their claims at the same time only if another call of the
\* same node has deleted the claim of one of them: a release that comes late
\* never hurts another node.
FreshClaimsApart ==
    \A c, d \in Calls : c # d /\ fresh[c] > 0 /\ fresh[d] > 0 => {c, d} \cap robbed # {}

\* A key does not outlive its claims for ever: once nobody refreshes it any
\* more it becomes free, also after the crash of its node.
ClaimLapses ==
    <>[](\A c \in Calls : call[c] # "refreshing") => []<>(owner = Nobody)
=============================================================================
