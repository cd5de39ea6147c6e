-------------------------------- MODULE Ledger --------------------------------
(***************************************************************************)
(* What the pipeline promises about each request it has accepted: one      *)
(* fate, reached once.  It is delivered to the caller, or listed in the    *)
(* dead-letter queue, or lost, and it never changes sides after that,      *)
(* except that an entry leaves the dead-letter queue when it is drained    *)
(* or when the ring evicts it.                                             *)
(***************************************************************************)
CONSTANT Requests

VARIABLE fate

Lost == {"expired", "discarded", "abandoned"}

Fates == {"new", "inside", "delivered", "dead", "evicted", "drained"} \cup Lost

Init == fate = [r \in Requests |-> "new"]

\* The requests of S, all of fate `from`, get fate `to`.
Move(S, from, to) ==
    /\ \A r \in S : fate[r] = from
    /\ fate' = [r \in Requests |-> IF r \in S THEN to ELSE fate[r]]

Accept(r) == Move({r}, "new", "inside")

Deliver(r) == Move({r}, "inside", "delivered")

\* A new entry of the dead-letter queue may push older ones out.
DeadLetter(r, S) ==
    /\ fate[r] = "inside"
    /\ \A x \in S : fate[x] = "dead"
    /\ fate' = [x \in Requests |-> IF x = r THEN "dead"
                                   ELSE IF x \in S THEN "evicted" ELSE fate[x]]

Lose(S, why) == Move(S, "inside", why)

Drain(S) == Move(S, "dead", "drained")

Next ==
    \/ \E r \in Requests : Accept(r) \/ Deliver(r)
    \/ \E r \in Requests, S \in SUBSET Requests : DeadLetter(r, S)
    \/ \E S \in SUBSET Requests, why \in Lost : Lose(S, why)
    \/ \E S \in SUBSET Requests : Drain(S)

Spec == Init /\ [][Next]_fate
=============================================================================
