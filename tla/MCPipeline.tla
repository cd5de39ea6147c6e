------------------------------ MODULE MCPipeline ------------------------------
(* Small instances of Pipeline. *)
EXTENDS Pipeline, TLC

CONSTANTS w1, w2

TwoWorkers == {w1, w2}

\* Every channel holds one request.
SmallCap == [s \in Channels |-> 1]
\* Two requests may wait for inference.
OrderCap == [SmallCap EXCEPT !["inference"] = 2]

NoDeadline == {}
FirstTwo == {1, 2}

Symmetric == Permutations({w1, w2})
=============================================================================
