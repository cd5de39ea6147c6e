----------------------------- MODULE MCTaskQueue -----------------------------
(* Small instances of TaskQueue. *)
EXTENDS TaskQueue

CONSTANTS a1, a2

TwoAgents == {a1, a2}

\* The second task of the file is the more urgent one.
SecondFirst == [t \in Tasks |-> 3 - t]
=============================================================================
