------------------------------ MODULE MCDedup ------------------------------
(* Small instances of Dedup.  When all ids are in use a new registration    *)
(* waits for one: with three ids that leaves a worker whose entry was       *)
(* evicted, the worker that replaced it, and a cached or joined answer.     *)
EXTENDS Dedup, TLC

Symmetric == Permutations(Clients) \cup Permutations(Regs)
=============================================================================
