--------------------------- MODULE MCLeaderElection ---------------------------
(* Small instances of LeaderElection. *)
EXTENDS LeaderElection

CONSTANTS n1, n2

TwoNodes == {n1, n2}
=============================================================================
