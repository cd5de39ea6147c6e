---------------------------- MODULE LeaderElection ----------------------------
(***************************************************************************)
(* Leader election of distributed/leader.rs: a key in Redis with a time to *)
(* live (the lease), the role each node caches, and the background loop    *)
(* that elects and renews.                                                 *)
(*                                                                         *)
(* A request to Redis is sent, executed there and answered in three steps. *)
(* Its caller may give up at any point (REMOTE_OP_TIMEOUT, a connection    *)
(* error): then the answer is lost, and a command that was not executed    *)
(* yet may still be executed much later.  step_down is called by another   *)
(* task of the node, beside the loop.                                      *)
(***************************************************************************)
EXTENDS Naturals

CONSTANTS
    Nodes,
    Ttl,            \* ttl_seconds
    MaxFaults,      \* bound: failed requests, crashes and step-downs in a behaviour
    None

ASSUME ElectionAssumption ==
    /\ Ttl \in Nat \ {0}
    /\ MaxFaults \in Nat
    /\ None \notin Nodes

VARIABLES
    owner,          \* the value of the key orchestrator:leader, or None
    left,           \* seconds until the key expires
    role,           \* what is_leader answers at each node
    pc,             \* where each loop is
    wake,           \* seconds each loop still sleeps
    answer,         \* what Redis has answered to the request of each loop
    freed,          \* a step_down call of the node has deleted the key
    late,           \* how many commands of each kind and node are on their way
                    \* to Redis after their caller has given up
    faults,         \* how many of MaxFaults have happened
    sent,           \* history: seconds since each loop sent its request
    since,          \* history: seconds since the request that last confirmed
                    \* each leader was sent
    resigned        \* history: the node gave away the lease it last had

lease == <<owner, left, resigned>>
vars == <<lease, role, pc, wake, answer, freed, late, faults, sent, since>>

Commands == {"elect", "renew", "resign"}
Calling == {"electing", "renewing"}

TypeOK ==
    /\ owner \in Nodes \cup {None}
    /\ left \in 0..Ttl
    /\ owner = None <=> left = 0
    /\ role \in [Nodes -> {"Leader", "Follower"}]
    /\ pc \in [Nodes -> {"sleeping"} \cup Calling]
    /\ wake \in [Nodes -> 0..Ttl]
    /\ answer \in [Nodes -> {"none", "yes", "no"}]
    /\ freed \in [Nodes -> BOOLEAN]
    /\ late \in [Commands \X Nodes -> Nat]
    /\ faults \in 0..MaxFaults
    /\ sent \in [Nodes -> 0..Ttl]
    /\ since \in [Nodes -> 0..Ttl]
    /\ resigned \in [Nodes -> BOOLEAN]

Init ==
    /\ owner = None /\ left = 0
    /\ role = [n \in Nodes |-> "Follower"]
    /\ pc = [n \in Nodes |-> "sleeping"]
    /\ wake = [n \in Nodes |-> 0]
    /\ answer = [n \in Nodes |-> "none"]
    /\ freed = [n \in Nodes |-> FALSE]
    /\ late = [c \in Commands \X Nodes |-> 0]
    /\ faults = 0
    /\ sent = [n \in Nodes |-> Ttl]
    /\ since = [n \in Nodes |-> Ttl]
    /\ resigned = [n \in Nodes |-> FALSE]

-----------------------------------------------------------------------------
\* Redis.

\* mutant: the script extends or deletes the key of whoever has it
GrantsToAny(cmd, n) == IF cmd = "elect" THEN owner = None ELSE owner # None

\* SET NX succeeds on a free key; the scripts compare the owner first.
Grants(cmd, n) == IF cmd = "elect" THEN owner = None ELSE owner = n

\* mutant: SET NX without EX
EffectWithoutExpiry(cmd, n) ==
    /\ owner' = IF Grants(cmd, n) THEN (IF cmd = "resign" THEN None ELSE n) ELSE owner
    /\ left' = IF Grants(cmd, n) /\ cmd = "renew" THEN Ttl ELSE left
    /\ resigned' = [resigned EXCEPT ![n] = IF Grants(cmd, n) THEN cmd = "resign" ELSE @]

\* What command cmd of node n does to the key.
Effect(cmd, n) ==
    IF ~Grants(cmd, n) THEN UNCHANGED lease
    ELSE /\ owner' = IF cmd = "resign" THEN None ELSE n
         /\ left' = IF cmd = "resign" THEN 0 ELSE Ttl
         /\ resigned' = [resigned EXCEPT ![n] = cmd = "resign"]

-----------------------------------------------------------------------------
\* The loop of spawn_election_loop.

\* The command a loop has sent.
Request(n) == IF pc[n] = "electing" THEN "elect" ELSE "renew"

\* The loop wakes up and asks Redis: try_elect or renew.
Ask(n) ==
    /\ pc[n] = "sleeping" /\ wake[n] = 0
    /\ pc' = [pc EXCEPT ![n] = IF role[n] = "Leader" THEN "renewing" ELSE "electing"]
    /\ sent' = [sent EXCEPT ![n] = 0]
    /\ UNCHANGED <<lease, role, wake, answer, freed, late, faults, since>>

\* Redis executes the command.
Execute(n) ==
    /\ pc[n] \in Calling /\ answer[n] = "none"
    /\ Effect(Request(n), n)
    /\ answer' = [answer EXCEPT ![n] = IF Grants(Request(n), n) THEN "yes" ELSE "no"]
    /\ UNCHANGED <<role, pc, wake, freed, late, faults, sent, since>>

\* The renewal interval after a renewal, a whole time to live after an election.
Pause(n) == IF pc[n] = "renewing" THEN Ttl \div 3 ELSE Ttl

\* The request is over, the loop sleeps.
Sleep(n) ==
    /\ pc' = [pc EXCEPT ![n] = "sleeping"]
    /\ wake' = [wake EXCEPT ![n] = Pause(n)]
    /\ answer' = [answer EXCEPT ![n] = "none"]
    /\ sent' = [sent EXCEPT ![n] = Ttl]

\* mutant: a refused renewal is only logged
RoleAfterKept(n) == IF answer[n] = "yes" /\ pc[n] = "electing" THEN "Leader" ELSE role[n]

\* A won election makes a leader, a refused request a follower.
RoleAfter(n) ==
    IF answer[n] = "no" THEN "Follower"
    ELSE IF pc[n] = "electing" THEN "Leader" ELSE role[n]

\* The answer arrives.
Learn(n) ==
    /\ answer[n] # "none"
    /\ role' = [role EXCEPT ![n] = RoleAfter(n)]
    /\ since' = [since EXCEPT ![n] =
                   IF role'[n] = "Leader" /\ answer[n] = "yes" THEN sent[n] ELSE Ttl]
    /\ Sleep(n)
    /\ UNCHANGED <<lease, freed, late, faults>>

Unexecuted(n) ==
    IF pc[n] \in Calling /\ answer[n] = "none" THEN {<<Request(n), n>>} ELSE {}

\* What the caller gives up may be executed later, or never.
GivenUp(cmds) ==
    late' \in {late} \cup {[late EXCEPT ![c] = @ + 1] : c \in cmds}

Fault == faults < MaxFaults /\ faults' = faults + 1

\* The request fails or its answer does not come in time: a leader follows.
Fail(n) ==
    /\ Fault
    /\ pc[n] \in Calling
    /\ role' = [role EXCEPT ![n] = IF pc[n] = "renewing" THEN "Follower" ELSE @]
    /\ since' = [since EXCEPT ![n] = IF pc[n] = "renewing" THEN Ttl ELSE @]
    /\ GivenUp(Unexecuted(n))
    /\ Sleep(n)
    /\ UNCHANGED <<lease, freed>>

-----------------------------------------------------------------------------
\* step_down, called by another task.

\* Redis deletes the key if it is the node's own; otherwise nothing happens.
StepDown(n) ==
    /\ Fault
    /\ ~freed[n] /\ Grants("resign", n)
    /\ Effect("resign", n)
    /\ freed' = [freed EXCEPT ![n] = TRUE]
    /\ UNCHANGED <<role, pc, wake, answer, late, sent, since>>

\* The answer to step_down arrives.
SteppedDown(n) ==
    /\ freed[n]
    /\ role' = [role EXCEPT ![n] = "Follower"]
    /\ since' = [since EXCEPT ![n] = Ttl]
    /\ freed' = [freed EXCEPT ![n] = FALSE]
    /\ UNCHANGED <<lease, pc, wake, answer, late, faults, sent>>

\* step_down fails: its answer is lost, or its command is still on its way.
StepDownFails(n) ==
    /\ Fault
    /\ \/ freed[n] /\ UNCHANGED late
       \/ ~freed[n] /\ GivenUp({<<"resign", n>>})
    /\ freed' = [freed EXCEPT ![n] = FALSE]
    /\ UNCHANGED <<lease, role, pc, wake, answer, sent, since>>

-----------------------------------------------------------------------------
\* A given-up command reaches Redis.
Late ==
    \E cmd \in Commands, n \in Nodes :
      /\ late[<<cmd, n>>] > 0
      /\ Effect(cmd, n)
      /\ late' = [late EXCEPT ![<<cmd, n>>] = @ - 1]
      /\ UNCHANGED <<role, pc, wake, answer, freed, faults, sent, since>>

\* The node dies and is started again.
Crash(n) ==
    /\ Fault
    /\ role' = [role EXCEPT ![n] = "Follower"]
    /\ since' = [since EXCEPT ![n] = Ttl]
    /\ pc' = [pc EXCEPT ![n] = "sleeping"]
    /\ wake' = [wake EXCEPT ![n] = 0]
    /\ answer' = [answer EXCEPT ![n] = "none"]
    /\ sent' = [sent EXCEPT ![n] = Ttl]
    /\ freed' = [freed EXCEPT ![n] = FALSE]
    /\ GivenUp(Unexecuted(n))
    /\ UNCHANGED lease

Older(s) == IF s < Ttl THEN s + 1 ELSE s

\* A second passes.
Tick ==
    /\ owner' = IF left = 1 THEN None ELSE owner
    /\ left' = IF left > 0 THEN left - 1 ELSE 0
    /\ wake' = [n \in Nodes |-> IF wake[n] > 0 THEN wake[n] - 1 ELSE 0]
    /\ sent' = [n \in Nodes |-> Older(sent[n])]
    /\ since' = [n \in Nodes |-> Older(since[n])]
    /\ UNCHANGED <<resigned, role, pc, answer, freed, late, faults>>

-----------------------------------------------------------------------------
Loop(n) == Ask(n) \/ Execute(n) \/ Learn(n)

Next ==
    \/ \E n \in Nodes : Loop(n) \/ SteppedDown(n)
    \/ \E n \in Nodes : Fail(n) \/ StepDown(n) \/ StepDownFails(n) \/ Crash(n)
    \/ Late
    \/ Tick

Spec == Init /\ [][Next]_vars

\* The loops run, requests end, and time passes.
FairSpec ==
    /\ Spec
    /\ \A n \in Nodes : WF_vars(Loop(n)) /\ WF_vars(SteppedDown(n))
    /\ WF_vars(Tick)

-----------------------------------------------------------------------------
\* A leader whose last confirmation was asked for less than a time to live ago
\* and who has not given the lease away since.
Fresh(n) == role[n] = "Leader" /\ since[n] < Ttl /\ ~resigned[n]

\* There is one leader for as long as a confirmation is good for: two nodes
\* that think they lead were not both confirmed within the last ttl_seconds,
\* whatever answers are lost, commands executed late, or nodes restarted.
FreshLeaderExclusive == \A m, n \in Nodes : Fresh(m) /\ Fresh(n) => m = n

\* A node that still believes to be leader when its lease is gone finds out,
\* whoever has the lease then.
LoserNotices == \A n \in Nodes : []<>(role[n] = "Leader" => owner = n)

\* "If the leader dies, the lease expires and another node takes over": again
\* and again there is a leader, even when the lease was taken by a command whose
\* sender had given up, or by a node that died and was started again.
SelfHealing == []<>(\E n \in Nodes : role[n] = "Leader")

=============================================================================
