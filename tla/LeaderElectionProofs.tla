------------------------- MODULE LeaderElectionProofs -------------------------
(***************************************************************************)
(* Mutual exclusion of fresh leaders, for any number of nodes, any time to *)
(* live and any number of failures.                                        *)
(***************************************************************************)
EXTENDS LeaderElection, TLAPS

\* What the lease is worth to a node that asked for it `age` seconds ago: it is
\* the node's own, and runs for what is left of a time to live.
Holds(n, age) == owner = n /\ left + age >= Ttl

\* A fresh leader holds the lease.
LeaderHolds == \A n \in Nodes : Fresh(n) => Holds(n, since[n])

\* So does a node whose granted request has not been answered for too long.
GrantHolds ==
    \A n \in Nodes :
        answer[n] = "yes" /\ sent[n] < Ttl /\ ~resigned[n] => Holds(n, sent[n])

\* Only a request that is not over yet has an answer.
Asked == \A n \in Nodes : answer[n] # "none" => pc[n] \in Calling

IInv == TypeOK /\ LeaderHolds /\ GrantHolds /\ Asked

-----------------------------------------------------------------------------
\* Redis never gives the lease to one node while another may count on it: a
\* command leaves the lease alone or is one of its owner, and a grant is for a
\* whole time to live.
LEMMA EffectKeeps ==
    ASSUME TypeOK, NEW cmd \in Commands, NEW n \in Nodes, Effect(cmd, n)
    PROVE  /\ owner' \in Nodes \cup {None}
           /\ left' \in 0..Ttl
           /\ owner' = None <=> left' = 0
           /\ resigned' \in [Nodes -> BOOLEAN]
           /\ \A m \in Nodes : m # n =>
                /\ resigned'[m] = resigned[m]
                /\ owner = m => owner' = owner /\ left' = left
           /\ \/ UNCHANGED lease
              \/ resigned'[n]
              \/ owner' = n /\ left' = Ttl
           /\ Grants(cmd, n) /\ ~resigned'[n] => owner' = n /\ left' = Ttl
<1>1. CASE ~Grants(cmd, n)
  BY <1>1 DEF Effect, TypeOK, lease
<1>2. CASE Grants(cmd, n)
  <2>1. resigned' = [resigned EXCEPT ![n] = cmd = "resign"]
    BY <1>2 DEF Effect
  <2>2. /\ resigned' \in [Nodes -> BOOLEAN]
        /\ resigned'[n] <=> cmd = "resign"
        /\ \A m \in Nodes : m # n => resigned'[m] = resigned[m]
    BY <2>1, Zenon DEF TypeOK
  <2>3. owner = None \/ owner = n
    BY <1>2 DEF Grants
  <2>4. owner' = IF cmd = "resign" THEN None ELSE n
    BY <1>2 DEF Effect
  <2>5. left' = IF cmd = "resign" THEN 0 ELSE Ttl
    BY <1>2 DEF Effect
  <2> QED BY <2>2, <2>3, <2>4, <2>5, ElectionAssumption
<1> QED BY <1>1, <1>2

\* A command takes nothing from a node that counts on the lease.
LEMMA EffectHolds ==
    ASSUME TypeOK, NEW cmd \in Commands, NEW n \in Nodes, Effect(cmd, n),
           NEW m \in Nodes, NEW age \in 0..Ttl, ~resigned'[m],
           ~resigned[m] => Holds(m, age)
    PROVE  owner' = m /\ left' + age >= Ttl
<1>1. CASE m = n
  <2>1. CASE owner' = n /\ left' = Ttl
    BY <1>1, <2>1, ElectionAssumption
  <2>2. CASE UNCHANGED lease
    BY <1>1, <2>2 DEF lease, Holds
  <2> QED BY <1>1, <2>1, <2>2, EffectKeeps
<1>2. CASE m # n
  <2>1. owner = m /\ left + age >= Ttl
    BY <1>2, EffectKeeps DEF Holds
  <2> QED BY <1>2, <2>1, EffectKeeps
<1> QED BY <1>1, <1>2

\* A command keeps what is said of the lease, whatever its sender does next.
LEMMA EffectInv ==
    ASSUME IInv, NEW cmd \in Commands, NEW n \in Nodes, Effect(cmd, n),
           UNCHANGED <<role, since, sent>>,
           \A m \in Nodes : answer'[m] = "yes" =>
               answer[m] = "yes" \/ (m = n /\ Grants(cmd, n))
    PROVE  LeaderHolds' /\ GrantHolds'
<1> USE DEF IInv
<1>1. LeaderHolds'
  <2> SUFFICES ASSUME NEW m \in Nodes, Fresh(m)' PROVE Holds(m, since[m])'
    BY DEF LeaderHolds
  <2>1. ~resigned[m] => Holds(m, since[m])
    BY DEF LeaderHolds, Fresh
  <2>2. owner' = m /\ left' + since[m] >= Ttl
    BY <2>1, EffectHolds DEF Fresh, TypeOK
  <2> QED BY <2>2 DEF Holds
<1>2. GrantHolds'
  <2> SUFFICES ASSUME NEW m \in Nodes, answer'[m] = "yes", sent[m] < Ttl,
                      ~resigned'[m]
               PROVE  owner' = m /\ left' + sent[m] >= Ttl
    BY DEF GrantHolds, Holds
  <2>1. CASE answer[m] = "yes"
    <3>1. ~resigned[m] => Holds(m, sent[m])
      BY <2>1 DEF GrantHolds
    <3> QED BY <3>1, EffectHolds DEF TypeOK
  <2>2. CASE m = n /\ Grants(cmd, n)
    <3>1. owner' = n /\ left' = Ttl
      BY <2>2, EffectKeeps
    <3> QED BY <2>2, <3>1, ElectionAssumption DEF TypeOK
  <2> QED BY <2>1, <2>2
<1> QED BY <1>1, <1>2

\* Giving up a request leaves the count of late commands a count.
LEMMA GivenUpCounts ==
    ASSUME TypeOK, NEW cmds \in SUBSET (Commands \X Nodes), GivenUp(cmds)
    PROVE  late' \in [Commands \X Nodes -> Nat]
BY DEF TypeOK, GivenUp

LEMMA UnexecutedCommands ==
    ASSUME NEW n \in Nodes
    PROVE  Unexecuted(n) \in SUBSET (Commands \X Nodes)
<1>1. Request(n) \in Commands
  BY DEF Request, Commands
<1> QED BY <1>1 DEF Unexecuted

LEMMA InitInv == Init => IInv
<1> SUFFICES ASSUME Init PROVE IInv
  OBVIOUS
<1> USE ElectionAssumption DEF Init
<1>1. TypeOK
  BY DEF TypeOK
<1>2. LeaderHolds
  BY DEF LeaderHolds, Fresh
<1>3. GrantHolds
  BY DEF GrantHolds
<1>4. Asked
  BY DEF Asked
<1> QED BY <1>1, <1>2, <1>3, <1>4 DEF IInv

-----------------------------------------------------------------------------
\* The steps of a node keep the invariant.
LEMMA LoopInv ==
    ASSUME IInv, NEW n \in Nodes, Loop(n)
    PROVE  IInv'
<1> USE ElectionAssumption DEF IInv
<1>1. CASE Ask(n)
  <2>1. TypeOK'
    BY <1>1 DEF Ask, TypeOK, Calling, lease
  <2>2. answer[n] = "none"
    BY <1>1 DEF Ask, Asked, Calling
  <2>3. LeaderHolds'
    BY <1>1 DEF Ask, LeaderHolds, Fresh, Holds, lease
  <2>4. GrantHolds'
    BY <1>1, <2>2 DEF Ask, GrantHolds, Holds, lease, TypeOK
  <2>5. Asked'
    BY <1>1 DEF Ask, Asked, Calling, TypeOK
  <2> QED BY <2>1, <2>3, <2>4, <2>5
<1>2. CASE Execute(n)
  <2>1. Request(n) \in Commands
    BY DEF Request, Commands
  <2>2. Effect(Request(n), n)
    BY <1>2 DEF Execute
  <2>3. TypeOK'
    BY <1>2, <2>1, <2>2, EffectKeeps DEF Execute, TypeOK
  <2>4. \A m \in Nodes : answer'[m] = "yes" =>
            answer[m] = "yes" \/ (m = n /\ Grants(Request(n), n))
    BY <1>2 DEF Execute, TypeOK
  <2>5. LeaderHolds' /\ GrantHolds'
    <3>1. UNCHANGED <<role, since, sent>>
      BY <1>2 DEF Execute
    <3> QED BY <2>1, <2>2, <2>4, <3>1, EffectInv
  <2>6. Asked'
    BY <1>2 DEF Execute, Asked, TypeOK
  <2> QED BY <2>3, <2>5, <2>6
<1>3. CASE Learn(n)
  <2>0. /\ role' = [role EXCEPT ![n] = RoleAfter(n)]
        /\ since' = [since EXCEPT ![n] =
               IF role'[n] = "Leader" /\ answer[n] = "yes" THEN sent[n] ELSE Ttl]
        /\ UNCHANGED lease
    BY <1>3 DEF Learn
  <2>1. TypeOK'
    <3>1. Pause(n) \in 0..Ttl
      BY DEF Pause
    <3>2. RoleAfter(n) \in {"Leader", "Follower"}
      BY DEF RoleAfter, TypeOK
    <3> QED BY <1>3, <3>1, <3>2 DEF Learn, Sleep, TypeOK, lease
  <2>2. LeaderHolds'
    <3> SUFFICES ASSUME NEW m \in Nodes, Fresh(m)' PROVE Holds(m, since[m])'
      BY DEF LeaderHolds
    <3>1. CASE m = n
      <4>1. answer[n] = "yes" /\ since'[n] = sent[n]
        BY <2>0, <3>1 DEF Fresh, TypeOK
      <4>2. Holds(n, sent[n])
        BY <2>0, <3>1, <4>1 DEF GrantHolds, Fresh, lease
      <4> QED BY <2>0, <3>1, <4>1, <4>2 DEF Holds, lease
    <3>2. CASE m # n
      <4>1. role'[m] = role[m] /\ since'[m] = since[m]
        BY <2>0, <3>2 DEF TypeOK
      <4> QED BY <2>0, <4>1 DEF LeaderHolds, Fresh, Holds, lease
    <3> QED BY <3>1, <3>2
  <2>3. GrantHolds'
    BY <1>3 DEF Learn, Sleep, GrantHolds, Holds, TypeOK, lease
  <2>4. Asked'
    BY <1>3 DEF Learn, Sleep, Asked, TypeOK
  <2> QED BY <2>1, <2>2, <2>3, <2>4
<1> QED BY <1>1, <1>2, <1>3 DEF Loop

\* Lost answers and restarts only take from what is counted on.
LEMMA FailureInv ==
    ASSUME IInv, NEW n \in Nodes, Fail(n) \/ Crash(n)
    PROVE  IInv'
<1> USE ElectionAssumption DEF IInv
<1>1. late' \in [Commands \X Nodes -> Nat]
  BY GivenUpCounts, UnexecutedCommands DEF Fail, Crash
<1>2. faults' \in 0..MaxFaults
  BY DEF Fail, Crash, Fault, TypeOK
<1>3. Pause(n) \in 0..Ttl
  BY DEF Pause
<1>4. TypeOK'
  <2>1. CASE Fail(n)
    BY <1>1, <1>2, <1>3, <2>1 DEF Fail, Sleep, TypeOK, lease
  <2>2. CASE Crash(n)
    BY <1>1, <1>2, <2>2 DEF Crash, TypeOK, lease
  <2> QED BY <2>1, <2>2
<1>5. LeaderHolds'
  <2>1. CASE Fail(n)
    BY <2>1 DEF Fail, LeaderHolds, Fresh, Holds, TypeOK, lease
  <2>2. CASE Crash(n)
    BY <2>2 DEF Crash, LeaderHolds, Fresh, Holds, TypeOK, lease
  <2> QED BY <2>1, <2>2
<1>6. GrantHolds'
  <2>1. CASE Fail(n)
    BY <2>1 DEF Fail, Sleep, GrantHolds, Holds, TypeOK, lease
  <2>2. CASE Crash(n)
    BY <2>2 DEF Crash, GrantHolds, Holds, TypeOK, lease
  <2> QED BY <2>1, <2>2
<1>7. Asked'
  BY DEF Fail, Crash, Sleep, Asked, TypeOK
<1> QED BY <1>4, <1>5, <1>6, <1>7

LEMMA StepDownInv ==
    ASSUME IInv, NEW n \in Nodes, StepDown(n) \/ SteppedDown(n) \/ StepDownFails(n)
    PROVE  IInv'
<1> USE ElectionAssumption DEF IInv
<1>1. CASE StepDown(n)
  <2>1. "resign" \in Commands /\ Effect("resign", n)
    BY <1>1 DEF StepDown, Commands
  <2>2. TypeOK'
    BY <1>1, <2>1, EffectKeeps DEF StepDown, Fault, TypeOK
  <2>3. UNCHANGED <<role, since, sent, answer, pc>>
    BY <1>1 DEF StepDown
  <2>4. LeaderHolds' /\ GrantHolds'
    BY <2>1, <2>3, EffectInv
  <2> QED BY <2>2, <2>3, <2>4 DEF Asked
<1>2. CASE SteppedDown(n)
  <2>1. TypeOK'
    BY <1>2 DEF SteppedDown, TypeOK, lease
  <2>2. LeaderHolds'
    BY <1>2 DEF SteppedDown, LeaderHolds, Fresh, Holds, TypeOK, lease
  <2>3. GrantHolds' /\ Asked'
    BY <1>2 DEF SteppedDown, GrantHolds, Asked, Holds, lease
  <2> QED BY <2>1, <2>2, <2>3
<1>3. CASE StepDownFails(n)
  <2>1. late' \in [Commands \X Nodes -> Nat]
    <3>1. {<<"resign", n>>} \in SUBSET (Commands \X Nodes)
      BY DEF Commands
    <3> QED BY <1>3, <3>1, GivenUpCounts DEF StepDownFails, TypeOK
  <2>2. freed' \in [Nodes -> BOOLEAN] /\ faults' \in 0..MaxFaults
    BY <1>3 DEF StepDownFails, Fault, TypeOK
  <2>3. UNCHANGED <<owner, left, resigned, role, pc, wake, answer, sent, since>>
    BY <1>3 DEF StepDownFails, lease
  <2>4. TypeOK'
    BY <2>1, <2>2, <2>3 DEF TypeOK
  <2>5. LeaderHolds' /\ GrantHolds' /\ Asked'
    BY <2>3 DEF LeaderHolds, GrantHolds, Asked, Fresh, Holds
  <2> QED BY <2>4, <2>5
<1> QED BY <1>1, <1>2, <1>3

LEMMA LateInv ==
    ASSUME IInv, Late
    PROVE  IInv'
<1> USE DEF IInv
<1>1. PICK cmd \in Commands, n \in Nodes :
        /\ late[<<cmd, n>>] > 0
        /\ Effect(cmd, n)
        /\ late' = [late EXCEPT ![<<cmd, n>>] = @ - 1]
        /\ UNCHANGED <<role, pc, wake, answer, freed, faults, sent, since>>
  BY DEF Late
<1>2. late' \in [Commands \X Nodes -> Nat]
  BY <1>1 DEF TypeOK
<1>3. TypeOK'
  BY <1>1, <1>2, EffectKeeps DEF TypeOK
<1>4. LeaderHolds' /\ GrantHolds'
  BY <1>1, EffectInv
<1> QED BY <1>1, <1>3, <1>4 DEF Asked

\* The lease and what is counted on run out together.
LEMMA TickInv ==
    ASSUME IInv, Tick
    PROVE  IInv'
<1> USE ElectionAssumption DEF IInv
<1>0. /\ owner' = IF left = 1 THEN None ELSE owner
      /\ left' = IF left > 0 THEN left - 1 ELSE 0
      /\ \A n \in Nodes : sent'[n] = Older(sent[n]) /\ since'[n] = Older(since[n])
      /\ UNCHANGED <<resigned, role, pc, answer>>
  BY DEF Tick
<1>1. TypeOK'
  <2>1. /\ owner' \in Nodes \cup {None}
        /\ left' \in 0..Ttl
        /\ owner' = None <=> left' = 0
    BY <1>0 DEF TypeOK
  <2>2. \A s \in 0..Ttl : Older(s) \in 0..Ttl
    BY DEF Older
  <2> QED BY <2>1, <2>2 DEF Tick, TypeOK
<1>2. ASSUME NEW n \in Nodes, NEW s \in 0..Ttl, Older(s) < Ttl,
             Holds(n, s)
      PROVE  Holds(n, Older(s))'
  BY <1>0, <1>2 DEF Older, Holds, TypeOK
<1>3. \A s \in 0..Ttl : Older(s) < Ttl => s < Ttl
  BY DEF Older
<1>4. LeaderHolds'
  BY <1>0, <1>2, <1>3 DEF LeaderHolds, Fresh, Holds, TypeOK
<1>5. GrantHolds'
  BY <1>0, <1>2, <1>3 DEF GrantHolds, Holds, TypeOK
<1> QED BY <1>0, <1>1, <1>4, <1>5 DEF Asked

\* The inductive invariant holds in every reachable state.
THEOREM Invariant == Spec => []IInv
<1>1. IInv /\ [Next]_vars => IInv'
  <2> SUFFICES ASSUME IInv, [Next]_vars PROVE IInv'
    OBVIOUS
  <2>1. CASE UNCHANGED vars
    BY <2>1 DEF IInv, TypeOK, LeaderHolds, GrantHolds, Asked, Fresh, Holds, vars, lease
  <2> QED BY <2>1, LoopInv, FailureInv, StepDownInv, LateInv, TickInv DEF Next
<1> QED BY <1>1, InitInv, PTL DEF Spec

-----------------------------------------------------------------------------
\* Every variable keeps to its values, and the key has an owner exactly while it
\* has time to live.
THEOREM TypeCorrect == Spec => []TypeOK
<1>1. IInv => TypeOK
  BY DEF IInv
<1> QED BY <1>1, Invariant, PTL

\* Two nodes are never both leaders on the strength of confirmations they asked
\* for within the last ttl_seconds: the promise of SET NX EX and of the scripts
\* that compare the owner, whatever answers are lost, commands executed late, or
\* nodes restarted.
THEOREM FreshLeadersExclude == Spec => []FreshLeaderExclusive
<1>1. IInv => FreshLeaderExclusive
  <2> SUFFICES ASSUME IInv, NEW m \in Nodes, NEW n \in Nodes, Fresh(m), Fresh(n)
               PROVE  m = n
    BY DEF FreshLeaderExclusive
  <2>1. owner = m /\ owner = n
    BY DEF IInv, LeaderHolds, Holds
  <2> QED BY <2>1
<1> QED BY <1>1, Invariant, PTL
=============================================================================
