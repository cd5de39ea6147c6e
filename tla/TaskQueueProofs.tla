--------------------------- MODULE TaskQueueProofs ---------------------------
(***************************************************************************)
(* Proofs about TaskQueue, for any number of agents and tasks, any          *)
(* priorities and any two timeouts.                                         *)
(*                                                                          *)
(* NeverRerun rests on the mutex (Locked) and on the agreement between the  *)
(* list in memory and the marker files (Known), which a restart             *)
(* re-establishes.  FreshClaimExclusive rests on Guarded: as long as a      *)
(* claim is fresh and its task unfinished, the lock file carries the very   *)
(* timestamp of that claim.  PriorityFirst rests on Passed and Chosen: what *)
(* a scan has passed over is finished or locked, what it picks is foremost. *)
(***************************************************************************)
EXTENDS TaskQueue, TLAPS

\* The mutex is held by the agent that is inside claim_next, complete or fail.
Locked ==
    \A a \in Agents : pc[a] \in Scanning \cup Recording => holder = a

\* Nothing runs while the process is down.
Down == ~up => \A a \in Agents : pc[a] = "idle"

Working == {"stealing", "filling"} \cup Executing \cup Reporting \cup Recording

\* An agent with work to do knows its task.
Assigned == \A a \in Agents : pc[a] \in Working => on[a] \in Tasks

\* Every recorded outcome is known in memory.
Known == up => \A t \in completed \cup failed : Terminal(mem[t])

\* What claim_next looks at, and what it is about to claim, is unfinished.
Unfinished ==
    \A a \in Agents :
      /\ pc[a] = "scanning" => \A t \in left : ~Terminal(mem[t])
      /\ pc[a] \in {"stealing", "filling"} => ~Terminal(mem[on[a]])

\* What is being recorded is finished.
Finished == \A a \in Agents : pc[a] \in Recording => Terminal(mem[on[a]])

\* A fresh claim on an unfinished task is the one in the lock file.
Guarded ==
    \A a \in Agents :
      pc[a] \in Executing /\ age[a] < StaleSecs /\ ~Terminal(mem[on[a]])
        => lock[on[a]] = age[a]

\* Nobody is taking over a task with a fresh claim.
Apart ==
    \A a, b \in Agents :
      pc[a] \in Executing /\ pc[b] \in {"stealing", "filling"} /\ on[a] = on[b]
        => age[a] >= StaleSecs

IInv == /\ TypeOK /\ Locked /\ Down /\ Assigned /\ Known /\ Unfinished
        /\ Finished /\ Guarded /\ Apart /\ FreshClaimExclusive

LEMMA StepKept == IInv /\ [Next]_vars => IInv'
<1> SUFFICES ASSUME IInv, [Next]_vars PROVE IInv'
  OBVIOUS
<1> USE TaskQueueAssumption DEF Tasks, IInv, Executing
<1>1. ASSUME NEW a \in Agents, Begin(a) PROVE IInv'
  <2>1. TypeOK'
    BY <1>1 DEF Begin, TypeOK, files, Phases, Scanning
  <2>2. Locked' /\ Down' /\ Assigned'
    BY <1>1 DEF Begin, TypeOK, Locked, Down, Assigned, Working, Recording, Reporting
  <2>3. Known' /\ Unfinished' /\ Finished'
    BY <1>1 DEF Begin, Known, Unfinished, Finished, Recording, files
  <2>4. Guarded'
    BY <1>1 DEF Begin, Guarded, files
  <2>5. Apart' /\ FreshClaimExclusive'
    BY <1>1 DEF Begin, Apart, FreshClaimExclusive
  <2> QED BY <2>1, <2>2, <2>3, <2>4, <2>5
<1>2. ASSUME NEW a \in Agents, Create(a) PROVE IInv'
  <2>0. PICK t \in left : /\ lock[t] = NoLock
                       /\ lock' = [lock EXCEPT ![t] = Empty]
                       /\ on' = [on EXCEPT ![a] = t]
    BY <1>2 DEF Create
  <2>1. /\ t \in Tasks
        /\ pc[a] = "scanning" /\ pc' = [pc EXCEPT ![a] = "filling"]
        /\ age' = [age EXCEPT ![a] = 0]
        /\ UNCHANGED <<mem, completed, failed, up, holder, left, faults>>
    BY <1>2 DEF Create, TypeOK
  <2>2. TypeOK'
    BY <2>0, <2>1 DEF TypeOK, Phases, Scanning, MaxAge
  <2>3. Locked' /\ Down' /\ Assigned'
    BY <2>0, <2>1 DEF TypeOK, Locked, Down, Assigned, Scanning
  <2>4. Known' /\ Unfinished' /\ Finished'
    BY <2>0, <2>1 DEF TypeOK, Known, Unfinished, Finished, Recording
  <2>5. \A b \in Agents : pc[b] \in Executing /\ on[b] = t => age[b] >= StaleSecs
    <3> SUFFICES ASSUME NEW b \in Agents, pc[b] \in Executing, on[b] = t,
                        ~(age[b] >= StaleSecs)
                 PROVE  FALSE
      OBVIOUS
    <3>1. age[b] \in Nat /\ age[b] < StaleSecs
      BY DEF TypeOK
    <3>2. ~Terminal(mem[t])
      BY <2>1 DEF Unfinished
    <3>3. lock[t] = age[b]
      BY <3>1, <3>2 DEF Guarded
    <3> QED BY <2>0, <3>1, <3>3
  <2>6. Guarded'
    BY <2>0, <2>1, <2>5 DEF TypeOK, Guarded
  <2>7. Apart' /\ FreshClaimExclusive'
    BY <2>0, <2>1, <2>5 DEF TypeOK, Apart, FreshClaimExclusive
  <2> QED BY <2>2, <2>3, <2>4, <2>6, <2>7
<1>3. ASSUME NEW a \in Agents, Skip(a) PROVE IInv'
  <2>1. TypeOK'
    BY <1>3 DEF Skip, TypeOK, files
  <2>2. Locked' /\ Down' /\ Assigned'
    BY <1>3 DEF Skip, Locked, Down, Assigned
  <2>3. Known' /\ Unfinished' /\ Finished'
    BY <1>3 DEF Skip, Known, Unfinished, Finished, files
  <2>4. Guarded'
    BY <1>3 DEF Skip, Guarded, files
  <2>5. Apart' /\ FreshClaimExclusive'
    BY <1>3 DEF Skip, Apart, FreshClaimExclusive
  <2> QED BY <2>1, <2>2, <2>3, <2>4, <2>5
<1>4. ASSUME NEW a \in Agents, Steal(a) PROVE IInv'
  <2>0. PICK t \in left : /\ Stale(lock[t])
                       /\ lock' = [lock EXCEPT ![t] = NoLock]
                       /\ on' = [on EXCEPT ![a] = t]
    BY <1>4 DEF Steal
  <2>1. /\ t \in Tasks
        /\ pc[a] = "scanning" /\ pc' = [pc EXCEPT ![a] = "stealing"]
        /\ age' = [age EXCEPT ![a] = 0]
        /\ UNCHANGED <<mem, completed, failed, up, holder, left, faults>>
    BY <1>4 DEF Steal, TypeOK
  <2>2. TypeOK'
    BY <2>0, <2>1 DEF TypeOK, Phases, Scanning, MaxAge
  <2>3. Locked' /\ Down' /\ Assigned'
    BY <2>0, <2>1 DEF TypeOK, Locked, Down, Assigned, Scanning
  <2>4. Known' /\ Unfinished' /\ Finished'
    BY <2>0, <2>1 DEF TypeOK, Known, Unfinished, Finished, Recording
  <2>5. \A b \in Agents : pc[b] \in Executing /\ on[b] = t => age[b] >= StaleSecs
    <3> SUFFICES ASSUME NEW b \in Agents, pc[b] \in Executing, on[b] = t,
                        ~(age[b] >= StaleSecs)
                 PROVE  FALSE
      OBVIOUS
    <3>1. age[b] \in Nat /\ age[b] < StaleSecs
      BY DEF TypeOK
    <3>2. ~Terminal(mem[t])
      BY <2>1 DEF Unfinished
    <3>3. lock[t] = age[b]
      BY <3>1, <3>2 DEF Guarded
    <3> QED BY <2>0, <3>1, <3>3 DEF Stale
  <2>6. Guarded'
    BY <2>0, <2>1, <2>5 DEF TypeOK, Guarded
  <2>7. Apart' /\ FreshClaimExclusive'
    BY <2>0, <2>1, <2>5 DEF TypeOK, Apart, FreshClaimExclusive
  <2> QED BY <2>2, <2>3, <2>4, <2>6, <2>7
<1>5. ASSUME NEW a \in Agents, Recreate(a) PROVE IInv'
  <2>1. TypeOK'
    BY <1>5 DEF Recreate, TypeOK, Phases, Scanning
  <2>2. Locked' /\ Down' /\ Assigned'
    BY <1>5 DEF Recreate, Locked, Down, Assigned, Working, Scanning
  <2>3. Known' /\ Unfinished' /\ Finished'
    BY <1>5 DEF Recreate, Known, Unfinished, Finished, Recording
  <2>4. Guarded'
    <3>1. \A b \in Agents : pc[b] \in Executing /\ on[b] = on[a] => age[b] >= StaleSecs
      BY <1>5 DEF Recreate, Apart
    <3> QED BY <1>5, <3>1 DEF Recreate, TypeOK, Guarded
  <2>5. Apart' /\ FreshClaimExclusive'
    BY <1>5 DEF Recreate, Apart, FreshClaimExclusive
  <2> QED BY <2>1, <2>2, <2>3, <2>4, <2>5
<1>6. ASSUME NEW a \in Agents, Fill(a) PROVE IInv'
  <2>0. /\ on[a] \in Tasks /\ pc[a] = "filling" /\ ~Terminal(mem[on[a]])
        /\ lock' = [lock EXCEPT ![on[a]] = Stamp(age[a])]
        /\ mem' = [mem EXCEPT ![on[a]] = "claimed"]
        /\ pc' = [pc EXCEPT ![a] = "executing"]
        /\ holder' = None /\ left' = {}
        /\ UNCHANGED <<completed, failed, up, on, age, faults>>
    BY <1>6 DEF Fill, LetGo, Assigned, Working, Unfinished
  <2>1. /\ Stamp(age[a]) \in Ages
        /\ age[a] < StaleSecs => Stamp(age[a]) = age[a]
    BY DEF TypeOK, Stamp, Ages
  <2>2. TypeOK'
    BY <2>0, <2>1 DEF TypeOK, Phases, Statuses
  <2>3. Locked' /\ Down' /\ Assigned'
    BY <2>0 DEF TypeOK, Locked, Down, Assigned, Scanning, Recording
  <2>4. \A b \in Agents : pc'[b] \notin Scanning \cup Recording
    BY <2>0 DEF TypeOK, Locked, Scanning, Recording
  <2>5. Known' /\ Unfinished' /\ Finished'
    BY <2>0, <2>4 DEF Known, Unfinished, Finished, Scanning
  <2>6. \A b \in Agents : pc[b] \in Executing /\ on[b] = on[a] => age[b] >= StaleSecs
    BY <2>0 DEF Apart
  <2>7. Guarded'
    BY <2>0, <2>1, <2>6 DEF TypeOK, Guarded
  <2>8. Apart' /\ FreshClaimExclusive'
    BY <2>0, <2>4, <2>6 DEF Apart, FreshClaimExclusive, Scanning
  <2> QED BY <2>2, <2>3, <2>5, <2>7, <2>8
<1>7. ASSUME NEW a \in Agents, GiveUp(a) PROVE IInv'
  <2>1. TypeOK'
    BY <1>7 DEF GiveUp, LetGo, TypeOK, files, Phases
  <2>2. Locked' /\ Down' /\ Assigned'
    BY <1>7 DEF GiveUp, LetGo, TypeOK, Locked, Down, Assigned, Working,
       Scanning, Recording, Reporting
  <2>3. Known' /\ Unfinished' /\ Finished'
    BY <1>7 DEF GiveUp, LetGo, Known, Unfinished, Finished, Recording, files
  <2>4. Guarded'
    BY <1>7 DEF GiveUp, LetGo, Guarded, files
  <2>5. Apart' /\ FreshClaimExclusive'
    BY <1>7 DEF GiveUp, LetGo, Apart, FreshClaimExclusive
  <2> QED BY <2>1, <2>2, <2>3, <2>4, <2>5
<1>8. ASSUME NEW a \in Agents, CheckDone(a) PROVE IInv'
  <2>1. TypeOK'
    BY <1>8 DEF CheckDone, TypeOK, files, Phases
  <2>2. Locked' /\ Down' /\ Assigned'
    BY <1>8 DEF CheckDone, TypeOK, Locked, Down, Assigned, Working, Scanning,
       Recording, Reporting
  <2>3. Known' /\ Unfinished' /\ Finished'
    BY <1>8 DEF CheckDone, Known, Unfinished, Finished, Recording, files
  <2>4. Guarded'
    BY <1>8 DEF CheckDone, Guarded, files
  <2>5. Apart' /\ FreshClaimExclusive'
    BY <1>8 DEF CheckDone, Apart, FreshClaimExclusive
  <2> QED BY <2>1, <2>2, <2>3, <2>4, <2>5
<1>9. ASSUME NEW a \in Agents, Child(a) \/ TimesOut(a) PROVE IInv'
  <2>0. /\ pc[a] \in Executing
        /\ \E p \in {"reading"} \cup Reporting : pc' = [pc EXCEPT ![a] = p]
        /\ UNCHANGED <<mem, lock, completed, failed, up, holder, left, on, age, faults>>
    BY <1>9 DEF Child, ChildExits, ReadsOutput, ChildFails, TimesOut, Reporting, files
  <2>1. TypeOK'
    BY <2>0 DEF TypeOK, Phases
  <2>2. Locked' /\ Down' /\ Assigned'
    BY <2>0 DEF TypeOK, Locked, Down, Assigned, Working, Scanning, Recording, Reporting
  <2>3. Known' /\ Unfinished' /\ Finished'
    BY <2>0 DEF TypeOK, Known, Unfinished, Finished, Reporting, Recording
  <2>4. /\ \A b \in Agents : pc'[b] \in Executing => pc[b] \in Executing
        /\ \A b \in Agents : pc'[b] \in {"stealing", "filling"} => pc'[b] = pc[b]
    BY <2>0 DEF TypeOK, Reporting
  <2>5. Guarded'
    BY <2>0, <2>4 DEF Guarded
  <2>6. Apart'
    BY <2>0, <2>4 DEF Apart
  <2>7. FreshClaimExclusive'
    BY <2>0, <2>4 DEF FreshClaimExclusive
  <2> QED BY <2>1, <2>2, <2>3, <2>5, <2>6, <2>7
<1>11. ASSUME NEW a \in Agents, Record(a) PROVE IInv'
  <2>1. TypeOK'
    BY <1>11 DEF Record, TypeOK, files, Phases, Statuses, Recording
  <2>2. Locked' /\ Down' /\ Assigned'
    BY <1>11 DEF Record, TypeOK, Locked, Down, Assigned, Working, Reporting
  <2>3. Known' /\ Unfinished' /\ Finished'
    BY <1>11 DEF Record, TypeOK, Locked, Assigned, Known, Unfinished, Finished,
       Working, Scanning, files, Terminal, Ended
  <2>4. Guarded'
    BY <1>11 DEF Record, Guarded, files, Terminal, Ended
  <2>5. Apart' /\ FreshClaimExclusive'
    BY <1>11 DEF Record, Apart, FreshClaimExclusive
  <2> QED BY <2>1, <2>2, <2>3, <2>4, <2>5
<1>12. ASSUME NEW a \in Agents, Mark(a) PROVE IInv'
  <2>1. TypeOK'
    <3>0. on[a] \in Tasks /\ completed \subseteq Tasks /\ failed \subseteq Tasks
      BY <1>12 DEF Mark, TypeOK, Assigned, Working, Recording
    <3>a. /\ completed' \in {completed, completed \cup {on[a]}}
          /\ failed' \in {failed, failed \cup {on[a]}}
      BY <1>12 DEF Mark
    <3>1. completed' \subseteq Tasks /\ failed' \subseteq Tasks
      BY <3>0, <3>a
    <3> QED BY <1>12, <3>1 DEF Mark, TypeOK, Phases, Recording
  <2>2. Locked' /\ Down' /\ Assigned'
    BY <1>12 DEF Mark, Locked, Down, Assigned, Working, Recording
  <2>3. Known' /\ Unfinished' /\ Finished'
    BY <1>12 DEF Mark, Locked, Known, Unfinished, Finished, Recording, Terminal,
       Ended
  <2>4. Guarded'
    BY <1>12 DEF Mark, Guarded
  <2>5. Apart' /\ FreshClaimExclusive'
    BY <1>12 DEF Mark, Apart, FreshClaimExclusive
  <2> QED BY <2>1, <2>2, <2>3, <2>4, <2>5
<1>13. ASSUME NEW a \in Agents, Unlock(a) PROVE IInv'
  <2>1. TypeOK'
    BY <1>13 DEF Unlock, LetGo, TypeOK, Phases
  <2>2. Locked' /\ Down' /\ Assigned'
    BY <1>13 DEF Unlock, LetGo, TypeOK, Locked, Down, Assigned, Working,
       Scanning, Recording, Reporting
  <2>3. Known' /\ Unfinished' /\ Finished'
    BY <1>13 DEF Unlock, LetGo, TypeOK, Known, Unfinished, Finished, Recording
  <2>4. Guarded'
    BY <1>13 DEF Unlock, LetGo, Finished, Guarded, Recording
  <2>5. Apart' /\ FreshClaimExclusive'
    BY <1>13 DEF Unlock, LetGo, Apart, FreshClaimExclusive
  <2> QED BY <2>1, <2>2, <2>3, <2>4, <2>5
<1>14. ASSUME NEW a \in Agents, IoFails(a) PROVE IInv'
  <2>1. TypeOK'
    <3>0. faults < MaxFaults /\ faults' = faults + 1
      BY <1>14 DEF IoFails
    <3>a. faults \in 0..MaxFaults /\ MaxFaults \in Nat
      BY DEF TypeOK
    <3>1. faults' \in 0..MaxFaults
      BY <3>0, <3>a
    <3>2. MaxAge \in Nat
      BY DEF MaxAge
    <3> QED BY <1>14, <3>1, <3>2 DEF IoFails, LetGo, TypeOK, files, Phases
  <2>2. Locked' /\ Down' /\ Assigned'
    BY <1>14 DEF IoFails, LetGo, TypeOK, Locked, Down, Assigned, Working,
       Scanning, Recording, Reporting
  <2>3. Known' /\ Unfinished' /\ Finished'
    BY <1>14 DEF IoFails, LetGo, TypeOK, Known, Unfinished, Finished, Recording,
       files
  <2>4. Guarded'
    BY <1>14 DEF IoFails, LetGo, TypeOK, Guarded, files
  <2>5. Apart' /\ FreshClaimExclusive'
    BY <1>14 DEF IoFails, LetGo, TypeOK, Apart, FreshClaimExclusive
  <2> QED BY <2>1, <2>2, <2>3, <2>4, <2>5
<1>15. ASSUME Crash PROVE IInv'
  <2>1. TypeOK'
    <3>0. faults < MaxFaults /\ faults' = faults + 1
      BY <1>15 DEF Crash
    <3>a. faults \in 0..MaxFaults /\ MaxFaults \in Nat
      BY DEF TypeOK
    <3>1. faults' \in 0..MaxFaults
      BY <3>0, <3>a
    <3>2. pc' \in [Agents -> Phases] /\ on' \in [Agents -> Tasks \cup {None}]
      BY <1>15 DEF Crash, Phases
    <3>3. age' \in [Agents -> 0..MaxAge]
      BY <1>15 DEF Crash, MaxAge
    <3>4. holder' = None /\ left' = {} /\ up' = FALSE /\ UNCHANGED <<mem, files>>
      BY <1>15 DEF Crash
    <3> QED BY <3>1, <3>2, <3>3, <3>4 DEF TypeOK, files
  <2>2. Locked' /\ Down' /\ Assigned'
    BY <1>15 DEF Crash, Locked, Down, Assigned, Working, Scanning, Recording,
       Reporting
  <2>3. Known' /\ Unfinished' /\ Finished'
    BY <1>15 DEF Crash, Known, Unfinished, Finished, Recording
  <2>4. Guarded'
    BY <1>15 DEF Crash, Guarded
  <2>5. Apart' /\ FreshClaimExclusive'
    BY <1>15 DEF Crash, Apart, FreshClaimExclusive
  <2> QED BY <2>1, <2>2, <2>3, <2>4, <2>5
<1>16. ASSUME Restart PROVE IInv'
  <2>1. TypeOK'
    BY <1>16 DEF Restart, Loaded, TypeOK, files, Statuses
  <2>2. Locked' /\ Down' /\ Assigned'
    BY <1>16 DEF Restart, Locked, Down, Assigned
  <2>3. Known' /\ Unfinished' /\ Finished'
    BY <1>16 DEF Restart, Loaded, TypeOK, Down, Known, Unfinished, Finished,
       Recording, files, Terminal, Ended
  <2>4. Guarded'
    BY <1>16 DEF Restart, Down, Guarded
  <2>5. Apart' /\ FreshClaimExclusive'
    BY <1>16 DEF Restart, Apart, FreshClaimExclusive
  <2> QED BY <2>1, <2>2, <2>3, <2>4, <2>5
<1>17. ASSUME Tick PROVE IInv'
  <2>0. /\ \A t \in Tasks : lock'[t] = IF lock[t] \in Ages \ {StaleSecs}
                                         THEN lock[t] + 1 ELSE lock[t]
        /\ \A b \in Agents : age'[b] = IF age[b] < MaxAge THEN age[b] + 1 ELSE age[b]
        /\ UNCHANGED <<mem, completed, failed, up, holder, left, pc, on, faults>>
    BY <1>17 DEF Tick
  <2>1. TypeOK'
    <3>1. lock' \in [Tasks -> Ages \cup {NoLock, Empty}]
      BY <1>17 DEF Tick, TypeOK, Ages
    <3>2. age' \in [Agents -> 0..MaxAge]
      BY <1>17 DEF Tick, TypeOK, MaxAge
    <3> QED BY <2>0, <3>1, <3>2 DEF TypeOK
  <2>2. Locked' /\ Down' /\ Assigned'
    BY <2>0 DEF Locked, Down, Assigned
  <2>3. Known' /\ Unfinished' /\ Finished'
    BY <2>0 DEF Known, Unfinished, Finished
  <2>4. Guarded'
    <3> SUFFICES ASSUME NEW b \in Agents, pc[b] \in Executing,
                        age'[b] < StaleSecs, ~Terminal(mem[on[b]])
                 PROVE  lock'[on[b]] = age'[b]
      BY <2>0 DEF Guarded
    <3>1. age'[b] = age[b] + 1 /\ age[b] \in Nat /\ age[b] < StaleSecs
      BY <2>0 DEF TypeOK, MaxAge
    <3>2. lock[on[b]] = age[b]
      BY <3>1 DEF Guarded
    <3>3. on[b] \in Tasks
      BY DEF Assigned, Working
    <3> QED BY <2>0, <3>1, <3>2, <3>3 DEF Ages
  <2>5. \A b \in Agents : age[b] >= StaleSecs => age'[b] >= StaleSecs
    BY <2>0 DEF TypeOK, MaxAge
  <2>6. Apart' /\ FreshClaimExclusive'
    BY <2>0, <2>5 DEF Apart, FreshClaimExclusive
  <2> QED BY <2>1, <2>2, <2>3, <2>4, <2>6
<1>18. CASE UNCHANGED vars
  BY <1>18 DEF vars, files, TypeOK, Locked, Down, Assigned, Known, Unfinished,
     Finished, Guarded, Apart, FreshClaimExclusive
<1> QED BY <1>1, <1>2, <1>3, <1>4, <1>5, <1>6, <1>7, <1>8, <1>9, <1>11,
           <1>12, <1>13, <1>14, <1>15, <1>16, <1>17, <1>18 DEF Next, Works

LEMMA InitInv == Init => IInv
<1> SUFFICES ASSUME Init PROVE IInv
  OBVIOUS
<1> USE TaskQueueAssumption DEF Init, Tasks, Executing
<1>1. TypeOK
  BY DEF TypeOK, Statuses, Phases, MaxAge
<1>2. Locked /\ Down /\ Assigned /\ Known
  BY DEF Locked, Down, Assigned, Known, Scanning, Recording, Reporting, Working
<1>3. Unfinished /\ Finished /\ Guarded /\ Apart /\ FreshClaimExclusive
  BY DEF Unfinished, Finished, Guarded, Apart, FreshClaimExclusive, Recording
<1> QED BY <1>1, <1>2, <1>3 DEF IInv

\* The inductive invariant, whose parts are stated above, holds in every
\* reachable state.
THEOREM Invariant == Spec => []IInv
<1> QED BY InitInv, StepKept, PTL DEF Spec

-----------------------------------------------------------------------------
\* Every variable keeps to its values (TypeOK), for any number of agents and
\* tasks and any two timeouts.
THEOREM TypeCorrect == Spec => []TypeOK
<1>1. IInv => TypeOK
  BY DEF IInv
<1> QED BY <1>1, Invariant, PTL

\* Two agents execute the same task only when the claim of one of them has
\* outlived stale_lock_secs (FreshClaimExclusive): what the lock files of
\* claim_next guarantee, whatever crashes and fails.
THEOREM FreshClaimsExclude == Spec => []FreshClaimExclusive
<1>1. IInv => FreshClaimExclusive
  BY DEF IInv
<1> QED BY <1>1, Invariant, PTL

\* An agent starts a task only by writing its lock.
LEMMA StartsByFill ==
    ASSUME IInv, Next, NEW a \in Agents, Starts(a)
    PROVE  Fill(a) /\ on' = on /\ pc[a] = "filling"
<1>1. PICK b \in Agents : Fill(b)
  <2>1. ASSUME NEW b \in Agents, Works(b) \/ Child(b) \/ IoFails(b)
        PROVE  Fill(b)
    <3> USE DEF Starts, IInv, TypeOK
    <3>1. ~Begin(b) /\ ~Create(b) /\ ~Skip(b) /\ ~Steal(b) /\ ~Recreate(b)
      BY DEF Begin, Create, Skip, Steal, Recreate
    <3>2. ~GiveUp(b) /\ ~CheckDone(b) /\ ~TimesOut(b) /\ ~Child(b)
      BY DEF GiveUp, CheckDone, TimesOut, Child, ChildExits, ReadsOutput, ChildFails,
         Reporting, LetGo
    <3>3. ~Record(b) /\ ~Mark(b) /\ ~Unlock(b) /\ ~IoFails(b)
      BY DEF Record, Mark, Unlock, IoFails, LetGo
    <3> QED BY <2>1, <3>1, <3>2, <3>3 DEF Works
  <2>2. ~Crash /\ ~Restart /\ ~Tick
    BY DEF Crash, Restart, Tick, Starts
  <2> QED BY <2>1, <2>2 DEF Next
<1>2. a = b /\ on' = on /\ pc[b] = "filling"
  BY <1>1 DEF Fill, LetGo, Starts
<1> QED BY <1>1, <1>2

\* A task whose outcome is in the lock directory is never executed again
\* (NeverRerun): an agent starts a task only by Fill, and what Fill claims is
\* unfinished in memory, where every recorded outcome is known.
THEOREM RecordedNeverRerun == Spec => NeverRerun
<1>1. ASSUME IInv, Next, NEW a \in Agents, Starts(a)
      PROVE  on'[a] \notin completed \cup failed
  <2>1. on' = on /\ pc[a] = "filling"
    BY <1>1, StartsByFill
  <2>2. up /\ ~Terminal(mem[on[a]])
    BY <1>1, <2>1 DEF IInv, Down, Unfinished
  <2> QED BY <1>1, <2>1, <2>2 DEF IInv, Known
<1>2. IInv /\ [Next]_vars =>
        [\A a \in Agents : Starts(a) => on'[a] \notin completed \cup failed]_vars
  BY <1>1
<1> QED BY <1>2, Invariant, PTL DEF Spec, NeverRerun

-----------------------------------------------------------------------------
(* Priority.  What claim_next has passed over is finished or locked, and    *)
(* stays so as long as it holds the mutex.                                  *)

Passed ==
    \A a \in Agents : pc[a] \in Scanning =>
      \A t \in Tasks \ left : Terminal(mem[t]) \/ lock[t] # NoLock

\* What it is about to claim was the foremost of the rest.
Chosen == \A a \in Agents : pc[a] \in {"stealing", "filling"} => Foremost(on[a])

Scan == Passed /\ Chosen

\* A step that ends every scan there is.
LEMMA NoScan ==
    ASSUME IInv, NEW a \in Agents, holder = a \/ holder = None,
           \A b \in Agents \ {a} : pc'[b] = pc[b],
           pc'[a] \notin Scanning
    PROVE  Scan'
<1>1. \A b \in Agents : pc'[b] \notin Scanning
  <2>1. None \notin Agents
    BY TaskQueueAssumption
  <2> QED BY <2>1 DEF IInv, Locked
<1> QED BY <1>1 DEF Scan, Passed, Chosen, Scanning

\* A step by an agent without the mutex, of its own phase alone.
LEMMA Bystander ==
    ASSUME Scan, NEW a \in Agents, UNCHANGED <<mem, lock, left, on>>,
           \A b \in Agents \ {a} : pc'[b] = pc[b],
           pc'[a] \notin Scanning
    PROVE  Scan'
  BY DEF Scan, Passed, Chosen, Scanning, Foremost

LEMMA ScanKept == IInv /\ Scan /\ [Next]_vars => Scan'
<1> SUFFICES ASSUME IInv, Scan, [Next]_vars PROVE Scan'
  OBVIOUS
<1>0. /\ TypeOK /\ Locked /\ Down /\ Unfinished /\ Assigned
      /\ None \notin Agents /\ NoLock # Empty /\ NoLock \notin Nat
      /\ StaleSecs \in Nat
  BY TaskQueueAssumption DEF IInv
<1> USE <1>0
<1>1. ASSUME NEW a \in Agents, Begin(a) PROVE Scan'
  <2>1. \A b \in Agents : pc[b] \notin Scanning
    BY <1>1 DEF Begin, Locked
  <2>2. \A b \in Agents : pc'[b] \in Scanning => b = a /\ pc'[b] = "scanning"
    BY <1>1, <2>1 DEF Begin, TypeOK
  <2> QED BY <1>1, <2>2 DEF Begin, Scan, Passed, Chosen, Scanning
<1>2. ASSUME NEW a \in Agents, pc[a] \in Scanning
      PROVE  \A b \in Agents : pc[b] \in Scanning => b = a
  BY <1>2 DEF Locked
<1>3. ASSUME NEW a \in Agents, Create(a) PROVE Scan'
  <2>1. PICK t \in left : /\ Foremost(t) /\ lock' = [lock EXCEPT ![t] = Empty]
                          /\ on' = [on EXCEPT ![a] = t]
    BY <1>3 DEF Create
  <2>2. pc[a] = "scanning" /\ pc' = [pc EXCEPT ![a] = "filling"] /\ UNCHANGED <<mem, left>>
    BY <1>3 DEF Create
  <2>3. \A b \in Agents : pc'[b] \in Scanning => b = a
    BY <1>2, <2>2 DEF TypeOK, Scanning
  <2>4. \A u \in Tasks \ left : Terminal(mem[u]) \/ lock[u] # NoLock
    BY <2>2 DEF Scan, Passed, Scanning
  <2> QED BY <2>1, <2>2, <2>3, <2>4 DEF Scan, Passed, Chosen, TypeOK, Foremost
<1>4. ASSUME NEW a \in Agents, Skip(a) PROVE Scan'
  <2>1. \A b \in Agents : pc[b] \in Scanning => b = a
    BY <1>2, <1>4 DEF Skip, Scanning
  <2>2. PICK t \in left : lock[t] # NoLock /\ left' = left \ {t}
    BY <1>4 DEF Skip
  <2>3. \A b \in Agents : pc[b] \notin {"stealing", "filling"}
    BY <1>4, <2>1 DEF Skip, Scanning
  <2> QED BY <1>4, <2>1, <2>2, <2>3 DEF Skip, files, Scan, Passed, Chosen
<1>5. ASSUME NEW a \in Agents, Steal(a) PROVE Scan'
  <2>1. PICK t \in left : /\ Foremost(t) /\ lock' = [lock EXCEPT ![t] = NoLock]
                          /\ on' = [on EXCEPT ![a] = t]
    BY <1>5 DEF Steal
  <2>2. pc[a] = "scanning" /\ pc' = [pc EXCEPT ![a] = "stealing"] /\ UNCHANGED <<mem, left>>
    BY <1>5 DEF Steal
  <2>3. \A b \in Agents : pc'[b] \in Scanning => b = a
    BY <1>2, <2>2 DEF TypeOK, Scanning
  <2>4. \A u \in Tasks \ left : Terminal(mem[u]) \/ lock[u] # NoLock
    BY <2>2 DEF Scan, Passed, Scanning
  <2> QED BY <2>1, <2>2, <2>3, <2>4 DEF Scan, Passed, Chosen, TypeOK, Foremost
<1>6. ASSUME NEW a \in Agents, Recreate(a) PROVE Scan'
  <2>1. /\ pc[a] = "stealing" /\ pc' = [pc EXCEPT ![a] = "filling"]
        /\ lock' = [lock EXCEPT ![on[a]] = Empty] /\ UNCHANGED <<mem, left, on>>
    BY <1>6 DEF Recreate
  <2>2. \A b \in Agents : pc'[b] \in Scanning => b = a
    BY <1>2, <2>1 DEF TypeOK, Scanning
  <2>3. Foremost(on[a]) /\ \A u \in Tasks \ left : Terminal(mem[u]) \/ lock[u] # NoLock
    BY <2>1 DEF Scan, Passed, Chosen, Scanning
  <2> QED BY <2>1, <2>2, <2>3 DEF Scan, Passed, Chosen, TypeOK, Foremost
<1>7. ASSUME NEW a \in Agents, Fill(a) \/ GiveUp(a) \/ Unlock(a) \/ IoFails(a)
      PROVE  Scan'
  <2>1. pc[a] \in Scanning \cup Recording
    BY <1>7 DEF Fill, GiveUp, Unlock, IoFails, Scanning, Recording
  <2>2. holder = a
    BY <2>1 DEF Locked
  <2>3. (\A b \in Agents \ {a} : pc'[b] = pc[b]) /\ pc'[a] \notin Scanning
    BY <1>7 DEF Fill, GiveUp, Unlock, IoFails, LetGo, TypeOK, Scanning
  <2> QED BY <2>2, <2>3, NoScan
<1>8. ASSUME NEW a \in Agents, Record(a) \/ Mark(a) PROVE Scan'
  <2>1. holder = a \/ holder = None
    BY <1>8 DEF Record, Mark, Locked, Recording
  <2>2. (\A b \in Agents \ {a} : pc'[b] = pc[b]) /\ pc'[a] \notin Scanning
    BY <1>8 DEF Record, Mark, TypeOK, Scanning
  <2> QED BY <2>1, <2>2, NoScan
<1>9. ASSUME NEW a \in Agents, CheckDone(a) \/ Child(a) \/ TimesOut(a)
      PROVE  Scan'
  <2>1. UNCHANGED <<mem, lock, left, on>>
    BY <1>9 DEF CheckDone, Child, ChildExits, ReadsOutput, ChildFails,
       TimesOut, Executing, Reporting, files
  <2>2. (\A b \in Agents \ {a} : pc'[b] = pc[b]) /\ pc'[a] \notin Scanning
    BY <1>9 DEF CheckDone, Child, ChildExits, ReadsOutput, ChildFails,
       TimesOut, Executing, Reporting, TypeOK, Scanning
  <2> QED BY <2>1, <2>2, Bystander
<1>10. CASE Crash
  BY <1>10 DEF Crash, Scan, Passed, Chosen, Scanning
<1>11. CASE Restart
  BY <1>11 DEF Restart, Down, Scan, Passed, Chosen, Scanning
<1>12. CASE Tick
  <2>1. \A t \in Tasks : lock[t] # NoLock => lock'[t] # NoLock
    BY <1>12 DEF Tick, TypeOK, Ages
  <2> QED BY <1>12, <2>1 DEF Tick, Scan, Passed, Chosen, Foremost
<1>13. CASE UNCHANGED vars
  BY <1>13 DEF vars, files, Scan, Passed, Chosen, Foremost
<1> QED BY <1>1, <1>3, <1>4, <1>5, <1>6, <1>7, <1>8, <1>9, <1>10, <1>11, <1>12,
           <1>13 DEF Next, Works

\* The highest priority first (PriorityFirst), for any number of agents and
\* tasks: whoever starts a task has passed every more urgent one, finished or
\* locked, under the mutex it still holds.
THEOREM UrgentFirst == Spec => PriorityFirst
<1>1. Init => Scan
  BY DEF Init, Scan, Passed, Chosen, Scanning
<1>2. ASSUME IInv, Scan, Next, NEW a \in Agents, Starts(a),
             NEW t \in Tasks, Priority[t] < Priority[on'[a]]
      PROVE  Terminal(mem[t]) \/ lock[t] # NoLock
  <2>1. on' = on /\ pc[a] = "filling"
    BY <1>2, StartsByFill
  <2>2. Foremost(on[a]) /\ Passed
    BY <1>2, <2>1 DEF Scan, Chosen
  <2>3. t \notin left
    <3>1. /\ on[a] \in Tasks
          /\ Priority[t] \in Nat /\ Priority[on[a]] \in Nat
      BY <1>2, <2>1, TaskQueueAssumption DEF IInv, Assigned, Working
    <3> QED BY <1>2, <2>1, <2>2, <3>1 DEF Foremost, Before
  <2> QED BY <2>1, <2>2, <2>3 DEF Passed, Scanning
<1>3. IInv /\ Scan /\ [Next]_vars =>
        [\A a \in Agents : Starts(a) =>
           \A t \in Tasks :
              Priority[t] < Priority[on'[a]] => Terminal(mem[t]) \/ lock[t] # NoLock]_vars
  BY <1>2
<1> QED BY <1>1, <1>3, ScanKept, Invariant, PTL DEF Spec, PriorityFirst

-----------------------------------------------------------------------------
(* No fleet that waits for nobody: the safety half of FleetFinishes.        *)

\* The mutex is never left locked: whoever holds it is on its way to let go.
MutexAttended == holder # None => pc[holder] \in Scanning \cup Recording

\* An agent leaves only when there is nothing left to do, and nothing comes
\* back to be done while the process runs.
AgentsLeaveLast ==
    \A a \in Agents : pc[a] = "exited" => \A t \in Tasks : Terminal(mem[t])

LEMMA MutexKept == IInv /\ MutexAttended /\ [Next]_vars => MutexAttended'
<1> SUFFICES ASSUME IInv, MutexAttended, [Next]_vars PROVE MutexAttended'
  OBVIOUS
<1> USE TaskQueueAssumption DEF IInv, TypeOK, MutexAttended, Scanning, Recording
<1>1. ASSUME NEW a \in Agents, Begin(a) \/ Create(a) \/ Skip(a) \/ Steal(a) \/ Recreate(a)
      PROVE  MutexAttended'
  <2>1. CASE Begin(a)
    BY <2>1 DEF Begin
  <2>2. CASE Create(a) \/ Skip(a)
    BY <2>2 DEF Create, Skip, Locked
  <2>3. CASE Steal(a) \/ Recreate(a)
    BY <2>3 DEF Steal, Recreate, Locked
  <2> QED BY <1>1, <2>1, <2>2, <2>3
<1>2. ASSUME NEW a \in Agents, Fill(a) \/ GiveUp(a) \/ Unlock(a) \/ IoFails(a)
      PROVE  MutexAttended'
  BY <1>2 DEF Fill, GiveUp, Unlock, IoFails, LetGo
<1>3. ASSUME NEW a \in Agents, Record(a) \/ Mark(a) PROVE MutexAttended'
  <2>1. holder' = a /\ pc'[a] \in Recording
    BY <1>3 DEF Record, Mark, Locked
  <2> QED BY <2>1
<1>4. ASSUME NEW a \in Agents, CheckDone(a) \/ Child(a) \/ TimesOut(a)
      PROVE  MutexAttended'
  <2>1. /\ holder' = holder /\ pc[a] \notin Scanning \cup Recording
        /\ \A b \in Agents \ {a} : pc'[b] = pc[b]
    BY <1>4 DEF CheckDone, Child, ChildExits, ReadsOutput, ChildFails,
       TimesOut, Executing, Reporting
  <2> QED BY <2>1
<1>5. CASE Crash
  BY <1>5 DEF Crash
<1>6. CASE Restart \/ Tick \/ UNCHANGED vars
  BY <1>6 DEF Restart, Tick, vars
<1> QED BY <1>1, <1>2, <1>3, <1>4, <1>5, <1>6 DEF Next, Works

LEMMA LastKept == IInv /\ AgentsLeaveLast /\ [Next]_vars => AgentsLeaveLast'
<1> SUFFICES ASSUME IInv, AgentsLeaveLast, [Next]_vars PROVE AgentsLeaveLast'
  OBVIOUS
<1> USE TaskQueueAssumption DEF IInv, TypeOK, AgentsLeaveLast
<1>1. ASSUME NEW a \in Agents, pc'[a] # "exited",
             \A b \in Agents \ {a} : pc'[b] = pc[b], mem' = mem
      PROVE  AgentsLeaveLast'
  BY <1>1
<1>2. ASSUME NEW a \in Agents,
             Begin(a) \/ Create(a) \/ Steal(a) \/ Recreate(a) \/ GiveUp(a)
             \/ Child(a) \/ TimesOut(a) \/ Mark(a) \/ Unlock(a) \/ IoFails(a)
      PROVE  AgentsLeaveLast'
  <2>1. CASE Begin(a) \/ Create(a) \/ Steal(a) \/ Recreate(a)
    BY <1>1, <2>1 DEF Begin, Create, Steal, Recreate
  <2>2. CASE GiveUp(a) \/ Unlock(a) \/ IoFails(a)
    BY <1>1, <2>2 DEF GiveUp, Unlock, IoFails, LetGo
  <2>3. CASE Child(a) \/ TimesOut(a) \/ Mark(a)
    BY <1>1, <2>3 DEF Child, ChildExits, ReadsOutput, ChildFails, TimesOut, Mark, Reporting
  <2> QED BY <1>2, <2>1, <2>2, <2>3
<1>3. ASSUME NEW a \in Agents, Fill(a) PROVE AgentsLeaveLast'
  <2>1. on[a] \in Tasks /\ ~Terminal(mem[on[a]])
    BY <1>3 DEF Fill, Unfinished, Assigned, Working
  <2>2. \A b \in Agents : pc[b] # "exited"
    BY <2>1
  <2> QED BY <1>3, <2>2 DEF Fill, LetGo
<1>4. ASSUME NEW a \in Agents, Record(a) PROVE AgentsLeaveLast'
  <2>1. \A t \in Tasks : Terminal(mem[t]) => Terminal(mem'[t])
    BY <1>4 DEF Record, Terminal, Ended
  <2>2. pc'[a] # "exited" /\ \A b \in Agents \ {a} : pc'[b] = pc[b]
    BY <1>4 DEF Record
  <2> QED BY <2>1, <2>2
<1>5. ASSUME NEW a \in Agents, CheckDone(a) PROVE AgentsLeaveLast'
  <2>1. /\ mem' = mem /\ \A b \in Agents \ {a} : pc'[b] = pc[b]
        /\ pc'[a] = "exited" => \A t \in Tasks : Terminal(mem[t])
    BY <1>5 DEF CheckDone
  <2> QED BY <2>1
<1>6. CASE Crash
  BY <1>6 DEF Crash
<1>7. CASE Restart
  BY <1>7 DEF Restart, Down
<1>8. CASE Tick \/ UNCHANGED vars \/ \E a \in Agents : Skip(a)
  BY <1>8 DEF Tick, Skip, vars
<1> QED BY <1>2, <1>3, <1>4, <1>5, <1>6, <1>7, <1>8 DEF Next, Works

\* The fleet cannot get stuck behind its own mutex, and no agent gives up while
\* a task is unfinished (what FleetFinishes rests on, for any number of agents
\* and tasks): a holder of the mutex is about to release it, crashes and I/O
\* errors included, and who has left, has left a list of finished tasks.
THEOREM FleetKeepsWorking == Spec => [](MutexAttended /\ AgentsLeaveLast)
<1>1. Init => MutexAttended /\ AgentsLeaveLast
  BY DEF Init, MutexAttended, AgentsLeaveLast
<1> QED BY <1>1, MutexKept, LastKept, Invariant, PTL DEF Spec
=============================================================================
