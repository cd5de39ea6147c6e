------------------------------ MODULE TaskQueue ------------------------------
(***************************************************************************)
(* The agent fleet of coordination/: agents of one process share a         *)
(* TaskQueue (queue.rs), claim tasks through lock files, execute them and  *)
(* leave a marker file with the outcome (spawner.rs, worker.rs).           *)
(*                                                                         *)
(* The lock directory survives a crash of the process, the task list in    *)
(* memory does not.  claim_next, complete and fail hold the mutex of the   *)
(* list from their first to their last file operation, so the steps in     *)
(* between are seen by a crash and by the clock, never by another agent.   *)
(* A lock file is represented by the age of the timestamp in it.           *)
(***************************************************************************)
EXTENDS Naturals, FiniteSets

CONSTANTS
    Agents,         \* the tasks of AgentSpawner::spawn_fleet
    NumTasks,       \* how many tasks the file lists
    Priority,       \* the priority of each, 1 is the highest
    StaleSecs,      \* stale_lock_secs, 300 by default
    TimeoutSecs,    \* timeout_secs, 600 by default
    MaxFaults,      \* how many crashes and I/O errors may happen
    NoLock,         \* there is no lock file
    Empty,          \* the lock file does not parse: created and not yet written
    None

Tasks == 1..NumTasks

ASSUME TaskQueueAssumption ==
    /\ NumTasks \in Nat
    /\ Priority \in [Tasks -> Nat]
    /\ StaleSecs \in Nat \ {0}
    /\ TimeoutSecs \in Nat \ {0}
    /\ MaxFaults \in Nat
    /\ None \notin Agents \cup Tasks
    /\ NoLock \notin Nat /\ Empty \notin Nat /\ NoLock # Empty

VARIABLES
    mem,            \* the status of each task in memory
    lock,           \* {task}.claimed: NoLock, Empty, or the age of its timestamp
    completed,      \* tasks with a {task}.completed file
    failed,         \* tasks with a {task}.failed file
    up,             \* the process is running
    holder,         \* the agent that holds the mutex of the task list
    left,           \* the candidates its claim_next has not looked at yet
    pc,             \* where each agent is in agent_loop
    on,             \* the task each agent is working on, or None
    age,            \* seconds since each agent stamped its last lock
    faults          \* how many crashes and I/O errors there were

files == <<lock, completed, failed>>
vars == <<mem, files, up, holder, left, pc, on, age, faults>>

Statuses == {"pending", "claimed", "completed", "failed"}
Ended == {"completed", "failed"}

\* The phases in which claim_next, complete or fail hold the mutex.
Scanning == {"scanning", "stealing", "filling"}
Recording == {"marking", "unlocking"}
Reporting == {"succeeded", "gone wrong"}
\* execute() waits for the child, then for the end of what it wrote.
Executing == {"executing", "reading"}
Phases == {"idle", "checking", "exited"}
            \cup Scanning \cup Executing \cup Recording \cup Reporting

Ages == 0..StaleSecs
MaxAge == StaleSecs + TimeoutSecs

TypeOK ==
    /\ mem \in [Tasks -> Statuses]
    /\ lock \in [Tasks -> Ages \cup {NoLock, Empty}]
    /\ completed \subseteq Tasks /\ failed \subseteq Tasks
    /\ up \in BOOLEAN
    /\ holder \in Agents \cup {None}
    /\ left \subseteq Tasks
    /\ pc \in [Agents -> Phases]
    /\ on \in [Agents -> Tasks \cup {None}]
    /\ age \in [Agents -> 0..MaxAge]
    /\ faults \in 0..MaxFaults

-----------------------------------------------------------------------------
\* Mutant: a failed task is taken for unfinished.
TerminalCompleted(status) == status = "completed"

Terminal(status) == status \in Ended

\* Mutant: the highest number first.
BeforeReversed(t, u) == Priority[t] > Priority[u] \/ (Priority[t] = Priority[u] /\ t < u)

\* candidate_indices.sort_by_key is stable: file order within a priority.
Before(t, u) ==
    \/ Priority[t] < Priority[u]
    \/ Priority[t] = Priority[u] /\ t < u

Foremost(t) == t \in left /\ \A u \in left \ {t} : Before(t, u)

\* Mutants: a lock that does not parse is kept; the comparison is inverted.
StaleByAge(content) == content = StaleSecs
StaleInverted(content) == content # StaleSecs

\* is_lock_stale: too old, or not parseable.
Stale(content) == content \in {Empty, StaleSecs}

\* The timestamp an agent wrote s seconds after taking it.
Stamp(s) == IF s < StaleSecs THEN s ELSE StaleSecs

\* TaskQueue::new reconciles the task file with the lock directory.
Loaded == [t \in Tasks |->
    CASE t \in completed -> "completed"
      [] t \in failed \ completed -> "failed"
      [] t \notin completed \cup failed ->
           IF lock[t] \in Ages THEN "claimed" ELSE "pending"]

Init ==
    /\ mem = [t \in Tasks |-> "pending"]
    /\ lock = [t \in Tasks |-> NoLock]
    /\ completed = {} /\ failed = {}
    /\ up = TRUE
    /\ holder = None /\ left = {}
    /\ pc = [a \in Agents |-> "idle"]
    /\ on = [a \in Agents |-> None]
    /\ age = [a \in Agents |-> 0]
    /\ faults = 0

\* An agent lets go of the mutex and goes back to the top of its loop.
LetGo(a, phase) ==
    /\ holder' = None
    /\ left' = {}
    /\ pc' = [pc EXCEPT ![a] = phase]

-----------------------------------------------------------------------------
\* claim_next locks the list and collects the tasks that are not terminal.
Begin(a) ==
    /\ up
    /\ pc[a] = "idle"
    /\ holder = None
    /\ holder' = a
    /\ left' = {t \in Tasks : ~Terminal(mem[t])}
    /\ pc' = [pc EXCEPT ![a] = "scanning"]
    /\ UNCHANGED <<mem, files, up, on, age, faults>>

\* try_create_lock: create_new succeeds, the content is not written yet.
Create(a) ==
    /\ pc[a] = "scanning"
    /\ \E t \in left :
         /\ Foremost(t)
         /\ lock[t] = NoLock
         /\ lock' = [lock EXCEPT ![t] = Empty]
         /\ on' = [on EXCEPT ![a] = t]
    /\ age' = [age EXCEPT ![a] = 0]
    /\ pc' = [pc EXCEPT ![a] = "filling"]
    /\ UNCHANGED <<mem, completed, failed, up, holder, left, faults>>

\* The lock exists and is fresh: the next candidate.
Skip(a) ==
    /\ pc[a] = "scanning"
    /\ \E t \in left :
         /\ Foremost(t)
         /\ lock[t] # NoLock /\ ~Stale(lock[t])
         /\ left' = left \ {t}
    /\ UNCHANGED <<mem, files, up, holder, pc, on, age, faults>>

\* The lock exists and is stale: steal_lock removes it ...
Steal(a) ==
    /\ pc[a] = "scanning"
    /\ \E t \in left :
         /\ Foremost(t)
         /\ Stale(lock[t])
         /\ lock' = [lock EXCEPT ![t] = NoLock]
         /\ on' = [on EXCEPT ![a] = t]
    /\ age' = [age EXCEPT ![a] = 0]
    /\ pc' = [pc EXCEPT ![a] = "stealing"]
    /\ UNCHANGED <<mem, completed, failed, up, holder, left, faults>>

\* ... and creates it again.
Recreate(a) ==
    /\ pc[a] = "stealing"
    /\ lock' = [lock EXCEPT ![on[a]] = Empty]
    /\ pc' = [pc EXCEPT ![a] = "filling"]
    /\ UNCHANGED <<mem, completed, failed, up, holder, left, on, age, faults>>

\* The content of the lock is written: the task is claimed and executed.
Fill(a) ==
    /\ pc[a] = "filling"
    /\ lock' = [lock EXCEPT ![on[a]] = Stamp(age[a])]
    /\ mem' = [mem EXCEPT ![on[a]] = "claimed"]
    /\ LetGo(a, "executing")
    /\ UNCHANGED <<completed, failed, up, on, age, faults>>

\* claim_next returns Ok(None).
GiveUp(a) ==
    /\ pc[a] = "scanning"
    /\ left = {}
    /\ LetGo(a, "checking")
    /\ UNCHANGED <<mem, files, up, on, age, faults>>

\* all_done, under the mutex: the agent leaves, or sleeps and tries again.
CheckDone(a) ==
    /\ pc[a] = "checking"
    /\ holder = None
    /\ pc' = [pc EXCEPT ![a] =
                IF \A t \in Tasks : Terminal(mem[t]) THEN "exited" ELSE "idle"]
    /\ UNCHANGED <<mem, files, up, holder, left, on, age, faults>>

\* The child exits in time: its stdout and stderr are read to their ends ...
ChildExits(a) ==
    /\ pc[a] = "executing"
    /\ pc' = [pc EXCEPT ![a] = "reading"]
    /\ UNCHANGED <<mem, files, up, holder, left, on, age, faults>>

\* ... which come when no process holds the pipes any more, a descendant of
\* the child included.  The timeout no longer applies.
ReadsOutput(a) ==
    /\ pc[a] = "reading"
    /\ \E outcome \in Reporting : pc' = [pc EXCEPT ![a] = outcome]
    /\ UNCHANGED <<mem, files, up, holder, left, on, age, faults>>

\* The child could not be started or waited for.
ChildFails(a) ==
    /\ pc[a] = "executing"
    /\ pc' = [pc EXCEPT ![a] = "gone wrong"]
    /\ UNCHANGED <<mem, files, up, holder, left, on, age, faults>>

\* The child outlives timeout_secs and is killed.
TimesOut(a) ==
    /\ pc[a] = "executing"
    /\ age[a] >= TimeoutSecs
    /\ pc' = [pc EXCEPT ![a] = "gone wrong"]
    /\ UNCHANGED <<mem, files, up, holder, left, on, age, faults>>

\* complete and fail lock the list and set the status, whatever it was ...
Record(a) ==
    /\ pc[a] \in Reporting
    /\ holder = None
    /\ holder' = a
    /\ mem' = [mem EXCEPT ![on[a]] =
                 IF pc[a] = "succeeded" THEN "completed" ELSE "failed"]
    /\ pc' = [pc EXCEPT ![a] = "marking"]
    /\ UNCHANGED <<files, up, left, on, age, faults>>

\* ... write the marker ...
Mark(a) ==
    /\ pc[a] = "marking"
    /\ IF mem[on[a]] = "completed"
         THEN completed' = completed \cup {on[a]} /\ UNCHANGED failed
         ELSE failed' = failed \cup {on[a]} /\ UNCHANGED completed
    /\ pc' = [pc EXCEPT ![a] = "unlocking"]
    /\ UNCHANGED <<mem, lock, up, holder, left, on, age, faults>>

\* ... and remove the lock file, whoever wrote it.
Unlock(a) ==
    /\ pc[a] = "unlocking"
    /\ lock' = [lock EXCEPT ![on[a]] = NoLock]
    /\ on' = [on EXCEPT ![a] = None]
    /\ LetGo(a, "idle")
    /\ UNCHANGED <<mem, completed, failed, up, age, faults>>

-----------------------------------------------------------------------------
\* A file operation fails: claim_next returns the error and the agent tries
\* again later; an error of complete or fail is dropped, the status stays set.
IoFails(a) ==
    /\ faults < MaxFaults
    /\ pc[a] \in Scanning \cup Recording
    /\ pc[a] = "scanning" => left # {}
    /\ on' = [on EXCEPT ![a] = None]
    /\ faults' = faults + 1
    /\ LetGo(a, "idle")
    /\ UNCHANGED <<mem, files, up, age>>

\* The process dies: the files stay as they are.
Crash ==
    /\ up
    /\ \E a \in Agents : pc[a] # "exited"
    /\ faults < MaxFaults
    /\ faults' = faults + 1
    /\ up' = FALSE
    /\ holder' = None /\ left' = {}
    /\ pc' = [a \in Agents |-> "idle"]
    /\ on' = [a \in Agents |-> None]
    /\ age' = [a \in Agents |-> 0]
    /\ UNCHANGED <<mem, files>>

\* The coordinator is started again on the same lock directory.
Restart ==
    /\ ~up
    /\ up' = TRUE
    /\ mem' = Loaded
    /\ UNCHANGED <<files, holder, left, pc, on, age, faults>>

\* A second passes.  Ages stop where they make no further difference.
Tick ==
    /\ lock' = [t \in Tasks |-> IF lock[t] \in Ages \ {StaleSecs}
                                  THEN lock[t] + 1 ELSE lock[t]]
    /\ age' = [a \in Agents |-> IF age[a] < MaxAge THEN age[a] + 1 ELSE age[a]]
    /\ UNCHANGED <<mem, completed, failed, up, holder, left, pc, on, faults>>

\* What an agent does by itself.
Works(a) ==
    \/ Begin(a) \/ Create(a) \/ Skip(a) \/ Steal(a) \/ Recreate(a) \/ Fill(a)
    \/ GiveUp(a) \/ CheckDone(a) \/ TimesOut(a)
    \/ Record(a) \/ Mark(a) \/ Unlock(a)

\* What its child does.
Child(a) == ChildExits(a) \/ ReadsOutput(a) \/ ChildFails(a)

Next ==
    \/ \E a \in Agents : Works(a) \/ Child(a) \/ IoFails(a)
    \/ Crash \/ Restart \/ Tick

Spec == Init /\ [][Next]_vars

\* The runtime schedules every agent and its mutex is first come first served,
\* hence strong fairness; time passes; a crashed coordinator is started again.
\* Nothing is assumed of the child processes, nor of what holds their pipes.
Fairness ==
    /\ \A a \in Agents : SF_vars(Works(a))
    /\ WF_vars(Tick)
    /\ WF_vars(Restart)

FairSpec == Spec /\ Fairness

-----------------------------------------------------------------------------
Starts(a) == pc[a] # "executing" /\ pc'[a] = "executing"

\* A task whose outcome is in the lock directory is never executed again, not
\* by an agent that was about to claim it and not after a crash and a restart.
NeverRerun ==
    [][\A a \in Agents : Starts(a) => on'[a] \notin completed \cup failed]_vars

\* Two agents execute the same task only when the claim of one of them is
\* older than stale_lock_secs: a fresh lock keeps every other agent out,
\* through failed writes, stolen locks and late finishers.
FreshClaimExclusive ==
    \A a, b \in Agents :
      a # b /\ pc[a] \in Executing /\ pc[b] \in Executing /\ on[a] = on[b]
        => age[a] >= StaleSecs \/ age[b] >= StaleSecs

\* The highest priority first: an agent that starts a task leaves behind it no
\* task of higher priority that is unfinished and unlocked.
PriorityFirst ==
    [][\A a \in Agents : Starts(a) =>
         \A t \in Tasks :
            Priority[t] < Priority[on'[a]] => Terminal(mem[t]) \/ lock[t] # NoLock]_vars

\* Whatever fails, every agent comes to its end, unless it reads for ever what
\* a child has left open.  Locks left by a dead process, by a failed write or by
\* an agent that reads for ever are taken over: no task stays claimed and none
\* of the other agents is kept.
FleetFinishes == \A a \in Agents : <>[](pc[a] \in {"exited", "reading"})

=============================================================================
