------------------------------- MODULE Deployment -------------------------------
(***************************************************************************)
(* The staged deployment pipeline of self_modify/deployment.rs: validation,*)
(* canary, rollout in steps, promotion, with a rollback from anywhere.     *)
(* Every operation holds the one mutex from its first read to its last     *)
(* write, so each is a step; its callers (the gate, the canary, the        *)
(* rollout, operators) come in any order, and a call in the wrong stage    *)
(* is refused and changes nothing.  The metrics of a call are healthy or   *)
(* not.                                                                    *)
(***************************************************************************)
EXTENDS FiniteSets, Integers, Sequences

CONSTANTS
    Deployments,    \* ids; one that was archived may be created again
    RolloutSteps,   \* rollout_steps, percentages
    AutoPromote,
    MaxHistory,
    MaxCreated      \* bound: deployments created

ASSUME DeploymentAssumption ==
    /\ RolloutSteps \in Seq(1..100)
    /\ AutoPromote \in BOOLEAN
    /\ MaxHistory \in Nat /\ MaxCreated \in Nat

VARIABLES
    stage,        \* the stage of each active deployment, or "none"
    progress,     \* progress_pct of a Rolling one
    completed,    \* the archive
    created,      \* how many were created
    passed,       \* history: the stages and percentages it has been through
    outcomes      \* history: all that were archived, in that order

deploymentVars == <<stage, progress, completed, created, passed, outcomes>>

ActiveStages == {"Pending", "Validating", "Canary", "Rolling"}
FinalStages == {"Promoted", "RolledBack", "Failed"}
Steps == {RolloutSteps[k] : k \in DOMAIN RolloutSteps}
Passable == {<<s, p>> : s \in ActiveStages, p \in {0} \cup Steps}
Summaries == [id : Deployments, stage : FinalStages, passed : SUBSET Passable]

DeploymentTypeOK ==
    /\ stage \in [Deployments -> ActiveStages \cup {"none"}]
    /\ progress \in [Deployments -> {0} \cup Steps]
    /\ passed \in [Deployments -> SUBSET Passable]
    /\ created \in 0..MaxCreated
    /\ Len(completed) <= MaxHistory
    /\ \A k \in DOMAIN outcomes : outcomes[k] \in Summaries

DeploymentInit ==
    /\ stage = [d \in Deployments |-> "none"]
    /\ progress = [d \in Deployments |-> 0]
    /\ completed = <<>> /\ outcomes = <<>>
    /\ created = 0
    /\ passed = [d \in Deployments |-> {}]

-----------------------------------------------------------------------------
\* create_deployment(): refused while the id is active.
Create(d) ==
    /\ stage[d] = "none" /\ created < MaxCreated
    /\ created' = created + 1
    /\ stage' = [stage EXCEPT ![d] = "Pending"]
    /\ passed' = [passed EXCEPT ![d] = {<<"Pending", 0>>}]
    /\ UNCHANGED <<progress, completed, outcomes>>

\* transition_to() a stage that is not terminal.
MoveTo(d, s, pct) ==
    /\ stage' = [stage EXCEPT ![d] = s]
    /\ progress' = [progress EXCEPT ![d] = pct]
    /\ passed' = [passed EXCEPT ![d] = @ \cup {<<s, pct>>}]
    /\ UNCHANGED <<completed, created, outcomes>>

\* The archive without the oldest entries above max_history.
Trimmed(archive) ==
    IF Len(archive) > MaxHistory
    THEN SubSeq(archive, Len(archive) - MaxHistory + 1, Len(archive))
    ELSE archive

\* transition_to() a terminal stage, and maybe_archive_deployment().
Finish(d, final) ==
    LET summary == [id |-> d, stage |-> final, passed |-> passed[d]]
    IN /\ completed' = Trimmed(Append(completed, summary))
       /\ outcomes' = Append(outcomes, summary)
       /\ stage' = [stage EXCEPT ![d] = "none"]
       /\ progress' = [progress EXCEPT ![d] = 0]
       /\ passed' = [passed EXCEPT ![d] = {}]
       /\ UNCHANGED created

StartValidation(d) == stage[d] = "Pending" /\ MoveTo(d, "Validating", 0)

ValidationPassed(d) == stage[d] = "Validating" /\ MoveTo(d, "Canary", 0)

ValidationFailed(d) == stage[d] = "Validating" /\ Finish(d, "Failed")

CanaryPassed(d) == stage[d] = "Canary" /\ MoveTo(d, "Rolling", 0)

CanaryFailed(d) == stage[d] = "Canary" /\ Finish(d, "RolledBack")

\* advance_rollout() with an error rate or a latency above its limit.
RolloutFailed(d) == stage[d] = "Rolling" /\ Finish(d, "RolledBack")

\* mutant: the largest step is taken at once
LargestStep(d) ==
    {k \in DOMAIN RolloutSteps :
        /\ RolloutSteps[k] > progress[d]
        /\ \A j \in DOMAIN RolloutSteps : RolloutSteps[j] <= RolloutSteps[k]}

\* The next rollout step: the first in the list above the current percentage.
NextStep(d) ==
    {k \in DOMAIN RolloutSteps :
        /\ RolloutSteps[k] > progress[d]
        /\ \A j \in 1..(k - 1) : RolloutSteps[j] <= progress[d]}

\* advance_rollout() with healthy metrics.  With auto_promote off, the last
\* step stays where it is.
Advance(d) ==
    /\ stage[d] = "Rolling"
    /\ \/ \E k \in NextStep(d) : MoveTo(d, "Rolling", RolloutSteps[k])
       \/ NextStep(d) = {} /\ AutoPromote /\ Finish(d, "Promoted")

\* rollback(), from any active stage.
Rollback(d) == stage[d] # "none" /\ Finish(d, "RolledBack")

FullyRolledOut(d) == stage[d] = "Rolling" /\ progress[d] = 100

\* promote()
Promote(d) == FullyRolledOut(d) /\ Finish(d, "Promoted")

-----------------------------------------------------------------------------
DeploymentNext ==
    \E d \in Deployments :
        \/ Create(d) \/ StartValidation(d) \/ ValidationPassed(d) \/ ValidationFailed(d)
        \/ CanaryPassed(d) \/ CanaryFailed(d)
        \/ Advance(d) \/ RolloutFailed(d) \/ Rollback(d) \/ Promote(d)

DeploymentSpec == DeploymentInit /\ [][DeploymentNext]_deploymentVars

-----------------------------------------------------------------------------
\* Steps of the rollout that are larger than all before them in the list.
Milestones ==
    {RolloutSteps[k] : k \in {n \in DOMAIN RolloutSteps :
        \A j \in 1..(n - 1) : RolloutSteps[j] < RolloutSteps[n]}}

\* Whoever calls whichever operation in between, and whatever was archived
\* under the same id before: what is promoted was validated, was a canary and
\* stood at every milestone up to the last.
PromotedInFull ==
    \A k \in DOMAIN outcomes :
        outcomes[k].stage = "Promoted" =>
            ({<<"Validating", 0>>, <<"Canary", 0>>}
                \cup {<<"Rolling", p>> : p \in Milestones}) \subseteq outcomes[k].passed

\* The archive is the end of the list of all outcomes, and each deployment
\* that was created is active or has one outcome, although promotion, failure
\* and rollback race for it.
ArchiveExact ==
    /\ \E n \in 0..Len(outcomes) :
          /\ completed = SubSeq(outcomes, n + 1, Len(outcomes))
          /\ n = 0 \/ Len(completed) = MaxHistory
    /\ created = Len(outcomes) + Cardinality({d \in Deployments : stage[d] # "none"})

\* The outcomes are earned, and none is lost or made up.
OutcomesSound == PromotedInFull /\ ArchiveExact
=============================================================================
