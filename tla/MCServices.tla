------------------------------ MODULE MCServices ------------------------------
(***************************************************************************)
(* Six components that share no state and never call one another, in one   *)
(* instance: the initial state chooses which of them runs, and the others  *)
(* keep their initial state.  A behaviour is one of the component that     *)
(* runs, and what is checked is what six instances would.                  *)
(***************************************************************************)
EXTENDS DlqReplay, HotConfig, RedisDedup, ClusterMembership,
        Deployment, TokenBudget, TLC

CONSTANTS c1, c2, c3, n1, n2

VARIABLE part   \* the component that runs

Parts == {"replay", "config", "claims", "cluster", "deployment", "budget"}

partVars == <<part, replayVars, configVars, claimVars, clusterVars,
              deploymentVars, budgetVars>>

MCSessionOf == [e \in {1, 2} |-> e]
MCNodeOf == c1 :> n1 @@ c2 :> n1 @@ c3 :> n2
MCRolloutSteps == <<50, 25, 100>>

\* A component that does not run has one initial state.
MCInit ==
    /\ part \in Parts
    /\ ReplayInit /\ ConfigInit /\ ClaimInit /\ ClusterInit
    /\ DeploymentInit /\ BudgetInit
    /\ part # "config" => file = Nothing /\ watcher = "none"

ReplayTurn ==
    /\ part = "replay"
    /\ UNCHANGED <<part, configVars, claimVars, clusterVars, deploymentVars, budgetVars>>

ConfigTurn ==
    /\ part = "config"
    /\ UNCHANGED <<part, replayVars, claimVars, clusterVars, deploymentVars, budgetVars>>

ClaimTurn ==
    /\ part = "claims"
    /\ UNCHANGED <<part, replayVars, configVars, clusterVars, deploymentVars, budgetVars>>

ClusterTurn ==
    /\ part = "cluster"
    /\ UNCHANGED <<part, replayVars, configVars, claimVars, deploymentVars, budgetVars>>

DeploymentTurn ==
    /\ part = "deployment"
    /\ UNCHANGED <<part, replayVars, configVars, claimVars, clusterVars, budgetVars>>

BudgetTurn ==
    /\ part = "budget"
    /\ UNCHANGED <<part, replayVars, configVars, claimVars, clusterVars, deploymentVars>>

MCNext ==
    \/ ReplayTurn /\ ReplayNext
    \/ ConfigTurn /\ ConfigNext
    \/ ClaimTurn /\ ClaimNext
    \/ ClusterTurn /\ ClusterNext
    \/ DeploymentTurn /\ DeploymentNext
    \/ BudgetTurn /\ BudgetNext

\* The clocks and the file watcher run by themselves.  One component runs, so
\* fairness of the disjunction is fairness of its own disjunct.
Background ==
    \/ ReplayTurn /\ ReplayTick
    \/ ClaimTurn /\ ClaimTick
    \/ ClusterTurn /\ ClusterTick
    \/ ConfigTurn /\ WatcherStep

MCFairness ==
    /\ WF_partVars(Background)
    /\ \A r \in Replayers : /\ SF_partVars(ReplayTurn /\ TakeDue(r, Entries))
                            /\ WF_partVars(ReplayTurn /\ CallStep(r))
                            /\ SF_partVars(ReplayTurn /\ Inject(r))
    /\ \A s \in Setters : WF_partVars(ConfigTurn /\ AnnounceSet(s))
    /\ \A u \in Subscribers : WF_partVars(ConfigTurn /\ SubscriberStep(u))
    /\ WF_partVars(ClusterTurn /\ Evict)

MCSpec == MCInit /\ [][MCNext]_partVars /\ MCFairness
=============================================================================
