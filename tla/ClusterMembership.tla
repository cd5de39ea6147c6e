--------------------------- MODULE ClusterMembership ---------------------------
(***************************************************************************)
(* One node's view of the cluster, distributed/cluster.rs: members are     *)
(* registered by their heartbeats, evicted after a silence, deregistered   *)
(* when they leave, and requests are routed to the least loaded.  Other    *)
(* members start, stop and crash; their heartbeats are lost, duplicated,   *)
(* overtaken by one another and delayed by up to MaxDelay.                 *)
(***************************************************************************)
EXTENDS FiniteSets, Integers

CONSTANTS
    Members,
    Loads,            \* queue depths
    EvictionTimeout,  \* in ticks
    MaxDelay,         \* of a heartbeat under way, in ticks
    MaxInFlight       \* bound: heartbeats under way

ASSUME ClusterAssumption ==
    /\ IsFiniteSet(Members)
    /\ Loads \subseteq Nat /\ 0 \in Loads
    /\ {EvictionTimeout, MaxDelay, MaxInFlight} \subseteq Nat

VARIABLES
    running,     \* the members that are running
    inFlight,    \* heartbeats under way: member, load, time left
    listed,      \* the keys of the node map
    silence,     \* ticks since last_heartbeat of a listed member
    load,        \* its load
    downFor      \* history: ticks since a member stopped

nodeVars == <<listed, silence, load>>
clusterVars == <<running, inFlight, nodeVars, downFor>>

Beats == [member : Members, load : Loads, left : 0..MaxDelay]
LongDown == EvictionTimeout + MaxDelay + 1

ClusterTypeOK ==
    /\ running \subseteq Members /\ listed \subseteq Members
    /\ inFlight \subseteq Beats /\ Cardinality(inFlight) <= MaxInFlight
    /\ silence \in [Members -> 0..(EvictionTimeout + 1)]
    /\ load \in [Members -> Loads]
    /\ downFor \in [Members -> 0..LongDown]

ClusterInit ==
    /\ running = {} /\ inFlight = {} /\ listed = {}
    /\ silence = [m \in Members |-> 0]
    /\ load = [m \in Members |-> 0]
    /\ downFor = [m \in Members |-> LongDown]

-----------------------------------------------------------------------------
\* entry.load
Reported(l) == l

\* register(): also what process_heartbeat() does.
Register(m, l) ==
    /\ listed' = listed \cup {m}
    /\ silence' = [silence EXCEPT ![m] = 0]
    /\ load' = [load EXCEPT ![m] = Reported(l)]

\* The entries of the node map outside S are removed.
Keep(S) ==
    /\ listed' = S
    /\ silence' = [m \in Members |-> IF m \in S THEN silence[m] ELSE 0]
    /\ load' = [m \in Members |-> IF m \in S THEN load[m] ELSE 0]

StartMember(m) ==
    /\ m \notin running
    /\ running' = running \cup {m}
    /\ downFor' = [downFor EXCEPT ![m] = 0]
    /\ UNCHANGED <<inFlight, nodeVars>>

\* The member crashes: nobody deregisters it.
StopMember(m) ==
    /\ m \in running
    /\ running' = running \ {m}
    /\ UNCHANGED <<inFlight, nodeVars, downFor>>

\* create_heartbeat(), broadcast.
Beat(m, l) ==
    /\ m \in running /\ Cardinality(inFlight) < MaxInFlight
    /\ inFlight' = inFlight \cup {[member |-> m, load |-> l, left |-> MaxDelay]}
    /\ UNCHANGED <<running, nodeVars, downFor>>

\* process_heartbeat(); the message may come again.
Receive(b) ==
    /\ b \in inFlight
    /\ Register(b.member, b.load)
    /\ inFlight' \in {inFlight, inFlight \ {b}}
    /\ UNCHANGED <<running, downFor>>

LoseBeat(b) ==
    /\ b \in inFlight
    /\ inFlight' = inFlight \ {b}
    /\ UNCHANGED <<running, nodeVars, downFor>>

\* is_expired()
Expired(m) == silence[m] > EvictionTimeout

\* mutant: retain keeps the members that are idle as well
KeptIdle == {m \in listed : ~Expired(m) \/ load[m] = 0}

\* What retain() keeps.
KeptNodes == {m \in listed : ~Expired(m)}

\* evict_stale_nodes()
Evict ==
    /\ \E m \in listed : Expired(m)
    /\ Keep(KeptNodes)
    /\ UNCHANGED <<running, inFlight, downFor>>

\* deregister(): a member that leaves.
Deregister(m) ==
    /\ m \in listed
    /\ Keep(listed \ {m})
    /\ UNCHANGED <<running, inFlight, downFor>>

\* update_load()
UpdateLoad(m, l) ==
    /\ m \in listed
    /\ load' = [load EXCEPT ![m] = l]
    /\ UNCHANGED <<running, inFlight, listed, silence, downFor>>

AtMost(n, bound) == IF n < bound THEN n ELSE bound

ClusterTick ==
    /\ silence' = [m \in Members |->
                      IF m \in listed THEN AtMost(silence[m] + 1, EvictionTimeout + 1) ELSE 0]
    /\ downFor' = [m \in Members |->
                      IF m \in running THEN 0 ELSE AtMost(downFor[m] + 1, LongDown)]
    /\ inFlight' = {[b EXCEPT !.left = @ - 1] : b \in {x \in inFlight : x.left > 0}}
    /\ UNCHANGED <<running, listed, load>>

\* mutant: the filter of route() is left to the eviction loop
AnyListed == listed

\* active_nodes()
ActiveNodes == {m \in listed : ~Expired(m)}

\* The members route() may choose.
Routable == {m \in ActiveNodes : \A n \in ActiveNodes : load[m] <= load[n]}

-----------------------------------------------------------------------------
ClusterNext ==
    \/ \E m \in Members : StartMember(m) \/ StopMember(m) \/ Deregister(m)
    \/ \E m \in Members, l \in Loads : Beat(m, l) \/ UpdateLoad(m, l)
    \/ \E b \in Beats : Receive(b) \/ LoseBeat(b)
    \/ Evict \/ ClusterTick

ClusterSpec == ClusterInit /\ [][ClusterNext]_clusterVars

-----------------------------------------------------------------------------
\* No request goes to a member that has been down for longer than the eviction
\* timeout and the longest delay of a heartbeat: neither late nor repeated
\* heartbeats, nor a late eviction loop, nor a deregistration undone by a
\* heartbeat that was still under way keep it any longer.
NoRouteToTheDead == \A m \in Routable : downFor[m] < LongDown

\* A member that stays down is forgotten for good: its last heartbeats, which
\* may list it again after an eviction, run out.
DeadForgotten ==
    \A m \in Members : <>[](m \notin running) => <>[](m \notin listed)
=============================================================================
