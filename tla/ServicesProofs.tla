----------------------------- MODULE ServicesProofs -----------------------------
(***************************************************************************)
(* What holds of the six services for every value of their constants: any  *)
(* number of calls, nodes, members, entries, callers of set, deployments   *)
(* and requests, and any time-outs.                                        *)
(***************************************************************************)
EXTENDS DlqReplay, HotConfig, RedisDedup, ClusterMembership, Deployment, TokenBudget,
        FiniteSetTheorems, SequenceTheorems, WellFoundedInduction, NaturalsInduction, TLAPS

-----------------------------------------------------------------------------
(* Distributed claims.                                                     *)

\* Who relies on a claim that nobody deleted owns the key for as long.
ClaimInv ==
    /\ ClaimTypeOK
    /\ owner = Nobody <=> ttl = 0
    /\ \A c \in Calls : fresh[c] > 0 => call[c] \in {"claimed", "refreshing"}
    /\ \A c \in Calls : fresh[c] > 0 /\ c \notin robbed => owner = NodeOf[c] /\ fresh[c] <= ttl
    /\ FreshClaimsApart

LEMMA NextClaim == ClaimInv /\ [ClaimNext]_claimVars => ClaimInv'
<1>. SUFFICES ASSUME ClaimInv, [ClaimNext]_claimVars PROVE ClaimInv'
  OBVIOUS
<1>0. \A c \in Calls : NodeOf[c] \in Nodes /\ NodeOf[c] # Nobody
  BY ClaimAssumption DEF Nodes
<1>. USE <1>0, ClaimAssumption DEF ClaimInv, ClaimTypeOK, FreshClaimsApart, CallGoes
<1>1. ASSUME NEW c \in Calls, TryClaim(c) \/ Refresh(c) \/ KeyTaken(c) PROVE ClaimInv'
  BY <1>1 DEF TryClaim, Refresh, KeyTaken
<1>2. ASSUME NEW c \in Calls, Release(c) \/ Abandon(c) PROVE ClaimInv'
  BY <1>2 DEF Release, Abandon
<1>3. ASSUME NEW c \in Calls, Fail(c) PROVE ClaimInv'
  BY <1>3 DEF Fail
<1>4. ASSUME owner = Nobody, NEW d \in Calls, fresh[d] > 0 PROVE d \in robbed
  BY <1>4
<1>5. ASSUME NEW c \in Calls, SetKey(c) PROVE ClaimInv'
  BY <1>4, <1>5 DEF SetKey, KeyFree
<1>6. ASSUME NEW c \in Calls, SetUnheard(c) PROVE ClaimInv'
  BY <1>4, <1>6 DEF SetUnheard, KeyFree
<1>7. ASSUME NEW c \in Calls, ExpireKey(c) PROVE ClaimInv'
  BY <1>7 DEF ExpireKey
<1>8. ASSUME NEW c \in Calls, DeleteKey(c) PROVE ClaimInv'
  <2>1. CASE OwnNode(c)
    <3>1. \A d \in Calls : fresh[d] > 0 => d \in robbed'
      BY <1>8, <2>1 DEF DeleteKey, OwnNode
    <3>. QED  BY <1>8, <2>1, <3>1 DEF DeleteKey
  <2>2. CASE ~OwnNode(c)
    BY <1>8, <2>2 DEF DeleteKey
  <2>. QED  BY <2>1, <2>2
<1>9. CASE ClaimTick
  <2>1. /\ owner' \in Nodes \cup {Nobody} /\ ttl' \in 0..Ttl
        /\ owner' = Nobody <=> ttl' = 0
    BY <1>9 DEF ClaimTick, Remaining, Expires
  <2>2. \A c \in Calls : /\ fresh'[c] = IF fresh[c] = 0 THEN 0 ELSE fresh[c] - 1
                         /\ fresh'[c] > 0 => fresh[c] > 0
    BY <1>9 DEF ClaimTick
  <2>3. fresh' \in [Calls -> 0..Ttl]
    BY <1>9, <2>2 DEF ClaimTick
  <2>4. ASSUME NEW c \in Calls, fresh'[c] > 0, c \notin robbed
        PROVE  owner' = NodeOf[c] /\ fresh'[c] <= ttl'
    BY <1>9, <2>2, <2>4 DEF ClaimTick, Remaining, Expires
  <2>. QED  BY <1>9, <2>1, <2>2, <2>3, <2>4 DEF ClaimTick
<1>10. CASE UNCHANGED claimVars
  BY <1>10 DEF claimVars
<1>. QED
  BY <1>1, <1>2, <1>3, <1>5, <1>6, <1>7, <1>8, <1>9, <1>10 DEF ClaimNext, Execute

LEMMA AlwaysClaim == ClaimSpec => []ClaimInv
<1>1. ClaimInit => ClaimInv
  BY ClaimAssumption DEF ClaimInit, ClaimInv, ClaimTypeOK, FreshClaimsApart
<1>. QED  BY <1>1, NextClaim, PTL DEF ClaimSpec

\* Type correctness of the claims on a key.
THEOREM ClaimTypeCorrect == ClaimSpec => []ClaimTypeOK
<1>1. ClaimInv => ClaimTypeOK
  BY DEF ClaimInv
<1>. QED  BY <1>1, AlwaysClaim, PTL

\* Two calls rely on one key only after a call of the same node deleted the
\* claim of one of them (the release script compares node ids).
THEOREM ClaimsApart == ClaimSpec => []FreshClaimsApart
<1>1. ClaimInv => FreshClaimsApart
  BY DEF ClaimInv
<1>. QED  BY <1>1, AlwaysClaim, PTL

-----------------------------------------------------------------------------
(* Cluster membership.                                                     *)

\* A heartbeat under way, or a listed member, is not much younger than the
\* time its member has been down for.
ClusterInv ==
    /\ ClusterTypeOK
    /\ IsFiniteSet(inFlight)
    /\ \A m \in running : downFor[m] = 0
    /\ \A b \in inFlight : downFor[b.member] + b.left <= MaxDelay
    /\ \A m \in listed : downFor[m] <= silence[m] + MaxDelay

LEMMA NextCluster == ClusterInv /\ [ClusterNext]_clusterVars => ClusterInv'
<1>. SUFFICES ASSUME ClusterInv, [ClusterNext]_clusterVars PROVE ClusterInv'
  OBVIOUS
<1>. USE ClusterAssumption DEF ClusterInv, ClusterTypeOK, nodeVars
<1>1. /\ LongDown = EvictionTimeout + MaxDelay + 1 /\ LongDown \in Nat
      /\ EvictionTimeout \in Nat /\ MaxDelay \in Nat /\ MaxInFlight \in Nat
  BY DEF LongDown
<1>2. \A b \in Beats : b.member \in Members /\ b.load \in Loads /\ b.left \in 0..MaxDelay
  BY DEF Beats
<1>3. ASSUME NEW m \in Members, StartMember(m) PROVE ClusterInv'
  <2>1. downFor' = [downFor EXCEPT ![m] = 0] /\ running' = running \cup {m}
    BY <1>3 DEF StartMember
  <2>2. \A n \in Members : downFor'[n] <= downFor[n] /\ downFor'[n] \in 0..LongDown
    BY <1>1, <2>1
  <2>. QED  BY <1>1, <1>2, <1>3, <2>1, <2>2 DEF StartMember
<1>4. ASSUME NEW m \in Members, StopMember(m) PROVE ClusterInv'
  BY <1>4 DEF StopMember
<1>5. ASSUME NEW m \in Members, NEW l \in Loads, Beat(m, l) PROVE ClusterInv'
  <2>. DEFINE b == [member |-> m, load |-> l, left |-> MaxDelay]
  <2>1. /\ b \in Beats /\ b.member = m /\ b.left = MaxDelay
        /\ inFlight' = inFlight \cup {b} /\ downFor[m] = 0
        /\ Cardinality(inFlight) < MaxInFlight
        /\ UNCHANGED <<running, listed, silence, load, downFor>>
    BY <1>1, <1>5 DEF Beat, Beats
  <2>. HIDE DEF b
  <2>2. /\ IsFiniteSet(inFlight \cup {b})
        /\ Cardinality(inFlight \cup {b}) =
             IF b \in inFlight THEN Cardinality(inFlight) ELSE Cardinality(inFlight) + 1
    BY FS_AddElement
  <2>3. IsFiniteSet(inFlight') /\ Cardinality(inFlight') <= MaxInFlight
    BY <1>1, <2>1, <2>2, FS_CardinalityType
  <2>. QED  BY <1>1, <2>1, <2>3
<1>6. ASSUME NEW b \in inFlight, inFlight' \in {inFlight, inFlight \ {b}}
      PROVE  /\ inFlight' \subseteq inFlight /\ IsFiniteSet(inFlight')
             /\ Cardinality(inFlight') <= MaxInFlight
  <2>1. inFlight' \subseteq inFlight
    BY <1>6
  <2>2. /\ IsFiniteSet(inFlight') /\ Cardinality(inFlight') <= Cardinality(inFlight)
    BY <2>1, FS_Subset
  <2>. QED  BY <1>1, <2>1, <2>2, FS_CardinalityType
<1>7. ASSUME NEW b \in Beats, Receive(b) PROVE ClusterInv'
  <2>1. /\ listed' = listed \cup {b.member}
        /\ silence' = [silence EXCEPT ![b.member] = 0]
        /\ load' = [load EXCEPT ![b.member] = b.load]
        /\ downFor[b.member] <= MaxDelay
        /\ UNCHANGED <<running, downFor>>
    BY <1>1, <1>2, <1>7 DEF Receive, Register, Reported
  <2>2. /\ inFlight' \subseteq inFlight /\ IsFiniteSet(inFlight')
        /\ Cardinality(inFlight') <= MaxInFlight
    BY <1>6, <1>7 DEF Receive
  <2>. QED  BY <1>1, <1>2, <2>1, <2>2
<1>8. ASSUME NEW b \in Beats, LoseBeat(b) PROVE ClusterInv'
  <2>1. /\ inFlight' \subseteq inFlight /\ IsFiniteSet(inFlight')
        /\ Cardinality(inFlight') <= MaxInFlight
    BY <1>6, <1>8 DEF LoseBeat
  <2>. QED  BY <1>8, <2>1 DEF LoseBeat
<1>9. ASSUME NEW S \in SUBSET listed, Keep(S), UNCHANGED <<running, inFlight, downFor>>
      PROVE  ClusterInv'
  BY <1>1, <1>9 DEF Keep
<1>10. CASE Evict
  BY <1>9, <1>10 DEF Evict, KeptNodes
<1>11. ASSUME NEW m \in Members, Deregister(m) PROVE ClusterInv'
  BY <1>9, <1>11 DEF Deregister
<1>12. ASSUME NEW m \in Members, NEW l \in Loads, UpdateLoad(m, l) PROVE ClusterInv'
  BY <1>12 DEF UpdateLoad
<1>13. CASE ClusterTick
  <2>. DEFINE S == {x \in inFlight : x.left > 0}
              Aged(b) == [b EXCEPT !.left = @ - 1]
              f == [b \in S |-> Aged(b)]
              T == {Aged(b) : b \in S}
  <2>1. inFlight' = T /\ UNCHANGED <<running, listed, load>>
    BY <1>13 DEF ClusterTick
  <2>2. \A b \in S : /\ Aged(b) \in Beats /\ Aged(b).member = b.member
                     /\ Aged(b).left = b.left - 1 /\ b \in inFlight /\ b.left > 0
    BY <1>1 DEF Beats
  <2>3. IsFiniteSet(S) /\ Cardinality(S) <= Cardinality(inFlight)
    BY FS_Subset
  <2>4. f \in Surjection(S, T)
    BY DEF Surjection
  <2>. HIDE DEF S, f, T
  <2>5. IsFiniteSet(T) /\ Cardinality(T) <= Cardinality(S)
    BY <2>3, <2>4, FS_Surjection
  <2>6. IsFiniteSet(inFlight') /\ Cardinality(inFlight') <= MaxInFlight
    BY <1>1, <2>1, <2>3, <2>5, FS_CardinalityType
  <2>7. \A m \in Members :
           /\ downFor'[m] \in 0..LongDown
           /\ downFor'[m] <= downFor[m] + 1 /\ (m \in running => downFor'[m] = 0)
           /\ silence'[m] \in 0..(EvictionTimeout + 1)
           /\ m \in listed => silence'[m] >= silence[m] + 1
                              \/ silence'[m] = EvictionTimeout + 1
    BY <1>1, <1>13 DEF ClusterTick, AtMost
  <2>8. /\ downFor' \in [Members -> 0..LongDown]
        /\ silence' \in [Members -> 0..(EvictionTimeout + 1)]
    BY <1>13, <2>7 DEF ClusterTick
  <2>9. ASSUME NEW b \in inFlight'
        PROVE  b \in Beats /\ downFor'[b.member] + b.left <= MaxDelay
    <3>1. PICK a \in S : b = Aged(a)
      BY <2>1 DEF T
    <3>2. /\ b \in Beats /\ b.member = a.member /\ b.left = a.left - 1 /\ a \in inFlight
      BY <2>2, <3>1
    <3>3. downFor[a.member] + a.left <= MaxDelay /\ downFor'[a.member] <= downFor[a.member] + 1
      BY <1>2, <2>7, <3>2
    <3>4. /\ downFor[a.member] \in Int /\ downFor'[a.member] \in Int /\ a.left \in Int
      BY <1>1, <1>2, <2>7, <3>2
    <3>. QED  BY <1>1, <3>2, <3>3, <3>4
  <2>10. ASSUME NEW m \in listed PROVE downFor'[m] <= silence'[m] + MaxDelay
    BY <1>1, <2>7
  <2>. QED  BY <2>1, <2>6, <2>7, <2>8, <2>9, <2>10
<1>14. CASE UNCHANGED clusterVars
  BY <1>14 DEF clusterVars
<1>. QED
  BY <1>3, <1>4, <1>5, <1>7, <1>8, <1>10, <1>11, <1>12, <1>13, <1>14 DEF ClusterNext

LEMMA AlwaysCluster == ClusterSpec => []ClusterInv
<1>1. ClusterInit => ClusterInv
  <2>. SUFFICES ASSUME ClusterInit PROVE ClusterInv
    OBVIOUS
  <2>1. LongDown \in 0..LongDown
    BY ClusterAssumption DEF LongDown
  <2>2. IsFiniteSet({}) /\ Cardinality({}) = 0
    BY FS_EmptySet
  <2>. QED
    BY <2>1, <2>2, ClusterAssumption DEF ClusterInit, ClusterInv, ClusterTypeOK
<1>. QED  BY <1>1, NextCluster, PTL DEF ClusterSpec

\* Type correctness of a node's view of the cluster.
THEOREM ClusterTypeCorrect == ClusterSpec => []ClusterTypeOK
<1>1. ClusterInv => ClusterTypeOK
  BY DEF ClusterInv
<1>. QED  BY <1>1, AlwaysCluster, PTL

\* route() sends nothing to a member that has been down for longer than the
\* eviction timeout and the delay of a heartbeat, however many heartbeats are
\* late, lost or repeated and however late the eviction loop runs.
THEOREM DeadNotRouted == ClusterSpec => []NoRouteToTheDead
<1>1. ClusterInv => NoRouteToTheDead
  <2>. SUFFICES ASSUME ClusterInv, NEW m \in Routable PROVE downFor[m] < LongDown
    BY DEF NoRouteToTheDead
  <2>1. m \in listed /\ ~(silence[m] > EvictionTimeout)
    BY DEF Routable, ActiveNodes, Expired
  <2>. QED
    BY <2>1, ClusterAssumption DEF ClusterInv, ClusterTypeOK, LongDown
<1>. QED  BY <1>1, AlwaysCluster, PTL

-----------------------------------------------------------------------------
(* Dead-letter replay.                                                     *)

\* Every pushed entry is in one place, and no other entry is in any; a call
\* works on an entry it holds.
ReplayInv ==
    /\ pushed \in Nat
    /\ waiting \subseteq Entries /\ Gone \subseteq Entries
    /\ taken \in [Replayers -> SUBSET Entries]
    /\ current \in [Replayers -> Entries \cup {Free}]
    /\ \A e \in Entries : InOnePlace(e)
    /\ sent \cap (agedOut \cup discarded \cup abandoned) = {}
    /\ agedOut \cap (discarded \cup abandoned) = {}
    /\ discarded \cap abandoned = {}
    /\ \A e \in waiting \cup Gone : e <= pushed
    /\ \A r \in Replayers : \A e \in taken[r] : e <= pushed
    /\ \A r \in Replayers : current[r] # Free => current[r] \in taken[r]

Held(e) == e \in waiting \/ \E r \in Replayers : e \in taken[r]

\* What the ledger says of an entry in one place.
FatesKnown ==
    \A e \in Entries :
        /\ Held(e) => e \notin Gone /\ fateOf[e] = "inside"
        /\ e \in sent => fateOf[e] = "delivered"
        /\ e \in agedOut => fateOf[e] = "expired"
        /\ e \in discarded => fateOf[e] = "discarded"
        /\ e \in abandoned => fateOf[e] = "abandoned"
        /\ ~Held(e) /\ e \notin Gone => fateOf[e] = "new"

LEMMA FateOfEntry == ReplayInv => FatesKnown
<1>. SUFFICES ASSUME ReplayInv, NEW e \in Entries
     PROVE  /\ Held(e) => e \notin Gone /\ fateOf[e] = "inside"
            /\ e \in sent => fateOf[e] = "delivered"
            /\ e \in agedOut => fateOf[e] = "expired"
            /\ e \in discarded => fateOf[e] = "discarded"
            /\ e \in abandoned => fateOf[e] = "abandoned"
            /\ ~Held(e) /\ e \notin Gone => fateOf[e] = "new"
  BY DEF FatesKnown
<1>1. InOnePlace(e)
  BY DEF ReplayInv
<1>2. Held(e) => e \notin Gone
  BY <1>1 DEF InOnePlace, Held
<1>3. /\ e \in sent => ~(e \in agedOut \/ e \in discarded \/ e \in abandoned)
      /\ e \in agedOut => ~(e \in discarded \/ e \in abandoned)
      /\ e \in discarded => e \notin abandoned
  BY DEF ReplayInv
<1>4. e \in Gone <=> e \in sent \/ e \in agedOut \/ e \in discarded \/ e \in abandoned
  BY DEF Gone
<1>5. fateOf[e] =
        CASE ~InOnePlace(e) -> "torn"
          [] Held(e) -> "inside"
          [] e \in sent -> "delivered"
          [] e \in agedOut -> "expired"
          [] e \in discarded -> "discarded"
          [] e \in abandoned -> "abandoned"
          [] OTHER -> "new"
  BY DEF fateOf, Held
<1>. QED  BY <1>1, <1>2, <1>3, <1>4, <1>5

\* The steps of a call that put down its entry.
LEMMA PutDownShape ==
    ASSUME ReplayInv, NEW r \in Replayers, PutDown(r)
    PROVE  /\ current[r] \in Entries /\ current[r] \in taken[r]
           /\ taken'[r] = taken[r] \ {current[r]} /\ current'[r] = Free
           /\ \A q \in Replayers : q # r => taken'[q] = taken[q] /\ current'[q] = current[q]
           /\ taken' \in [Replayers -> SUBSET Entries]
           /\ current' \in [Replayers -> Entries \cup {Free}]
           /\ \A q \in Replayers : current'[q] # Free => current'[q] \in taken'[q]
           /\ pushed' = pushed
BY ReplayAssumption DEF ReplayInv, PutDown

LEMMA NextReplay == ReplayInv /\ [ReplayNext]_replayVars => ReplayInv'
<1>. SUFFICES ASSUME ReplayInv, [ReplayNext]_replayVars PROVE ReplayInv'
  OBVIOUS
<1>. USE DEF entryVars, callVars, lostVars
<1>0. \A e \in Entries : e \in Nat
  BY ReplayAssumption DEF Entries
<1>1. CASE Push
  <2>1. pushed + 1 \in Entries /\ pushed' = pushed + 1 /\ waiting' = waiting \cup {pushed + 1}
    BY <1>1, ReplayAssumption DEF ReplayInv, Push, Entries
  <2>2. /\ pushed + 1 \notin waiting \cup Gone
        /\ \A r \in Replayers : pushed + 1 \notin taken[r]
    BY <1>0 DEF ReplayInv
  <2>3. Gone' = Gone /\ taken' = taken
    BY <1>1 DEF Push, Gone
  <2>4. \A e \in Entries : InOnePlace(e)'
    BY <2>1, <2>2, <2>3 DEF ReplayInv, InOnePlace
  <2>5. \A e \in waiting' \cup Gone' : e <= pushed'
    BY <1>0, <2>1, <2>3 DEF ReplayInv
  <2>6. \A r \in Replayers : \A e \in taken'[r] : e <= pushed'
    BY <1>0, <2>1, <2>3 DEF ReplayInv
  <2>. QED  BY <1>1, <2>1, <2>3, <2>4, <2>5, <2>6 DEF ReplayInv, Push
<1>2. ASSUME NEW r \in Replayers, NEW F \in Filters, TakeDue(r, F) PROVE ReplayInv'
  <2>1. PICK S \in SUBSET waiting :
           taken' = [taken EXCEPT ![r] = S] /\ waiting' = waiting \ S /\ taken[r] = {}
    BY <1>2 DEF TakeDue, Kept
  <2>2. Gone' = Gone /\ UNCHANGED <<pushed, current, sent, agedOut, discarded, abandoned>>
    BY <1>2 DEF TakeDue, Gone
  <2>3. current[r] = Free
    BY <2>1 DEF ReplayInv
  <2>4. \A e \in Entries : InOnePlace(e)'
    BY <2>1, <2>2 DEF ReplayInv, InOnePlace
  <2>. QED  BY <2>1, <2>2, <2>3, <2>4 DEF ReplayInv
<1>3. ASSUME NEW r \in Replayers, NEW e \in Entries, PickNext(r, e) PROVE ReplayInv'
  BY <1>3 DEF PickNext, ReplayInv, InOnePlace, Gone
<1>4. ASSUME NEW r \in Replayers, PutDown(r), UNCHANGED waiting,
             Gone' = Gone \cup {current[r]},
             sent' \cap (agedOut' \cup discarded' \cup abandoned') = {},
             agedOut' \cap (discarded' \cup abandoned') = {},
             discarded' \cap abandoned' = {}
      PROVE  ReplayInv'
  <2>1. \A e \in Entries : InOnePlace(e)'
    BY <1>4, PutDownShape DEF ReplayInv, InOnePlace
  <2>. QED  BY <1>4, <2>1, PutDownShape DEF ReplayInv
<1>5. ASSUME NEW r \in Replayers, Inject(r) \/ Discard(r) PROVE ReplayInv'
  <2>1. PutDown(r) /\ UNCHANGED waiting
    BY <1>5 DEF Inject, Discard
  <2>2. current[r] \in Entries /\ current[r] \notin Gone
    BY <2>1, PutDownShape DEF ReplayInv, InOnePlace
  <2>. QED  BY <1>4, <1>5, <2>1, <2>2 DEF Inject, Discard, Gone, ReplayInv
<1>6. ASSUME NEW r \in Replayers, Refuse(r) PROVE ReplayInv'
  <2>1. /\ PutDown(r) /\ waiting' = waiting \cup {current[r]}
        /\ UNCHANGED <<sent, agedOut, discarded, abandoned>> /\ Gone' = Gone
    BY <1>6 DEF Refuse, Gone
  <2>2. \A e \in Entries : InOnePlace(e)'
    BY <2>1, PutDownShape DEF ReplayInv, InOnePlace
  <2>. QED  BY <2>1, <2>2, PutDownShape DEF ReplayInv
<1>7. ASSUME NEW r \in Replayers, DropCall(r) PROVE ReplayInv'
  <2>1. /\ taken' = [taken EXCEPT ![r] = {}] /\ current' = [current EXCEPT ![r] = Free]
        /\ abandoned' = abandoned \cup taken[r] /\ Gone' = Gone \cup taken[r]
        /\ UNCHANGED <<pushed, waiting, sent, agedOut, discarded>>
    BY <1>7 DEF DropCall, Gone
  <2>2. taken[r] \subseteq Entries /\ taken[r] \cap Gone = {}
    BY DEF ReplayInv, InOnePlace
  <2>3. \A e \in Entries : InOnePlace(e)'
    BY <2>1, <2>2 DEF ReplayInv, InOnePlace
  <2>4. /\ sent' \cap (agedOut' \cup discarded' \cup abandoned') = {}
        /\ agedOut' \cap (discarded' \cup abandoned') = {}
        /\ discarded' \cap abandoned' = {}
    BY <2>1, <2>2 DEF ReplayInv, Gone
  <2>. QED  BY <2>1, <2>2, <2>3, <2>4 DEF ReplayInv
<1>8. ASSUME NEW S \in SUBSET Entries, AgeOut(S) PROVE ReplayInv'
  <2>1. /\ waiting' = waiting \ S /\ agedOut' = agedOut \cup S /\ Gone' = Gone \cup S
        /\ UNCHANGED <<pushed, taken, current, sent, discarded, abandoned>>
    BY <1>8 DEF AgeOut, Gone
  <2>2. S \subseteq waiting
    BY <1>8 DEF AgeOut
  <2>3. S \subseteq Entries /\ S \cap Gone = {}
    BY <2>2 DEF ReplayInv, InOnePlace
  <2>4. \A e \in Entries : InOnePlace(e)'
    BY <2>1, <2>2 DEF ReplayInv, InOnePlace
  <2>5. /\ sent' \cap (agedOut' \cup discarded' \cup abandoned') = {}
        /\ agedOut' \cap (discarded' \cup abandoned') = {}
        /\ discarded' \cap abandoned' = {}
    BY <2>1, <2>3 DEF ReplayInv, Gone
  <2>. QED  BY <2>1, <2>2, <2>3, <2>4, <2>5 DEF ReplayInv
<1>9. CASE CloseChannel \/ ReplayTick \/ UNCHANGED replayVars
  BY <1>9 DEF CloseChannel, ReplayTick, replayVars, ReplayInv, InOnePlace, Gone
<1>. QED
  BY <1>1, <1>2, <1>3, <1>5, <1>6, <1>7, <1>8, <1>9 DEF ReplayNext, CallStep

\* A step that takes the entries of S from `from' to `to' moves them in the
\* ledger.
LEMMA FateMoves ==
    ASSUME NEW S \in SUBSET Entries, NEW from, NEW to,
           \A e \in S : fateOf[e] = from /\ fateOf'[e] = to,
           \A e \in Entries \ S : fateOf'[e] = fateOf[e]
    PROVE  Promise!Move(S, from, to)
<1>1. fateOf' = [e \in Entries |-> fateOf'[e]]
  BY DEF fateOf
<1>2. fateOf' = [e \in Entries |-> IF e \in S THEN to ELSE fateOf[e]]
  BY <1>1
<1>. QED  BY <1>2 DEF Promise!Move

\* Nothing happens in the ledger while every entry is held as before.
LEMMA FateStutters ==
    ASSUME ReplayInv, ReplayInv', UNCHANGED lostVars, UNCHANGED sent,
           \A e \in Entries : Held(e) <=> Held(e)'
    PROVE  UNCHANGED fateOf
<1>1. Gone' = Gone
  BY DEF Gone, lostVars
<1>2. FatesKnown /\ FatesKnown'
  BY FateOfEntry, PTL
<1>3. \A e \in Entries : fateOf'[e] = fateOf[e]
  BY <1>1, <1>2 DEF FatesKnown, lostVars, Gone
<1>4. fateOf = [e \in Entries |-> fateOf[e]] /\ fateOf' = [e \in Entries |-> fateOf'[e]]
  BY DEF fateOf
<1>. QED  BY <1>3, <1>4

LEMMA ReplayRefines ==
    ReplayInv /\ ReplayInv' /\ [ReplayNext]_replayVars => [Promise!Next]_fateOf
<1>. SUFFICES ASSUME ReplayInv, ReplayInv', [ReplayNext]_replayVars
              PROVE  [Promise!Next]_fateOf
  OBVIOUS
<1>. USE DEF entryVars, callVars, lostVars
<1>0. FatesKnown /\ FatesKnown'
  BY FateOfEntry, PTL
<1>1. CASE Push
  <2>. DEFINE n == pushed + 1
  <2>1. n \in Entries /\ waiting' = waiting \cup {n} /\ UNCHANGED <<taken, sent, agedOut,
           discarded, abandoned>>
    BY <1>1, ReplayAssumption DEF ReplayInv, Push, Entries
  <2>2. n \notin Gone /\ ~Held(n)
    <3>1. ~(n <= pushed)
      BY DEF ReplayInv
    <3>. QED  BY <3>1 DEF ReplayInv, Held
  <2>. HIDE DEF n
  <2>3. fateOf[n] = "new" /\ fateOf'[n] = "inside"
    BY <1>0, <2>1, <2>2 DEF FatesKnown, Held
  <2>4. \A e \in Entries \ {n} : fateOf'[e] = fateOf[e]
    BY <1>0, <2>1 DEF FatesKnown, Held, Gone
  <2>5. Promise!Accept(n)
    BY <2>1, <2>3, <2>4, FateMoves DEF Promise!Accept
  <2>. QED  BY <2>1, <2>5 DEF Promise!Next
<1>2. ASSUME NEW r \in Replayers, NEW F \in Filters, TakeDue(r, F) PROVE UNCHANGED fateOf
  <2>1. PICK S \in SUBSET waiting :
           taken' = [taken EXCEPT ![r] = S] /\ waiting' = waiting \ S /\ taken[r] = {}
    BY <1>2 DEF TakeDue, Kept
  <2>2. \A e \in Entries : Held(e) <=> Held(e)'
    BY <2>1 DEF Held, ReplayInv
  <2>. QED  BY <1>2, <2>2, FateStutters DEF TakeDue
<1>3. ASSUME NEW r \in Replayers, NEW e \in Entries, PickNext(r, e) PROVE UNCHANGED fateOf
  BY <1>3, FateStutters DEF PickNext, Held
<1>4. ASSUME NEW r \in Replayers, PutDown(r), UNCHANGED waiting
      PROVE  /\ current[r] \in Entries /\ fateOf[current[r]] = "inside"
             /\ \A e \in Entries \ {current[r]} : Held(e) <=> Held(e)'
  <2>1. current[r] \in Entries /\ Held(current[r])
    BY <1>4, PutDownShape DEF Held
  <2>2. \A e \in Entries \ {current[r]} : Held(e) <=> Held(e)'
    BY <1>4, PutDownShape DEF Held
  <2>. QED  BY <1>0, <2>1, <2>2 DEF FatesKnown
<1>5. ASSUME NEW r \in Replayers, Inject(r) PROVE Promise!Next
  <2>1. /\ PutDown(r) /\ UNCHANGED <<waiting, agedOut, discarded, abandoned>>
        /\ sent' = sent \cup {current[r]}
    BY <1>5 DEF Inject
  <2>2. fateOf'[current[r]] = "delivered"
    BY <1>0, <1>4, <2>1 DEF FatesKnown
  <2>3. \A e \in Entries \ {current[r]} : fateOf'[e] = fateOf[e]
    BY <1>0, <1>4, <2>1 DEF FatesKnown, Gone
  <2>4. Promise!Deliver(current[r])
    BY <1>4, <2>1, <2>2, <2>3, FateMoves DEF Promise!Deliver
  <2>. QED  BY <1>4, <2>1, <2>4 DEF Promise!Next
<1>6. ASSUME NEW r \in Replayers, Discard(r) PROVE Promise!Next
  <2>1. /\ PutDown(r) /\ UNCHANGED <<waiting, sent, agedOut, abandoned>>
        /\ discarded' = discarded \cup {current[r]}
    BY <1>6 DEF Discard
  <2>2. fateOf'[current[r]] = "discarded"
    BY <1>0, <1>4, <2>1 DEF FatesKnown
  <2>3. \A e \in Entries \ {current[r]} : fateOf'[e] = fateOf[e]
    BY <1>0, <1>4, <2>1 DEF FatesKnown, Gone
  <2>4. Promise!Lose({current[r]}, "discarded")
    BY <1>4, <2>1, <2>2, <2>3, FateMoves DEF Promise!Lose
  <2>. QED  BY <1>4, <2>1, <2>4 DEF Promise!Next, Promise!Lost
<1>7. ASSUME NEW r \in Replayers, Refuse(r) PROVE UNCHANGED fateOf
  <2>1. /\ PutDown(r) /\ waiting' = waiting \cup {current[r]}
        /\ UNCHANGED <<sent, agedOut, discarded, abandoned>>
    BY <1>7 DEF Refuse
  <2>2. \A e \in Entries : Held(e) <=> Held(e)'
    BY <2>1, PutDownShape DEF Held
  <2>. QED  BY <2>1, <2>2, FateStutters
<1>8. ASSUME NEW r \in Replayers, DropCall(r) PROVE Promise!Next
  <2>1. /\ taken' = [taken EXCEPT ![r] = {}] /\ abandoned' = abandoned \cup taken[r]
        /\ UNCHANGED <<waiting, sent, agedOut, discarded>>
    BY <1>8 DEF DropCall
  <2>2. taken[r] \in SUBSET Entries /\ \A e \in taken[r] : Held(e)
    BY DEF ReplayInv, Held
  <2>3. \A e \in taken[r] : fateOf[e] = "inside" /\ fateOf'[e] = "abandoned"
    BY <1>0, <2>1, <2>2 DEF FatesKnown
  <2>4. \A e \in Entries \ taken[r] : Held(e) <=> Held(e)'
    BY <2>1 DEF Held, ReplayInv
  <2>5. \A e \in Entries \ taken[r] : fateOf'[e] = fateOf[e]
    BY <1>0, <2>1, <2>4 DEF FatesKnown, Gone
  <2>6. Promise!Lose(taken[r], "abandoned")
    BY <2>2, <2>3, <2>5, FateMoves DEF Promise!Lose
  <2>. QED  BY <2>2, <2>6 DEF Promise!Next, Promise!Lost
<1>9. ASSUME NEW S \in SUBSET Entries, AgeOut(S) PROVE Promise!Next
  <2>1. /\ waiting' = waiting \ S /\ agedOut' = agedOut \cup S
        /\ UNCHANGED <<taken, sent, discarded, abandoned>>
    BY <1>9 DEF AgeOut
  <2>2. S \subseteq waiting
    BY <1>9 DEF AgeOut
  <2>3. S \in SUBSET Entries /\ \A e \in S : Held(e)
    BY <2>2 DEF ReplayInv, Held
  <2>4. \A e \in S : fateOf[e] = "inside" /\ fateOf'[e] = "expired"
    BY <1>0, <2>1, <2>3 DEF FatesKnown
  <2>5. \A e \in Entries \ S : Held(e) <=> Held(e)'
    BY <2>1 DEF Held
  <2>6. \A e \in Entries \ S : fateOf'[e] = fateOf[e]
    BY <1>0, <2>1, <2>5 DEF FatesKnown, Gone
  <2>7. Promise!Lose(S, "expired")
    BY <2>3, <2>4, <2>6, FateMoves DEF Promise!Lose
  <2>. QED  BY <2>3, <2>7 DEF Promise!Next, Promise!Lost
<1>10. CASE CloseChannel \/ ReplayTick \/ UNCHANGED replayVars
  BY <1>10, FateStutters DEF CloseChannel, ReplayTick, replayVars, Held
<1>. QED
  BY <1>1, <1>2, <1>3, <1>5, <1>6, <1>7, <1>8, <1>9, <1>10 DEF ReplayNext, CallStep

\* An entry meets one fate: it is delivered to the pipeline or lost for one
\* reason, once, and two calls never hold it (replay_filtered, push, age_out).
THEOREM ReplayMeetsPromise == ReplaySpec => ReplayKeepsLedger
<1>1. ReplayInit => ReplayInv
  BY ReplayAssumption DEF ReplayInit, ReplayInv, InOnePlace, Gone
<1>2. ReplayInit => Promise!Init
  <2>. SUFFICES ASSUME ReplayInit PROVE Promise!Init
    OBVIOUS
  <2>1. \A e \in Entries : fateOf[e] = "new"
    BY <1>1, FateOfEntry DEF FatesKnown, ReplayInit, Held, Gone
  <2>2. fateOf = [e \in Entries |-> fateOf[e]]
    BY DEF fateOf
  <2>. QED  BY <2>1, <2>2 DEF Promise!Init
<1>. QED
  BY <1>1, <1>2, NextReplay, ReplayRefines, PTL
     DEF ReplaySpec, ReplayKeepsLedger, Promise!Spec

-----------------------------------------------------------------------------
(* The deployment pipeline.                                                *)

ActiveOnes == {d \in Deployments : stage[d] # "none"}

\* The steps of a rollout are percentages.
LEMMA StepValues ==
    /\ Steps \subseteq 1..100
    /\ \A k \in DOMAIN RolloutSteps : RolloutSteps[k] \in Steps /\ RolloutSteps[k] \in Nat
    /\ DOMAIN RolloutSteps \subseteq Nat \ {0}
    /\ \A k \in DOMAIN RolloutSteps : \A j \in 1..(k - 1) : j \in DOMAIN RolloutSteps
<1>1. /\ RolloutSteps \in [1..Len(RolloutSteps) -> 1..100] /\ Len(RolloutSteps) \in Nat
      /\ DOMAIN RolloutSteps = 1..Len(RolloutSteps)
  BY DeploymentAssumption, LenProperties
<1>2. \A k \in DOMAIN RolloutSteps : RolloutSteps[k] \in 1..100
  BY <1>1
<1>3. /\ Steps \subseteq 1..100
      /\ \A k \in DOMAIN RolloutSteps : RolloutSteps[k] \in Steps
  BY <1>2 DEF Steps
<1>4. \A k \in DOMAIN RolloutSteps : RolloutSteps[k] \in Nat
  BY <1>2
<1>5. /\ DOMAIN RolloutSteps \subseteq Nat \ {0}
      /\ \A k \in DOMAIN RolloutSteps : \A j \in 1..(k - 1) : j \in DOMAIN RolloutSteps
  BY <1>1
<1>. QED  BY <1>3, <1>4, <1>5

\* What a deployment has been through by the time it is in a stage.
Earned(d) ==
    /\ stage[d] \in {"Validating", "Canary", "Rolling"} => <<"Validating", 0>> \in passed[d]
    /\ stage[d] \in {"Canary", "Rolling"} => <<"Canary", 0>> \in passed[d]
    /\ stage[d] = "Rolling" =>
         \A p \in Milestones : p <= progress[d] => <<"Rolling", p>> \in passed[d]

DeploymentInv ==
    /\ stage \in [Deployments -> ActiveStages \cup {"none"}]
    /\ progress \in [Deployments -> {0} \cup Steps]
    /\ passed \in [Deployments -> SUBSET Passable]
    /\ created \in 0..MaxCreated
    /\ outcomes \in Seq(Summaries) /\ completed \in Seq(Summaries)
    /\ Len(completed) <= MaxHistory
    /\ \A d \in Deployments : Earned(d)
    /\ PromotedInFull

\* The first step above the current percentage takes the rollout past every
\* milestone up to it.
LEMMA MilestonesInOrder ==
    ASSUME NEW d \in Deployments, progress[d] \in {0} \cup Steps,
           NEW k \in NextStep(d), NEW p \in Milestones, p <= RolloutSteps[k]
    PROVE  p <= progress[d] \/ p = RolloutSteps[k]
<1>1. PICK n \in DOMAIN RolloutSteps :
         p = RolloutSteps[n] /\ \A j \in 1..(n - 1) : RolloutSteps[j] < RolloutSteps[n]
  BY DEF Milestones
<1>2. /\ k \in DOMAIN RolloutSteps
      /\ \A j \in 1..(k - 1) : RolloutSteps[j] <= progress[d]
  BY DEF NextStep
<1>3. k \in Nat \ {0} /\ n \in Nat \ {0} /\ p \in Nat /\ RolloutSteps[k] \in Nat
  BY <1>1, <1>2, StepValues
<1>4. CASE n < k
  BY <1>1, <1>2, <1>3, <1>4
<1>5. CASE n = k
  BY <1>1, <1>5
<1>6. CASE n > k
  <2>1. k \in 1..(n - 1)
    BY <1>3, <1>6
  <2>2. RolloutSteps[k] < p
    BY <1>1, <2>1
  <2>. QED  BY <1>3, <2>2
<1>. QED  BY <1>3, <1>4, <1>5, <1>6

\* When there is no next step the rollout is past all of them.
LEMMA AllStepsTaken ==
    ASSUME NEW d \in Deployments, progress[d] \in {0} \cup Steps, NextStep(d) = {}
    PROVE  \A p \in Milestones : p <= progress[d]
<1>. DEFINE Above == {k \in DOMAIN RolloutSteps : RolloutSteps[k] > progress[d]}
<1>1. progress[d] \in Nat
  <2>1. progress[d] = 0 \/ progress[d] \in 1..100
    BY StepValues
  <2>. QED  BY <2>1
<1>2. Above = {}
  <2>. SUFFICES ASSUME Above # {} PROVE FALSE
    OBVIOUS
  <2>1. Above \subseteq Nat
    BY StepValues
  <2>. HIDE DEF Above
  <2>2. PICK k \in Above : \A y \in Above : ~(<<y, k>> \in OpToRel(<, Nat))
    BY <2>1, NatLessThanWellFounded, WFMin
  <2>3. \A y \in Above : ~(y < k)
    BY <2>1, <2>2 DEF OpToRel
  <2>4. k \in DOMAIN RolloutSteps /\ RolloutSteps[k] > progress[d]
    BY DEF Above
  <2>5. ASSUME NEW j \in 1..(k - 1) PROVE RolloutSteps[j] <= progress[d]
    <3>1. j \in DOMAIN RolloutSteps /\ RolloutSteps[j] \in Nat
      BY <2>4, StepValues
    <3>2. j \notin Above
      BY <2>1, <2>3
    <3>. QED  BY <1>1, <3>1, <3>2 DEF Above
  <2>6. k \in NextStep(d)
    BY <2>4, <2>5 DEF NextStep
  <2>. QED  BY <2>6
<1>3. ASSUME NEW p \in Milestones PROVE p <= progress[d]
  <2>1. PICK n \in DOMAIN RolloutSteps : p = RolloutSteps[n]
    BY DEF Milestones
  <2>. QED  BY <1>1, <1>2, <2>1, StepValues
<1>. QED  BY <1>3

LEMMA NextDeployment == DeploymentInv /\ [DeploymentNext]_deploymentVars => DeploymentInv'
<1>. SUFFICES ASSUME DeploymentInv, [DeploymentNext]_deploymentVars PROVE DeploymentInv'
  OBVIOUS
<1>0. MaxHistory \in Nat /\ MaxCreated \in Nat
  BY DeploymentAssumption
<1>1. ASSUME NEW d \in Deployments, NEW s \in ActiveStages \ {"Pending"},
             NEW pct \in {0} \cup Steps, MoveTo(d, s, pct), stage[d] # "none",
             s \in {"Canary", "Rolling"} => <<"Validating", 0>> \in passed'[d],
             s = "Rolling" => <<"Canary", 0>> \in passed'[d],
             s = "Validating" => pct = 0,
             s = "Canary" => pct = 0,
             s = "Rolling" => \A p \in Milestones : p <= pct => <<"Rolling", p>> \in passed'[d]
      PROVE  DeploymentInv'
  <2>1. /\ stage' = [stage EXCEPT ![d] = s] /\ progress' = [progress EXCEPT ![d] = pct]
        /\ passed' = [passed EXCEPT ![d] = @ \cup {<<s, pct>>}]
        /\ UNCHANGED <<completed, created, outcomes>>
    BY <1>1 DEF MoveTo
  <2>2. <<s, pct>> \in Passable
    BY DEF Passable
  <2>3. /\ stage' \in [Deployments -> ActiveStages \cup {"none"}]
        /\ progress' \in [Deployments -> {0} \cup Steps]
        /\ passed' \in [Deployments -> SUBSET Passable]
    BY <2>1, <2>2 DEF DeploymentInv
  <2>4. stage'[d] = s /\ progress'[d] = pct /\ <<s, pct>> \in passed'[d]
    BY <2>1 DEF DeploymentInv
  <2>5. Earned(d)'
    BY <1>1, <2>4 DEF Earned, Milestones
  <2>6. ASSUME NEW e \in Deployments, e # d PROVE Earned(e)'
    <3>1. stage'[e] = stage[e] /\ progress'[e] = progress[e] /\ passed'[e] = passed[e]
      BY <2>1, <2>6 DEF DeploymentInv
    <3>. QED  BY <3>1 DEF Earned, DeploymentInv, Milestones
  <2>7. PromotedInFull'
    BY <2>1 DEF DeploymentInv, PromotedInFull, Milestones
  <2>. QED  BY <2>1, <2>3, <2>5, <2>6, <2>7 DEF DeploymentInv
<1>2. ASSUME NEW d \in Deployments, NEW final \in FinalStages, Finish(d, final),
             final = "Promoted" => stage[d] = "Rolling"
                                   /\ \A p \in Milestones : p <= progress[d]
      PROVE  DeploymentInv'
  <2>. DEFINE summary == [id |-> d, stage |-> final, passed |-> passed[d]]
  <2>1. /\ completed' = Trimmed(Append(completed, summary))
        /\ outcomes' = Append(outcomes, summary)
        /\ stage' = [stage EXCEPT ![d] = "none"] /\ progress' = [progress EXCEPT ![d] = 0]
        /\ passed' = [passed EXCEPT ![d] = {}] /\ created' = created
    BY <1>2 DEF Finish
  <2>2. summary \in Summaries
    BY DEF Summaries, DeploymentInv
  <2>3. /\ stage' \in [Deployments -> ActiveStages \cup {"none"}]
        /\ progress' \in [Deployments -> {0} \cup Steps]
        /\ passed' \in [Deployments -> SUBSET Passable]
    BY <2>1 DEF DeploymentInv
  <2>4. \A e \in Deployments : Earned(e)'
    <3>. SUFFICES ASSUME NEW e \in Deployments PROVE Earned(e)'
      OBVIOUS
    <3>1. CASE e = d
      BY <2>1, <3>1 DEF DeploymentInv, Earned
    <3>2. CASE e # d
      <4>1. stage'[e] = stage[e] /\ progress'[e] = progress[e] /\ passed'[e] = passed[e]
        BY <2>1, <3>2 DEF DeploymentInv
      <4>. QED  BY <4>1 DEF Earned, DeploymentInv, Milestones
    <3>. QED  BY <3>1, <3>2
  <2>5. summary.stage = "Promoted" =>
          ({<<"Validating", 0>>, <<"Canary", 0>>}
            \cup {<<"Rolling", p>> : p \in Milestones}) \subseteq summary.passed
    BY <1>2 DEF DeploymentInv, Earned
  <2>. HIDE DEF summary
  <2>6. /\ outcomes' \in Seq(Summaries) /\ Len(outcomes') = Len(outcomes) + 1
        /\ \A k \in 1..Len(outcomes) : outcomes'[k] = outcomes[k]
        /\ outcomes'[Len(outcomes) + 1] = summary
        /\ DOMAIN outcomes' = 1..(Len(outcomes) + 1) /\ DOMAIN outcomes = 1..Len(outcomes)
        /\ Len(outcomes) \in Nat
    BY <2>1, <2>2 DEF DeploymentInv
  <2>7. PromotedInFull'
    <3>1. ASSUME NEW k \in DOMAIN outcomes', outcomes'[k].stage = "Promoted"
          PROVE  ({<<"Validating", 0>>, <<"Canary", 0>>}
                    \cup {<<"Rolling", p>> : p \in Milestones}) \subseteq outcomes'[k].passed
      <4>1. CASE k = Len(outcomes) + 1
        BY <2>5, <2>6, <3>1, <4>1
      <4>2. CASE k # Len(outcomes) + 1
        <5>1. k \in DOMAIN outcomes /\ outcomes'[k] = outcomes[k]
          BY <2>6, <4>2
        <5>. QED  BY <3>1, <5>1 DEF DeploymentInv, PromotedInFull
      <4>. QED  BY <4>1, <4>2
    <3>. QED  BY <3>1 DEF PromotedInFull, Milestones
  <2>8. completed' \in Seq(Summaries) /\ Len(completed') <= MaxHistory
    <3>. DEFINE a == Append(completed, summary)
    <3>1. a \in Seq(Summaries) /\ Len(a) \in Nat
      BY <2>2 DEF DeploymentInv
    <3>2. \A i \in 1..Len(a) : a[i] \in Summaries
      BY <3>1
    <3>. HIDE DEF a
    <3>3. CASE Len(a) > MaxHistory
      <4>1. completed' = SubSeq(a, Len(a) - MaxHistory + 1, Len(a))
        BY <2>1, <3>3 DEF Trimmed, a
      <4>2. /\ Len(a) - MaxHistory + 1 \in Int /\ Len(a) \in Int
            /\ Len(a) - MaxHistory + 1 >= 1
        BY <1>0, <3>1, <3>3
      <4>3. \A i \in (Len(a) - MaxHistory + 1)..Len(a) : a[i] \in Summaries
        BY <3>2, <4>2
      <4>4. /\ completed' \in Seq(Summaries)
            /\ Len(completed') = IF Len(a) - MaxHistory + 1 <= Len(a)
                                 THEN Len(a) - (Len(a) - MaxHistory + 1) + 1 ELSE 0
        BY <4>1, <4>2, <4>3, SubSeqProperties
      <4>. QED  BY <1>0, <3>1, <4>4
    <3>4. CASE ~(Len(a) > MaxHistory)
      BY <1>0, <2>1, <3>1, <3>4 DEF Trimmed, a
    <3>. QED  BY <3>3, <3>4
  <2>. QED  BY <2>1, <2>3, <2>4, <2>6, <2>7, <2>8 DEF DeploymentInv
<1>3. ASSUME NEW d \in Deployments, Create(d) PROVE DeploymentInv'
  <2>1. <<"Pending", 0>> \in Passable
    BY DEF Passable, ActiveStages
  <2>2. /\ stage' = [stage EXCEPT ![d] = "Pending"]
        /\ passed' = [passed EXCEPT ![d] = {<<"Pending", 0>>}]
        /\ created' \in 0..MaxCreated /\ UNCHANGED <<progress, completed, outcomes>>
    BY <1>0, <1>3 DEF Create, DeploymentInv
  <2>3. \A e \in Deployments : Earned(e)'
    <3>. SUFFICES ASSUME NEW e \in Deployments PROVE Earned(e)'
      OBVIOUS
    <3>1. CASE e = d
      BY <2>2, <3>1 DEF DeploymentInv, Earned
    <3>2. CASE e # d
      <4>1. stage'[e] = stage[e] /\ progress'[e] = progress[e] /\ passed'[e] = passed[e]
        BY <2>2, <3>2 DEF DeploymentInv
      <4>. QED  BY <4>1 DEF Earned, DeploymentInv, Milestones
    <3>. QED  BY <3>1, <3>2
  <2>4. PromotedInFull'
    BY <2>2 DEF DeploymentInv, PromotedInFull, Milestones
  <2>5. /\ stage' \in [Deployments -> ActiveStages \cup {"none"}]
        /\ passed' \in [Deployments -> SUBSET Passable]
    BY <2>1, <2>2 DEF DeploymentInv, ActiveStages
  <2>. QED  BY <2>2, <2>3, <2>4, <2>5 DEF DeploymentInv
<1>4. \A p \in Milestones : p \in 1..100
  BY StepValues DEF Milestones
<1>5. ASSUME NEW d \in Deployments,
             StartValidation(d) \/ ValidationPassed(d) \/ CanaryPassed(d)
      PROVE  DeploymentInv'
  <2>1. Earned(d) /\ passed \in [Deployments -> SUBSET Passable]
    BY DEF DeploymentInv
  <2>2. CASE StartValidation(d)
    BY <1>1, <2>2 DEF StartValidation, ActiveStages
  <2>3. CASE ValidationPassed(d)
    <3>1. MoveTo(d, "Canary", 0) /\ <<"Validating", 0>> \in passed'[d]
      BY <2>1, <2>3 DEF ValidationPassed, MoveTo, Earned
    <3>. QED  BY <1>1, <2>3, <3>1 DEF ValidationPassed, ActiveStages
  <2>4. CASE CanaryPassed(d)
    <3>1. /\ MoveTo(d, "Rolling", 0) /\ <<"Validating", 0>> \in passed'[d]
          /\ <<"Canary", 0>> \in passed'[d]
      BY <2>1, <2>4 DEF CanaryPassed, MoveTo, Earned
    <3>2. \A p \in Milestones : ~(p <= 0)
      BY <1>4
    <3>. QED  BY <1>1, <2>4, <3>1, <3>2 DEF CanaryPassed, ActiveStages
  <2>. QED  BY <1>5, <2>2, <2>3, <2>4
<1>6. ASSUME NEW d \in Deployments, Advance(d) PROVE DeploymentInv'
  <2>1. stage[d] = "Rolling" /\ Earned(d) /\ progress[d] \in {0} \cup Steps
    BY <1>6 DEF Advance, DeploymentInv
  <2>2. ASSUME NEW k \in NextStep(d), MoveTo(d, "Rolling", RolloutSteps[k])
        PROVE  DeploymentInv'
    <3>1. RolloutSteps[k] \in Steps
      BY StepValues DEF NextStep
    <3>2. /\ passed'[d] = passed[d] \cup {<<"Rolling", RolloutSteps[k]>>}
      BY <2>2 DEF MoveTo, DeploymentInv
    <3>3. ASSUME NEW p \in Milestones, p <= RolloutSteps[k]
          PROVE  <<"Rolling", p>> \in passed'[d]
      <4>1. CASE p <= progress[d]
        BY <2>1, <3>2, <4>1 DEF Earned
      <4>2. CASE p = RolloutSteps[k]
        BY <3>2, <4>2
      <4>. QED  BY <2>1, <3>3, <4>1, <4>2, MilestonesInOrder
    <3>4. <<"Validating", 0>> \in passed'[d] /\ <<"Canary", 0>> \in passed'[d]
      BY <2>1, <3>2 DEF Earned
    <3>. QED  BY <1>1, <2>1, <2>2, <3>1, <3>3, <3>4 DEF ActiveStages
  <2>3. CASE NextStep(d) = {} /\ Finish(d, "Promoted")
    BY <1>2, <2>1, <2>3, AllStepsTaken DEF FinalStages
  <2>. QED  BY <1>6, <2>2, <2>3 DEF Advance
<1>7. ASSUME NEW d \in Deployments, Promote(d) PROVE DeploymentInv'
  <2>1. stage[d] = "Rolling" /\ progress[d] = 100 /\ Finish(d, "Promoted")
    BY <1>7 DEF Promote, FullyRolledOut
  <2>2. \A p \in Milestones : p <= progress[d]
    BY <1>4, <2>1
  <2>. QED  BY <1>2, <2>1, <2>2 DEF FinalStages
<1>8. ASSUME NEW d \in Deployments,
             ValidationFailed(d) \/ CanaryFailed(d) \/ RolloutFailed(d) \/ Rollback(d)
      PROVE  DeploymentInv'
  BY <1>2, <1>8 DEF ValidationFailed, CanaryFailed, RolloutFailed, Rollback, FinalStages
<1>9. CASE UNCHANGED deploymentVars
  BY <1>9 DEF deploymentVars, DeploymentInv, Earned, PromotedInFull, Milestones
<1>. QED  BY <1>3, <1>5, <1>6, <1>7, <1>8, <1>9 DEF DeploymentNext

LEMMA AlwaysDeployment == DeploymentSpec => []DeploymentInv
<1>1. DeploymentInit => DeploymentInv
  <2>. SUFFICES ASSUME DeploymentInit PROVE DeploymentInv
    OBVIOUS
  <2>1. MaxHistory \in Nat /\ MaxCreated \in Nat
    BY DeploymentAssumption
  <2>2. \A d \in Deployments : Earned(d)
    BY DEF DeploymentInit, Earned
  <2>3. PromotedInFull
    BY DEF DeploymentInit, PromotedInFull
  <2>. QED  BY <2>1, <2>2, <2>3 DEF DeploymentInit, DeploymentInv
<1>. QED  BY <1>1, NextDeployment, PTL DEF DeploymentSpec

\* Type correctness of the deployment pipeline.
THEOREM DeploymentTypeCorrect == DeploymentSpec => []DeploymentTypeOK
<1>1. DeploymentInv => DeploymentTypeOK
  BY DEF DeploymentInv, DeploymentTypeOK
<1>. QED  BY <1>1, AlwaysDeployment, PTL

\* What is promoted was validated, was a canary and stood at every milestone,
\* for any list of rollout steps, whoever calls which operation in between
\* (advance_rollout, promote, rollback).
THEOREM PromotionEarned == DeploymentSpec => []PromotedInFull
<1>1. DeploymentInv => PromotedInFull
  BY DEF DeploymentInv
<1>. QED  BY <1>1, AlwaysDeployment, PTL

\* The last M elements but one of the first L + 1, as SubSeq takes them.
SliceOf(q, n, L, M) ==
    /\ SubSeq(q, n + 2, L + 1) \in Seq(Summaries)
    /\ Len(SubSeq(q, n + 2, L + 1)) = M
    /\ \A i \in 1..M : SubSeq(q, n + 2, L + 1)[i] = q[n + 1 + i]

LEMMA SliceTaken ==
    ASSUME NEW q, NEW L \in Nat, NEW n \in Nat, NEW M \in Nat, L - n = M,
           \A i \in 1..(L + 1) : q[i] \in Summaries
    PROVE  SliceOf(q, n, L, M)
<1>. SUFFICES /\ SubSeq(q, n + 2, L + 1) \in Seq(Summaries)
              /\ Len(SubSeq(q, n + 2, L + 1)) = M
              /\ \A i \in 1..M : SubSeq(q, n + 2, L + 1)[i] = q[n + 1 + i]
  BY DEF SliceOf
<1>1. \A i \in (n + 2)..(L + 1) : q[i] \in Summaries
  OBVIOUS
<1>2. /\ SubSeq(q, n + 2, L + 1) \in Seq(Summaries)
      /\ Len(SubSeq(q, n + 2, L + 1)) = IF n + 2 <= L + 1 THEN L + 1 - (n + 2) + 1 ELSE 0
      /\ \A i \in 1..(L + 1 - (n + 2) + 1) : SubSeq(q, n + 2, L + 1)[i] = q[n + 2 + i - 1]
  <2>1. n + 2 \in Int /\ L + 1 \in Int
    OBVIOUS
  <2>. QED  BY <1>1, <2>1, SubSeqProperties
<1>3. /\ L + 1 - (n + 2) + 1 = M
      /\ (IF n + 2 <= L + 1 THEN L + 1 - (n + 2) + 1 ELSE 0) = M
  OBVIOUS
<1>4. \A i \in 1..M : n + 2 + i - 1 = n + 1 + i
  OBVIOUS
<1>. QED  BY <1>2, <1>3, <1>4

\* The archive is the end of the list of outcomes, and all of it until it is full.
EndOf(archive, all) ==
    \E n \in 0..Len(all) : /\ archive = SubSeq(all, n + 1, Len(all))
                           /\ n = 0 \/ Len(archive) = MaxHistory

\* It keeps being so.
LEMMA SuffixKept ==
    ASSUME NEW all \in Seq(Summaries), NEW archive \in Seq(Summaries),
           NEW longer \in Seq(Summaries), NEW kept,
           NEW s \in Summaries, NEW n \in 0..Len(all),
           archive = SubSeq(all, n + 1, Len(all)),
           Len(archive) <= MaxHistory, n = 0 \/ Len(archive) = MaxHistory,
           longer = Append(all, s), kept = Trimmed(Append(archive, s))
    PROVE  EndOf(kept, longer)
<1>. SUFFICES \E m \in 0..Len(longer) :
                /\ kept = SubSeq(longer, m + 1, Len(longer))
                /\ m = 0 \/ Len(kept) = MaxHistory
  BY DEF EndOf
<1>. DEFINE a == Append(archive, s)
            L == Len(all)
<1>1. /\ MaxHistory \in Nat /\ L \in Nat /\ n \in Nat /\ n <= L
      /\ Len(archive) <= MaxHistory
  BY DeploymentAssumption
<1>0. MaxHistory \in Nat /\ L \in Nat /\ n \in Nat /\ n <= L
  BY <1>1
<1>2. \A i \in 1..L : all[i] \in Summaries
  OBVIOUS
<1>3. /\ Len(longer) = L + 1
      /\ \A i \in 1..L : longer[i] = all[i]
      /\ longer[L + 1] = s
  BY <1>2
<1>4. /\ Len(archive) = L - n
      /\ \A i \in 1..(L - n) : archive[i] = all[n + i]
  <2>1. \A i \in (n + 1)..L : all[i] \in Summaries
    BY <1>1, <1>2
  <2>2. /\ Len(archive) = IF n + 1 <= L THEN L - (n + 1) + 1 ELSE 0
        /\ \A i \in 1..(L - (n + 1) + 1) : archive[i] = all[n + 1 + i - 1]
    BY <1>1, <2>1, SubSeqProperties
  <2>. QED  BY <1>1, <2>2
<1>5. /\ a \in Seq(Summaries) /\ Len(a) = L - n + 1
      /\ \A i \in 1..(L - n) : a[i] = archive[i]
      /\ a[L - n + 1] = s
  BY <1>1, <1>2, <1>4
<1>. HIDE DEF a, L
<1>6. \A i \in 1..(L - n + 1) : a[i] = longer[n + i]
  <2>. SUFFICES ASSUME NEW i \in 1..(L - n + 1) PROVE a[i] = longer[n + i]
    OBVIOUS
  <2>1. CASE i = L - n + 1
    <3>1. n + i = L + 1
      BY <1>0, <2>1
    <3>. QED  BY <1>3, <1>5, <2>1, <3>1
  <2>2. CASE i # L - n + 1
    <3>1. i \in 1..(L - n) /\ n + i \in 1..L
      BY <1>0, <2>2
    <3>. QED  BY <1>3, <1>4, <1>5, <3>1
  <2>. QED  BY <2>1, <2>2
<1>7. \A i \in 1..(L + 1) : longer[i] \in Summaries
  BY <1>3
<1>8. kept = IF Len(a) > MaxHistory
                   THEN SubSeq(a, Len(a) - MaxHistory + 1, Len(a)) ELSE a
  BY DEF Trimmed, a
<1>9. CASE Len(a) > MaxHistory
  <2>1. n = 0 \/ L - n = MaxHistory
    BY <1>4
  <2>2. Len(a) = MaxHistory + 1 /\ L - n = MaxHistory
    BY <1>1, <1>4, <1>5, <1>9
  <2>3. kept = SubSeq(a, 2, MaxHistory + 1)
    <3>1. Len(a) - MaxHistory + 1 = 2
      BY <1>1, <2>2
    <3>. QED  BY <1>8, <1>9, <2>2, <3>1
  <2>4. /\ SubSeq(a, 2, MaxHistory + 1) \in Seq(Summaries)
        /\ Len(SubSeq(a, 2, MaxHistory + 1)) = MaxHistory
        /\ \A i \in 1..MaxHistory : SubSeq(a, 2, MaxHistory + 1)[i] = a[i + 1]
    <3>1. \A i \in 2..(MaxHistory + 1) : a[i] \in Summaries
      BY <1>1, <1>5, <2>2
    <3>2. /\ SubSeq(a, 2, MaxHistory + 1) \in Seq(Summaries)
          /\ Len(SubSeq(a, 2, MaxHistory + 1)) =
               IF 2 <= MaxHistory + 1 THEN MaxHistory + 1 - 2 + 1 ELSE 0
          /\ \A i \in 1..(MaxHistory + 1 - 2 + 1) :
               SubSeq(a, 2, MaxHistory + 1)[i] = a[2 + i - 1]
      BY <1>1, <3>1, SubSeqProperties
    <3>3. MaxHistory + 1 - 2 + 1 = MaxHistory /\ (2 <= MaxHistory + 1 \/ MaxHistory = 0)
      BY <1>0
    <3>4. \A i \in 1..MaxHistory : 2 + i - 1 = i + 1
      BY <1>0
    <3>5. Len(SubSeq(a, 2, MaxHistory + 1)) = MaxHistory
      BY <1>0, <3>2, <3>3
    <3>. QED  BY <3>2, <3>3, <3>4, <3>5
  <2>5. /\ SubSeq(longer, n + 2, L + 1) \in Seq(Summaries)
        /\ Len(SubSeq(longer, n + 2, L + 1)) = MaxHistory
        /\ \A i \in 1..MaxHistory :
             SubSeq(longer, n + 2, L + 1)[i] = longer[n + 1 + i]
    <3>1. L \in Nat /\ n \in Nat /\ MaxHistory \in Nat /\ L - n = MaxHistory
      BY <1>0, <2>2
    <3>2. SliceOf(longer, n, L, MaxHistory)
      BY <1>7, <3>1, SliceTaken
    <3>. QED  BY <3>2 DEF SliceOf
  <2>6. \A i \in 1..MaxHistory : a[i + 1] = longer[n + 1 + i]
    <3>. SUFFICES ASSUME NEW i \in 1..MaxHistory PROVE a[i + 1] = longer[n + 1 + i]
      OBVIOUS
    <3>1. i + 1 \in 1..(L - n + 1) /\ n + (i + 1) = n + 1 + i
      BY <1>0, <2>2
    <3>. QED  BY <1>6, <3>1
  <2>7. SubSeq(a, 2, MaxHistory + 1) = SubSeq(longer, n + 2, L + 1)
    <3>. DEFINE u == SubSeq(a, 2, MaxHistory + 1)
                v == SubSeq(longer, n + 2, L + 1)
    <3>1. /\ u \in Seq(Summaries) /\ Len(u) = MaxHistory
          /\ \A i \in 1..MaxHistory : u[i] = a[i + 1]
      BY <2>4
    <3>2. /\ v \in Seq(Summaries) /\ Len(v) = MaxHistory
          /\ \A i \in 1..MaxHistory : v[i] = longer[n + 1 + i]
      BY <2>5
    <3>. HIDE DEF u, v
    <3>3. Len(u) = Len(v) /\ \A i \in 1..Len(u) : u[i] = v[i]
      BY <2>6, <3>1, <3>2
    <3>4. u = v
      BY <3>1, <3>2, <3>3, SeqEqual
    <3>. QED  BY <3>4 DEF u, v
  <2>8. /\ n + 1 \in 0..Len(longer) /\ (n + 1) + 1 = n + 2
        /\ Len(longer) = L + 1
    BY <1>1, <1>3
  <2>. QED  BY <2>3, <2>4, <2>7, <2>8
<1>10. CASE ~(Len(a) > MaxHistory)
  <2>1. n = 0
    BY <1>1, <1>4, <1>5, <1>10
  <2>2. kept = a
    BY <1>8, <1>10
  <2>3. a = longer
    <3>1. Len(a) = L + 1 /\ \A i \in 1..Len(a) : a[i] = longer[i]
      <4>1. L - n + 1 = L + 1 /\ \A i \in 1..(L + 1) : n + i = i
        BY <1>0, <2>1
      <4>. QED  BY <1>5, <1>6, <4>1
    <3>. QED  BY <1>3, <1>5, <3>1, SeqEqual
  <2>4. SubSeq(longer, 1, Len(longer)) = longer
    BY <1>3, SubSeqFull
  <2>5. 0 \in 0..Len(longer) /\ 0 + 1 = 1
    BY <1>1, <1>3
  <2>. QED  BY <2>2, <2>3, <2>4, <2>5
<1>. QED  BY <1>9, <1>10

\* Every deployment is active or has an outcome, once.
ArchiveInv == ArchiveExact /\ IsFiniteSet(ActiveOnes)

LEMMA NextArchive ==
    DeploymentInv /\ ArchiveInv /\ [DeploymentNext]_deploymentVars => ArchiveInv'
<1>. SUFFICES ASSUME DeploymentInv, ArchiveInv, [DeploymentNext]_deploymentVars
              PROVE  ArchiveInv'
  OBVIOUS
<1>1. /\ IsFiniteSet(ActiveOnes) /\ Cardinality(ActiveOnes) \in Nat
      /\ created = Len(outcomes) + Cardinality(ActiveOnes) /\ Len(outcomes) \in Nat
      /\ stage \in [Deployments -> ActiveStages \cup {"none"}]
  BY FS_CardinalityType DEF ArchiveInv, ArchiveExact, ActiveOnes, DeploymentInv
<1>2. ASSUME UNCHANGED <<completed, outcomes, created>>, ActiveOnes' = ActiveOnes
      PROVE  ArchiveInv'
  BY <1>2 DEF ArchiveInv, ArchiveExact, ActiveOnes
<1>3. ASSUME NEW d \in Deployments, NEW s \in ActiveStages, NEW pct, MoveTo(d, s, pct),
             stage[d] # "none"
      PROVE  ArchiveInv'
  <2>1. ActiveOnes' = ActiveOnes
    BY <1>1, <1>3 DEF MoveTo, ActiveOnes, ActiveStages
  <2>. QED  BY <1>2, <1>3, <2>1 DEF MoveTo
<1>4. ASSUME NEW d \in Deployments, Create(d) PROVE ArchiveInv'
  <2>1. /\ ActiveOnes' = ActiveOnes \cup {d} /\ d \notin ActiveOnes
        /\ created' = created + 1 /\ UNCHANGED <<completed, outcomes>>
    BY <1>1, <1>4 DEF Create, ActiveOnes
  <2>2. /\ IsFiniteSet(ActiveOnes')
        /\ Cardinality(ActiveOnes') = Cardinality(ActiveOnes) + 1
    BY <1>1, <2>1, FS_AddElement
  <2>3. created' = Len(outcomes') + Cardinality(ActiveOnes')
    BY <1>1, <2>1, <2>2
  <2>. QED  BY <2>1, <2>2, <2>3 DEF ArchiveInv, ArchiveExact, ActiveOnes
<1>5. ASSUME NEW d \in Deployments, NEW final \in FinalStages, Finish(d, final),
             stage[d] # "none"
      PROVE  ArchiveInv'
  <2>. DEFINE summary == [id |-> d, stage |-> final, passed |-> passed[d]]
  <2>1. /\ completed' = Trimmed(Append(completed, summary))
        /\ outcomes' = Append(outcomes, summary)
        /\ stage' = [stage EXCEPT ![d] = "none"] /\ created' = created
    BY <1>5 DEF Finish
  <2>2. summary \in Summaries
    BY DEF Summaries, DeploymentInv
  <2>. HIDE DEF summary
  <2>3. EndOf(completed, outcomes)
    BY DEF ArchiveInv, ArchiveExact, EndOf
  <2>4. EndOf(completed', outcomes')
    <3>1. PICK n \in 0..Len(outcomes) :
             /\ completed = SubSeq(outcomes, n + 1, Len(outcomes))
             /\ n = 0 \/ Len(completed) = MaxHistory
      BY <2>3 DEF EndOf
    <3>2. /\ outcomes \in Seq(Summaries) /\ completed \in Seq(Summaries)
          /\ outcomes' \in Seq(Summaries) /\ Len(completed) <= MaxHistory
      BY <2>1, <2>2 DEF DeploymentInv
    <3>. QED  BY <2>1, <2>2, <3>1, <3>2, SuffixKept
  <2>5. ActiveOnes' = ActiveOnes \ {d} /\ d \in ActiveOnes
    BY <1>1, <1>5, <2>1 DEF ActiveOnes
  <2>6. /\ IsFiniteSet(ActiveOnes')
        /\ Cardinality(ActiveOnes') = Cardinality(ActiveOnes) - 1
    BY <1>1, <2>5, FS_RemoveElement
  <2>7. Len(outcomes') = Len(outcomes) + 1
    BY <2>1, <2>2 DEF DeploymentInv
  <2>8. created' = Len(outcomes') + Cardinality(ActiveOnes')
    BY <1>1, <2>1, <2>6, <2>7
  <2>. QED  BY <2>4, <2>6, <2>8 DEF ArchiveInv, ArchiveExact, ActiveOnes, EndOf
<1>6. ASSUME NEW d \in Deployments,
             StartValidation(d) \/ ValidationPassed(d) \/ CanaryPassed(d) \/ Advance(d)
      PROVE  ArchiveInv'
  BY <1>3, <1>5, <1>6 DEF StartValidation, ValidationPassed, CanaryPassed, Advance,
                          ActiveStages, FinalStages
<1>7. ASSUME NEW d \in Deployments,
             \/ ValidationFailed(d) \/ CanaryFailed(d) \/ RolloutFailed(d) \/ Rollback(d)
             \/ Promote(d)
      PROVE  ArchiveInv'
  BY <1>5, <1>7 DEF ValidationFailed, CanaryFailed, RolloutFailed, Rollback, Promote,
                    FullyRolledOut, FinalStages
<1>8. CASE UNCHANGED deploymentVars
  BY <1>2, <1>8 DEF deploymentVars, ActiveOnes
<1>. QED  BY <1>4, <1>6, <1>7, <1>8 DEF DeploymentNext

\* Outcomes are earned, and the archive is the end of the list of all of them:
\* promotion, failure and rollback never make two outcomes of one deployment,
\* nor lose one (transition_to, maybe_archive_deployment).
THEOREM OutcomesEarnedOnce == DeploymentSpec => []OutcomesSound
<1>1. DeploymentInit => ArchiveInv
  <2>. SUFFICES ASSUME DeploymentInit PROVE ArchiveInv
    OBVIOUS
  <2>1. ActiveOnes = {} /\ IsFiniteSet({}) /\ Cardinality({}) = 0
    BY FS_EmptySet DEF DeploymentInit, ActiveOnes
  <2>2. Len(outcomes) = 0 /\ outcomes = <<>> /\ completed = <<>> /\ created = 0
    BY DEF DeploymentInit
  <2>3. SubSeq(outcomes, 0 + 1, Len(outcomes)) = <<>>
    BY <2>2, SubSeqEmpty
  <2>4. 0 \in 0..Len(outcomes)
    BY <2>2
  <2>5. created = Len(outcomes) + Cardinality(ActiveOnes)
    BY <2>1, <2>2
  <2>. QED  BY <2>1, <2>2, <2>3, <2>4, <2>5 DEF ArchiveInv, ArchiveExact, ActiveOnes
<1>2. DeploymentInv /\ ArchiveInv => OutcomesSound
  BY DEF DeploymentInv, ArchiveInv, OutcomesSound
<1>. QED
  BY <1>1, <1>2, NextArchive, AlwaysDeployment, PTL DEF DeploymentSpec

-----------------------------------------------------------------------------
\* The hot configuration.

\* A change of the file that the watcher has not noticed, and a reload that has
\* not written its version yet, will each add one to the version.
Unnoticed == IF Changed THEN 1 ELSE 0
Reloading == IF watcher \in {"loading", "reading", "writing"} THEN 1 ELSE 0

\* No version is larger than the changes there were, counting the first load.
Latest == sets + edits + 1

ConfigInv ==
    /\ file \in Files \cup {Nothing} /\ mtime \in Times \cup {Nothing}
    /\ edits \in 0..MaxEdits /\ sets \in 0..MaxSets
    /\ loaded \in Valid \cup {Nothing} /\ keys \subseteq Setters
    /\ setter \in [Setters -> {"ready", "announcing"}]
    /\ watcher \in {"none", "asleep", "loading", "reading", "writing", "announcing"}
    /\ lastMtime \in Times \cup {Nothing} /\ fetched \in Valid \cup {Nothing}
    /\ marked \subseteq Subscribers
    /\ subscriber \in [Subscribers -> {"waiting", "reading"}]
    /\ view \in [Subscribers -> Values]
    /\ missed \in BOOLEAN
    /\ version \in Nat /\ version + Unnoticed + Reloading <= Latest
    /\ mine \in [Setters -> Nat] /\ \A s \in Setters : mine[s] <= Latest
    /\ next \in 0..Latest /\ announced \in 0..Latest
    /\ overtaken \in 0..sets
    /\ watcher = "writing" => next + overtaken = version + 1
    /\ watcher \notin {"writing", "announcing"} => overtaken = 0

LEMMA NextConfig == ConfigInv /\ [ConfigNext]_configVars => ConfigInv'
<1>. USE ConfigAssumption
<1>. SUFFICES ASSUME ConfigInv, [ConfigNext]_configVars
              PROVE  ConfigInv'
  OBVIOUS
<1>1. Unnoticed \in 0..1 /\ Reloading \in 0..1 /\ Latest \in Nat
  BY DEF ConfigInv, Unnoticed, Reloading, Latest
<1>2. Snapshot \in Values
  BY DEF ConfigInv, Snapshot, Values
<1>3. ASSUME NEW s \in Setters, Set(s) PROVE ConfigInv'
  BY <1>3 DEF Set, ConfigInv, Bumped, Unnoticed, Changed, Reloading, Latest, fileVars,
              watcherVars, channelVars, subscriberVars
<1>4. ASSUME NEW s \in Setters, AnnounceSet(s) PROVE ConfigInv'
  BY <1>4 DEF AnnounceSet, Announce, ConfigInv, Unnoticed, Changed, Reloading, Latest,
              fileVars, snapshotVars, watcherVars, subscriberVars
<1>5. CASE Poll
  BY <1>5 DEF Poll, ConfigInv, Unnoticed, Changed, Reloading, Latest, fileVars,
              snapshotVars, setterVars, channelVars, subscriberVars
<1>6. CASE Load
  BY <1>6 DEF Load, Parses, ConfigInv, Unnoticed, Changed, Reloading, Latest, fileVars,
              snapshotVars, setterVars, channelVars, subscriberVars
<1>7. CASE LoadFails
  BY <1>7 DEF LoadFails, ConfigInv, Unnoticed, Changed, Reloading, Latest, fileVars,
              snapshotVars, setterVars, channelVars, subscriberVars
<1>8. CASE ReadVersion
  BY <1>8 DEF ReadVersion, Bumped, ConfigInv, Unnoticed, Changed, Reloading, Latest,
              fileVars, snapshotVars, setterVars, channelVars, subscriberVars
<1>9. CASE WriteSnapshot
  BY <1>9 DEF WriteSnapshot, ConfigInv, Unnoticed, Changed, Reloading, Latest,
              fileVars, setterVars, channelVars, subscriberVars
<1>10. CASE EndReload
  BY <1>10 DEF EndReload, Announce, ConfigInv, Unnoticed, Changed, Reloading, Latest,
               fileVars, snapshotVars, setterVars, subscriberVars
<1>11. ASSUME NEW u \in Subscribers, Notified(u) PROVE ConfigInv'
  BY <1>11 DEF Notified, ConfigInv, Unnoticed, Changed, Reloading, Latest,
               fileVars, snapshotVars, setterVars, watcherVars
<1>12. ASSUME NEW u \in Subscribers, ReadValues(u) PROVE ConfigInv'
  BY <1>2, <1>12 DEF ReadValues, ConfigInv, Unnoticed, Changed, Reloading, Latest,
                     fileVars, snapshotVars, setterVars, watcherVars, channelVars
<1>13. ASSUME NEW f \in Files, NEW t \in Times, Edit(f, t) PROVE ConfigInv'
  BY <1>13 DEF Edit, ConfigInv, Unnoticed, Changed, Reloading, Latest,
               snapshotVars, setterVars, watcherVars, channelVars, subscriberVars
<1>14. CASE Remove
  BY <1>14 DEF Remove, ConfigInv, Unnoticed, Changed, Reloading, Latest,
               snapshotVars, setterVars, watcherVars, channelVars, subscriberVars
<1>15. CASE UNCHANGED configVars
  BY <1>15 DEF configVars, ConfigInv, Unnoticed, Changed, Reloading, Latest,
               fileVars, snapshotVars, setterVars, watcherVars, channelVars, subscriberVars
<1>. QED
  BY <1>3, <1>4, <1>5, <1>6, <1>7, <1>8, <1>9, <1>10, <1>11, <1>12, <1>13, <1>14, <1>15
     DEF ConfigNext, WatcherStep, SubscriberStep

LEMMA AlwaysConfig == ConfigSpec => []ConfigInv
<1>1. ConfigInit => ConfigInv
  <2>. SUFFICES ASSUME ConfigInit PROVE ConfigInv
    OBVIOUS
  <2>1. /\ loaded \in Valid \cup {Nothing} /\ keys = {}
        /\ watcher \in {"none", "asleep"} /\ MaxEdits \in Nat /\ MaxSets \in Nat
    BY ConfigAssumption DEF ConfigInit, Parses
  <2>2. view \in [Subscribers -> Values]
    BY <2>1 DEF ConfigInit, Snapshot, Values
  <2>3. Unnoticed \in 0..1 /\ Reloading = 0 /\ Latest = 1
    BY <2>1 DEF ConfigInit, Unnoticed, Reloading, Latest
  <2>4. /\ version \in Nat /\ version + Unnoticed + Reloading <= Latest
        /\ next \in 0..Latest /\ announced \in 0..Latest
        /\ overtaken \in 0..sets /\ overtaken = 0
        /\ edits \in 0..MaxEdits /\ sets \in 0..MaxSets
    BY <2>1, <2>3 DEF ConfigInit
  <2>5. mine \in [Setters -> Nat] /\ \A s \in Setters : mine[s] <= Latest
    BY <2>3 DEF ConfigInit
  <2>6. /\ setter \in [Setters -> {"ready", "announcing"}]
        /\ subscriber \in [Subscribers -> {"waiting", "reading"}]
        /\ marked \subseteq Subscribers /\ missed \in BOOLEAN
    BY DEF ConfigInit
  <2>7. /\ file \in Files \cup {Nothing} /\ mtime \in Times \cup {Nothing}
        /\ lastMtime \in Times \cup {Nothing} /\ fetched \in Valid \cup {Nothing}
    BY DEF ConfigInit
  <2>. QED  BY <2>1, <2>2, <2>4, <2>5, <2>6, <2>7 DEF ConfigInv
<1>. QED  BY <1>1, NextConfig, PTL DEF ConfigSpec

\* Type correctness of the hot configuration; in it, no version exceeds the
\* number of sets and of changes of the file that the watcher could notice.
THEOREM ConfigTypeCorrect == ConfigSpec => []ConfigTypeOK
<1>1. ConfigInv => ConfigTypeOK
  <2>. SUFFICES ASSUME ConfigInv PROVE ConfigTypeOK
    OBVIOUS
  <2>. DEFINE Top == MaxSets + 2 * MaxEdits + 2
  <2>1. Latest \in Nat /\ Top \in Nat /\ Latest <= Top
    BY ConfigAssumption DEF ConfigInv, Latest
  <2>2. version \in 0..Top
    BY <2>1 DEF ConfigInv, Unnoticed, Reloading
  <2>3. next \in 0..Top /\ announced \in 0..Top /\ \A s \in Setters : mine[s] \in 0..Top
    BY <2>1 DEF ConfigInv
  <2>4. overtaken \in 0..MaxSets
    BY ConfigAssumption DEF ConfigInv
  <2>5. Versions = 0..Top
    BY DEF Versions
  <2>. QED  BY <2>2, <2>3, <2>4, <2>5 DEF ConfigInv, ConfigTypeOK
<1>. QED  BY <1>1, AlwaysConfig, PTL

\* For any number of callers, edits and subscribers the version falls behind by
\* exactly the calls of set() that a reload overtakes between its read lock and
\* its write lock, and by nothing else.
THEOREM VersionsAccountForSets == ConfigSpec => VersionAccounts
<1>. DEFINE Step ==
       Snapshot' # Snapshot =>
         version' = version + 1 - (IF watcher' = "announcing" /\ watcher = "writing"
                                   THEN overtaken ELSE 0)
<1>1. ConfigInv /\ [ConfigNext]_configVars => [Step]_configVars
  <2>. SUFFICES ASSUME ConfigInv, ConfigNext, Snapshot' # Snapshot PROVE Step
    BY DEF Step
  <2>1. \/ \E s \in Setters : Set(s)
        \/ WriteSnapshot
    BY DEF ConfigNext, WatcherStep, SubscriberStep, AnnounceSet, Poll, Load, LoadFails,
           ReadVersion, EndReload, Notified, ReadValues, Edit, Remove, Snapshot,
           snapshotVars
  <2>2. ASSUME NEW s \in Setters, Set(s) PROVE Step
    BY <2>2 DEF Set, ConfigInv, watcherVars, Bumped
  <2>3. CASE WriteSnapshot
    BY <2>3 DEF WriteSnapshot, ConfigInv, Latest
  <2>. QED  BY <2>1, <2>2, <2>3
<1>. QED  BY <1>1, AlwaysConfig, PTL DEF ConfigSpec, VersionAccounts

-----------------------------------------------------------------------------
\* The token budget.

\* The type invariant needs no strengthening.
LEMMA NextBudget == BudgetTypeOK /\ [BudgetNext]_budgetVars => BudgetTypeOK'
<1>. SUFFICES ASSUME BudgetTypeOK, [BudgetNext]_budgetVars
              PROVE  BudgetTypeOK'
  OBVIOUS
<1>1. MaxPerPeriod \in Nat /\ Period \in Nat /\ MaxPerRequest \in Nat /\ Tokens \subseteq Nat
  BY BudgetAssumption
<1>2. ASSUME NEW p \in Prompts, NEW n \in Tokens, RejectLarge(p, n) PROVE BudgetTypeOK'
  BY <1>2 DEF RejectLarge, BudgetTypeOK, budgetHistory, windowHistory
<1>3. ASSUME NEW p \in Prompts, NEW n \in Tokens, Reserve(p, n) PROVE BudgetTypeOK'
  <2>1. tokensUsed' \in 0..MaxPerPeriod
    BY <1>1, <1>3 DEF Reserve, BudgetTypeOK, Fits, PeriodCapped, UsedNow
  <2>2. elapsed' \in 0..Period /\ lateSurplus' \in Nat /\ cutOverage' \in Nat
    BY <1>1, <1>3 DEF Reserve, RollWindow, windowHistory, BudgetTypeOK
  <2>3. /\ prompt' = [prompt EXCEPT ![p] = "reserved"]
        /\ estimate' = [estimate EXCEPT ![p] = n] /\ actual' = actual
        /\ inWindow' \subseteq inWindow \cup {p}
    BY <1>3 DEF Reserve, RollWindow, windowHistory
  <2>. QED  BY <2>1, <2>2, <2>3 DEF BudgetTypeOK
<1>4. ASSUME NEW p \in Prompts, NEW n \in Tokens, RejectPeriod(p, n) PROVE BudgetTypeOK'
  <2>1. tokensUsed' \in 0..MaxPerPeriod
    BY <1>1, <1>4 DEF RejectPeriod, BudgetTypeOK, UsedNow
  <2>2. elapsed' \in 0..Period /\ lateSurplus' \in Nat /\ cutOverage' \in Nat
    BY <1>1, <1>4 DEF RejectPeriod, RollWindow, BudgetTypeOK
  <2>3. /\ prompt' = [prompt EXCEPT ![p] = "rejected"] /\ prompt[p] = "new"
        /\ estimate' = estimate /\ actual' = actual /\ inWindow' \subseteq inWindow
    BY <1>4 DEF RejectPeriod, RollWindow
  <2>. QED  BY <2>1, <2>2, <2>3 DEF BudgetTypeOK
<1>5. ASSUME NEW p \in Prompts, NEW n \in Tokens, ReleaseTokens(p, n) PROVE BudgetTypeOK'
  <2>1. n \in Nat /\ estimate[p] \in Nat /\ tokensUsed \in Nat /\ tokensUsed <= MaxPerPeriod
    <3>1. estimate[p] \in Tokens \cup {0}
      BY DEF BudgetTypeOK
    <3>2. tokensUsed \in Nat /\ tokensUsed <= MaxPerPeriod
      BY <1>1 DEF BudgetTypeOK
    <3>3. n \in Nat /\ 0 \in Nat
      BY <1>1
    <3>4. estimate[p] \in Nat
      BY <1>1, <3>1, <3>3, Zenon
    <3>. QED  BY <3>2, <3>3, <3>4
  <2>2. CASE ReleaseSurplus(p, n)
    <3>1. tokensUsed' \in 0..tokensUsed
      BY <2>1, <2>2 DEF ReleaseSurplus, Credited, SaturatingSub
    <3>2. lateSurplus' \in Nat /\ cutOverage' \in Nat /\ tokensUsed' \in 0..MaxPerPeriod
      BY <1>1, <2>1, <2>2, <3>1 DEF ReleaseSurplus, BudgetTypeOK
    <3>. QED  BY <1>5, <3>2 DEF ReleaseTokens, BudgetTypeOK
  <2>3. CASE ReleaseOverage(p, n)
    <3>1. tokensUsed' \in 0..MaxPerPeriod
      BY <1>1, <2>1, <2>3 DEF ReleaseOverage, Charged, Limited, Smaller
    <3>2. lateSurplus' \in Nat /\ cutOverage' \in Nat
      BY <1>1, <2>1, <2>3 DEF ReleaseOverage, SaturatingSub, BudgetTypeOK
    <3>. QED  BY <1>5, <3>1, <3>2 DEF ReleaseTokens, BudgetTypeOK
  <2>. QED  BY <1>5, <2>2, <2>3 DEF ReleaseTokens
<1>6. CASE BudgetTick
  BY <1>1, <1>6 DEF BudgetTick, BudgetTypeOK, budgetHistory, windowHistory
<1>7. CASE UNCHANGED budgetVars
  BY <1>7 DEF budgetVars, BudgetTypeOK, budgetHistory, windowHistory
<1>. QED  BY <1>2, <1>3, <1>4, <1>5, <1>6, <1>7 DEF BudgetNext

\* Type correctness of the token budget: in particular the tokens counted never
\* exceed the limit of a period nor fall below zero, although reservations are
\* corrected in later periods than they were made in.
THEOREM BudgetTypeCorrect == BudgetSpec => []BudgetTypeOK
<1>1. BudgetInit => BudgetTypeOK
  BY BudgetAssumption DEF BudgetInit, BudgetTypeOK
<1>. QED  BY <1>1, NextBudget, PTL DEF BudgetSpec

\* Sums.  The tokens of the requests in W, of which request p has c[p].
Tally(c, W) == UNION {{p} \X (1..c[p]) : p \in W}

LEMMA TallyFinite ==
    ASSUME NEW W, IsFiniteSet(W), NEW c, \A p \in W : c[p] \in Nat
    PROVE  IsFiniteSet(Tally(c, W))
<1>. DEFINE f == [p \in W |-> {p} \X (1..c[p])]
            T == {{p} \X (1..c[p]) : p \in W}
<1>1. f \in Surjection(W, T)
  BY DEF Surjection
<1>2. IsFiniteSet(T)
  <2>. HIDE DEF f, T
  <2>. QED  BY <1>1, FS_Surjection
<1>3. ASSUME NEW p \in W PROVE IsFiniteSet({p} \X (1..c[p]))
  <2>0. c[p] \in Nat
    BY <1>3
  <2>1. IsFiniteSet({p})
    BY FS_Singleton
  <2>2. IsFiniteSet(1..c[p])
    BY <2>0, FS_Interval
  <2>. QED  BY <2>1, <2>2, FS_Product
<1>4. \A X \in T : IsFiniteSet(X)
  BY <1>3
<1>. HIDE DEF T
<1>5. IsFiniteSet(UNION T)
  BY <1>2, <1>4, FS_UNION
<1>. QED  BY <1>5 DEF Tally, T

\* One request more adds its tokens.
LEMMA TallyMore ==
    ASSUME NEW W, IsFiniteSet(W), NEW x, x \notin W, NEW c,
           \A p \in W \cup {x} : c[p] \in Nat
    PROVE  Cardinality(Tally(c, W \cup {x})) = Cardinality(Tally(c, W)) + c[x]
<1>. DEFINE X == {x} \X (1..c[x])
<1>1. Tally(c, W \cup {x}) = Tally(c, W) \cup X
  BY DEF Tally
<1>2. Tally(c, W) \cap X = {}
  BY DEF Tally
<1>3. IsFiniteSet(X) /\ Cardinality(X) = c[x]
  <2>1. c[x] \in Nat
    OBVIOUS
  <2>2. IsFiniteSet({x}) /\ Cardinality({x}) = 1
    BY FS_Singleton
  <2>3. IsFiniteSet(1..c[x]) /\ Cardinality(1..c[x]) = c[x]
    BY <2>1, FS_Interval
  <2>4. IsFiniteSet(X) /\ Cardinality(X) = 1 * c[x]
    BY <2>2, <2>3, FS_Product
  <2>. QED  BY <2>1, <2>4
<1>4. IsFiniteSet(Tally(c, W))
  BY TallyFinite
<1>. HIDE DEF X
<1>5. Cardinality(Tally(c, W) \cup X)
        = Cardinality(Tally(c, W)) + Cardinality(X) - Cardinality(Tally(c, W) \cap X)
  BY <1>3, <1>4, FS_Union
<1>6. Cardinality(Tally(c, W)) \in Nat /\ Cardinality(Tally(c, W) \cap X) = 0
  BY <1>2, <1>4, FS_CardinalityType, FS_EmptySet
<1>7. c[x] \in Nat
  OBVIOUS
<1>8. Cardinality(Tally(c, W) \cup X) = Cardinality(Tally(c, W)) + c[x]
  <2>. DEFINE m == Cardinality(Tally(c, W))
              n == c[x]
  <2>1. Cardinality(Tally(c, W) \cup X) = m + n - 0 /\ m \in Nat /\ n \in Nat
    BY <1>3, <1>5, <1>6, <1>7
  <2>. HIDE DEF m, n
  <2>2. Cardinality(Tally(c, W) \cup X) = m + n
    BY <2>1
  <2>. QED  BY <2>2 DEF m, n
<1>. QED  BY <1>1, <1>8

\* Requests that cost the same have the same tokens.
LEMMA TallySame ==
    ASSUME NEW W, NEW c, NEW d, \A p \in W : c[p] = d[p]
    PROVE  Tally(c, W) = Tally(d, W)
BY DEF Tally

\* A request whose cost changes changes the sum by the difference.
LEMMA TallyChanged ==
    ASSUME NEW W, IsFiniteSet(W), NEW x \in W, NEW c, NEW d,
           \A p \in W : c[p] \in Nat /\ d[p] \in Nat,
           \A p \in W \ {x} : c[p] = d[p]
    PROVE  Cardinality(Tally(d, W)) = Cardinality(Tally(c, W)) - c[x] + d[x]
<1>. DEFINE V == W \ {x}
<1>1. IsFiniteSet(V) /\ x \notin V /\ W = V \cup {x}
  BY FS_Subset
<1>2. Cardinality(Tally(c, V \cup {x})) = Cardinality(Tally(c, V)) + c[x]
  BY <1>1, TallyMore
<1>3. Cardinality(Tally(d, V \cup {x})) = Cardinality(Tally(d, V)) + d[x]
  BY <1>1, TallyMore
<1>4. Tally(c, V) = Tally(d, V)
  BY TallySame
<1>5. Cardinality(Tally(c, V)) \in Nat
  BY <1>1, TallyFinite, FS_CardinalityType
<1>. QED  BY <1>1, <1>2, <1>3, <1>4, <1>5

Bill == [p \in Prompts |-> Cost(p)]

LEMMA SpentIsTally == BudgetTypeOK => Spent = Cardinality(Tally(Bill, inWindow))
<1>. SUFFICES ASSUME BudgetTypeOK
              PROVE  Spent = Cardinality(Tally(Bill, inWindow))
  OBVIOUS
<1>1. \A p \in inWindow : p \in Prompts /\ Bill[p] = Cost(p)
  BY DEF BudgetTypeOK, Bill
<1>. QED  BY <1>1 DEF Spent, Tally

\* What the guard has counted, and the two amounts, cover what was spent.
Covered == Spent <= tokensUsed + lateSurplus + cutOverage

LEMMA NextCovered ==
    BudgetTypeOK /\ Covered /\ [BudgetNext]_budgetVars => Covered'
<1>. SUFFICES ASSUME BudgetTypeOK, Covered, [BudgetNext]_budgetVars PROVE Covered'
  OBVIOUS
<1>. DEFINE c == Bill
            d == Bill'
            W == inWindow
            S == Cardinality(Tally(c, W))
<1>0. BudgetTypeOK' /\ Tokens \subseteq Nat /\ MaxPerPeriod \in Nat /\ 0 \in Nat
  BY NextBudget, BudgetAssumption
<1>1. /\ \A p \in Prompts : c[p] = Cost(p) /\ d[p] = Cost(p)'
      /\ \A p \in Prompts : c[p] \in Nat /\ d[p] \in Nat
  <2>1. \A p \in Prompts : c[p] = Cost(p) /\ d[p] = Cost(p)'
    BY DEF Bill
  <2>2. Tokens \cup {0} \subseteq Nat
    BY <1>0
  <2>3. \A p \in Prompts : /\ estimate[p] \in Nat /\ actual[p] \in Nat
                           /\ estimate'[p] \in Nat /\ actual'[p] \in Nat
    BY <1>0, <2>2 DEF BudgetTypeOK
  <2>. QED  BY <2>1, <2>3 DEF Cost
<1>2. /\ W \subseteq Prompts /\ IsFiniteSet(W)
      /\ \A p \in W : prompt[p] \in {"reserved", "released"}
  BY BudgetAssumption, FS_Subset DEF BudgetTypeOK
<1>3. /\ Spent = S /\ Spent' = Cardinality(Tally(d, inWindow'))
      /\ S \in Nat
  <2>1. Spent = S
    BY SpentIsTally
  <2>2. Spent' = Cardinality(Tally(d, inWindow'))
    <3>1. \A p \in inWindow' : p \in Prompts /\ d[p] = Cost(p)'
      BY <1>0, <1>1 DEF BudgetTypeOK
    <3>. HIDE DEF d
    <3>. QED  BY <3>1 DEF Spent, Tally
  <2>3. S \in Nat
    BY <1>1, <1>2, TallyFinite, FS_CardinalityType
  <2>. QED  BY <1>0, <2>1, <2>2, <2>3
<1>4. /\ tokensUsed \in Nat /\ lateSurplus \in Nat /\ cutOverage \in Nat
      /\ tokensUsed' \in Nat /\ lateSurplus' \in Nat /\ cutOverage' \in Nat
      /\ S <= tokensUsed + lateSurplus + cutOverage
  BY <1>0, <1>3 DEF BudgetTypeOK, Covered
<1>5. Cardinality(Tally(d, {})) = 0
  BY FS_EmptySet DEF Tally
<1>. HIDE DEF c, d
\* A step after which the requests of the window cost what they did before.
<1>6. ASSUME \A p \in W : d[p] = c[p], inWindow' = W
      PROVE  Spent' = S
  <2>1. Tally(c, W) = Tally(d, W)
    BY <1>6, TallySame
  <2>. QED  BY <1>3, <1>6, <2>1
<1>7. ASSUME NEW p \in Prompts, NEW n \in Tokens, RejectLarge(p, n) PROVE Covered'
  <2>1. /\ prompt[p] = "new" /\ prompt' = [prompt EXCEPT ![p] = "rejected"]
        /\ UNCHANGED <<estimate, actual, tokensUsed, lateSurplus, cutOverage>> /\ inWindow' = W
    BY <1>7 DEF RejectLarge, budgetHistory, windowHistory
  <2>2. \A q \in W : d[q] = c[q]
    BY <1>1, <1>2, <2>1 DEF Cost
  <2>3. Spent' = S
    BY <1>6, <2>1, <2>2
  <2>. QED  BY <1>4, <2>1, <2>3 DEF Covered
<1>8. ASSUME NEW p \in Prompts, NEW n \in Tokens, RejectPeriod(p, n) PROVE Covered'
  <2>1. /\ prompt[p] = "new" /\ prompt' = [prompt EXCEPT ![p] = "rejected"]
        /\ UNCHANGED <<estimate, actual>> /\ RollWindow({}) /\ tokensUsed' = UsedNow
        /\ inWindow' = IF Rolls THEN {} ELSE W
    BY <1>8 DEF RejectPeriod, RollWindow
  <2>2. CASE Rolls
    BY <1>3, <1>4, <1>5, <2>1, <2>2 DEF Covered
  <2>3. CASE ~Rolls
    <3>1. \A q \in W : d[q] = c[q]
      BY <1>1, <1>2, <2>1 DEF Cost
    <3>2. Spent' = S
      BY <1>6, <2>1, <2>3, <3>1
    <3>. QED  BY <1>4, <2>1, <2>3, <3>2 DEF Covered, RollWindow, UsedNow
  <2>. QED  BY <2>2, <2>3
<1>9. ASSUME NEW p \in Prompts, NEW n \in Tokens, Reserve(p, n) PROVE Covered'
  <2>1. /\ prompt[p] = "new" /\ prompt' = [prompt EXCEPT ![p] = "reserved"]
        /\ estimate' = [estimate EXCEPT ![p] = n] /\ actual' = actual
    BY <1>9 DEF Reserve
  <2>2. p \notin W /\ d[p] = n /\ n \in Nat /\ \A q \in W : d[q] = c[q]
    BY <1>0, <1>1, <1>2, <2>1 DEF Cost, BudgetTypeOK
  <2>3. CASE ~PeriodCapped
    <3>1. UNCHANGED <<tokensUsed, lateSurplus, cutOverage>> /\ inWindow' = W
      BY <1>9, <2>3 DEF Reserve, windowHistory
    <3>2. Spent' = S
      BY <1>6, <2>2, <3>1
    <3>. QED  BY <1>4, <3>1, <3>2 DEF Covered
  <2>4. CASE PeriodCapped /\ Rolls
    <3>0. inWindow' = {} \cup {p} /\ tokensUsed' = n
      BY <1>9, <2>2, <2>4 DEF Reserve, RollWindow, UsedNow
    <3>1. IsFiniteSet({}) /\ p \notin {} /\ \A q \in {} \cup {p} : d[q] \in Nat
      BY <2>2, FS_EmptySet
    <3>2. Cardinality(Tally(d, {} \cup {p})) = Cardinality(Tally(d, {})) + d[p]
      BY <3>1, TallyMore
    <3>3. Spent' = n
      BY <1>3, <1>5, <2>2, <3>0, <3>2
    <3>. QED  BY <1>4, <2>2, <3>0, <3>3 DEF Covered
  <2>5. CASE PeriodCapped /\ ~Rolls
    <3>0. /\ inWindow' = W \cup {p} /\ tokensUsed' = tokensUsed + n
          /\ lateSurplus' = lateSurplus /\ cutOverage' = cutOverage
      BY <1>9, <2>5 DEF Reserve, RollWindow, UsedNow
    <3>1. Tally(c, W) = Tally(d, W)
      BY <2>2, TallySame
    <3>2. Cardinality(Tally(d, W \cup {p})) = Cardinality(Tally(d, W)) + d[p]
      BY <1>1, <1>2, <2>2, TallyMore
    <3>3. Spent' = S + n
      BY <1>3, <2>2, <3>0, <3>1, <3>2
    <3>. HIDE DEF S
    <3>. QED  BY <1>3, <1>4, <2>2, <3>0, <3>3 DEF Covered
  <2>. QED  BY <2>3, <2>4, <2>5
<1>10. ASSUME NEW p \in Prompts, NEW n \in Tokens, ReleaseTokens(p, n) PROVE Covered'
  <2>1. /\ prompt[p] = "reserved" /\ prompt' = [prompt EXCEPT ![p] = "released"]
        /\ actual' = [actual EXCEPT ![p] = n] /\ estimate' = estimate /\ inWindow' = W
        /\ ReleaseSurplus(p, n) \/ ReleaseOverage(p, n)
    BY <1>10 DEF ReleaseTokens
  <2>2. /\ c[p] = estimate[p] /\ d[p] = n /\ n \in Nat /\ estimate[p] \in Nat
        /\ \A q \in W \ {p} : d[q] = c[q]
    BY <1>0, <1>1, <1>2, <2>1 DEF Cost, BudgetTypeOK
  <2>3. p \in W => Spent' = S - estimate[p] + n
    <3>. SUFFICES ASSUME p \in W PROVE Spent' = S - estimate[p] + n
      OBVIOUS
    <3>1. Cardinality(Tally(d, W)) = Cardinality(Tally(c, W)) - c[p] + d[p]
      BY <1>1, <1>2, <2>2, TallyChanged
    <3>. QED  BY <1>3, <2>1, <2>2, <3>1
  <2>4. p \notin W => Spent' = S
    BY <1>6, <2>1, <2>2
  <2>. HIDE DEF S
  <2>5. CASE ReleaseSurplus(p, n)
    BY <1>3, <1>4, <2>2, <2>3, <2>4, <2>5
       DEF ReleaseSurplus, Credited, SaturatingSub, Covered
  <2>6. CASE ReleaseOverage(p, n)
    <3>1. tokensUsed <= MaxPerPeriod /\ n >= estimate[p]
      BY <1>0, <2>6 DEF BudgetTypeOK, ReleaseOverage
    <3>2. CASE p \in W
      <4>1. tokensUsed' + cutOverage' = tokensUsed + cutOverage + (n - estimate[p])
        BY <1>0, <1>4, <2>2, <2>6, <3>2
           DEF ReleaseOverage, Charged, Limited, Smaller, SaturatingSub
      <4>. QED  BY <1>3, <1>4, <2>2, <2>3, <2>6, <3>2, <4>1 DEF ReleaseOverage, Covered
    <3>3. CASE p \notin W
      <4>1. tokensUsed' >= tokensUsed /\ cutOverage' = cutOverage
        BY <1>0, <1>4, <2>2, <2>6, <3>1, <3>3 DEF ReleaseOverage, Charged, Limited, Smaller
      <4>. QED  BY <1>3, <1>4, <2>4, <2>6, <3>3, <4>1 DEF ReleaseOverage, Covered
    <3>. QED  BY <3>2, <3>3
  <2>. QED  BY <2>1, <2>5, <2>6
<1>11. CASE BudgetTick \/ UNCHANGED budgetVars
  <2>1. UNCHANGED <<prompt, estimate, actual, tokensUsed, lateSurplus, cutOverage, inWindow>>
    BY <1>11 DEF BudgetTick, budgetVars, budgetHistory, windowHistory
  <2>2. Spent' = S
    BY <1>1, <1>2, <1>6, <2>1 DEF Cost
  <2>. QED  BY <1>4, <2>1, <2>2 DEF Covered
<1>. QED  BY <1>7, <1>8, <1>9, <1>10, <1>11 DEF BudgetNext

\* The requests of one window cost no more than the limit, but for the surplus
\* of earlier windows released in it and its own overage above the limit, for
\* any number of requests, any token counts and any limits (check, release).
THEOREM WindowLimited == BudgetSpec => []WindowBounded
<1>1. BudgetInit => Covered
  <2>. SUFFICES ASSUME BudgetInit PROVE Covered
    OBVIOUS
  <2>1. UNION {{p} \X (1..Cost(p)) : p \in {}} = {}
    OBVIOUS
  <2>2. Spent = 0
    BY <2>1, FS_EmptySet DEF BudgetInit, Spent
  <2>. QED  BY <2>2 DEF BudgetInit, Covered
<1>2. ASSUME BudgetTypeOK, Covered PROVE WindowBounded
  <2>1. Cardinality(Tally(Bill, inWindow)) \in Nat
    <3>1. IsFiniteSet(inWindow) /\ inWindow \subseteq Prompts
      <4>1. inWindow \in SUBSET Prompts
        BY <1>2 DEF BudgetTypeOK
      <4>. QED  BY <4>1, BudgetAssumption, FS_Subset
    <3>2. Tokens \cup {0} \subseteq Nat
      BY BudgetAssumption
    <3>3. \A p \in inWindow : Bill[p] \in Nat
      BY <1>2, <3>2 DEF BudgetTypeOK, Bill, Cost
    <3>. QED  BY <3>1, <3>3, TallyFinite, FS_CardinalityType
  <2>2. Spent \in Nat
    BY <1>2, <2>1, SpentIsTally
  <2>. QED
    BY <1>2, <2>2, BudgetAssumption DEF BudgetTypeOK, Covered, WindowBounded
<1>. QED  BY <1>1, <1>2, NextCovered, BudgetTypeCorrect, PTL DEF BudgetSpec

-----------------------------------------------------------------------------
\* The clocks of the replay.

Timers ==
    /\ pushed <= NumEntries /\ open \in BOOLEAN
    /\ attempts \in [Entries -> 0..MaxExponent]
    /\ due \in [Entries -> 0..MaxBackoff]
    /\ nap \in [Replayers -> 0..MaxBackoff]
    /\ since \in [Entries -> 0..MaxSince]

\* The backends do not know powers; a power of two counts subsets.
LEMMA PowersOfTwo == \A n \in Nat : 2^n \in Nat
<1>. SUFFICES ASSUME NEW n \in Nat PROVE 2^n \in Nat
  OBVIOUS
<1>1. IsFiniteSet(1..n) /\ Cardinality(1..n) = n
  BY FS_Interval
<1>2. IsFiniteSet(SUBSET (1..n)) /\ Cardinality(SUBSET (1..n)) = 2^n
  BY <1>1, FS_SUBSET
<1>. QED  BY <1>2, FS_CardinalityType

LEMMA BackoffBounds == \A n \in 0..MaxExponent : Backoff(n) \in 0..MaxBackoff
<1>1. MaxExponent \in Nat /\ MaxBackoff \in Nat
  BY ReplayAssumption
<1>2. \A n \in 0..MaxExponent : n \in Nat /\ 2^n \in Nat
  BY <1>1, PowersOfTwo
<1>. QED  BY <1>1, <1>2 DEF Backoff, Least

LEMMA TimersKept == ReplayInv /\ Timers /\ [ReplayNext]_replayVars => Timers'
<1>. SUFFICES ASSUME ReplayInv, Timers, [ReplayNext]_replayVars PROVE Timers'
  OBVIOUS
<1>0. NumEntries \in Nat /\ MaxExponent \in Nat /\ MaxBackoff \in Nat /\ MaxSince \in Nat
  BY ReplayAssumption DEF MaxSince
<1>1. \A n \in 0..MaxExponent : Backoff(n) \in 0..MaxBackoff
  BY BackoffBounds
<1>2. CASE Push
  BY <1>0, <1>2 DEF Push, Timers, ReplayInv, entryVars, callVars
<1>3. ASSUME NEW r \in Replayers, NEW F \in Filters, TakeDue(r, F) PROVE Timers'
  BY <1>3 DEF TakeDue, Timers, entryVars
<1>4. ASSUME NEW r \in Replayers, NEW e \in Entries, PickNext(r, e) PROVE Timers'
  <2>1. Nap(attempts[e]) \in 0..MaxBackoff
    BY <1>0, <1>1 DEF Nap, Timers
  <2>. QED  BY <1>4, <2>1 DEF PickNext, Timers, entryVars
<1>5. ASSUME NEW r \in Replayers, Inject(r) \/ Discard(r) PROVE Timers'
  BY <1>5 DEF Inject, Discard, PutDown, Timers, entryVars
<1>6. ASSUME NEW r \in Replayers, Refuse(r) PROVE Timers'
  <2>. DEFINE e == current[r]
              n == Least(attempts[e] + 1, MaxExponent)
  <2>1. e \in Entries
    BY <1>6 DEF Refuse, PutDown, ReplayInv
  <2>2. n \in 0..MaxExponent
    BY <1>0, <2>1 DEF Least, Timers
  <2>3. Backoff(n) \in 0..MaxBackoff /\ 0 \in 0..MaxSince
    BY <1>0, <1>1, <2>2
  <2>4. /\ attempts' = [attempts EXCEPT ![e] = n]
        /\ due' = [due EXCEPT ![e] = Backoff(n)]
        /\ since' = [since EXCEPT ![e] = 0]
        /\ UNCHANGED <<pushed, nap, open>>
    BY <1>6 DEF Refuse, PutDown
  <2>. HIDE DEF e, n
  <2>. QED  BY <2>1, <2>2, <2>3, <2>4 DEF Timers
<1>7. ASSUME NEW r \in Replayers, DropCall(r) PROVE Timers'
  BY <1>0, <1>7 DEF DropCall, Timers, entryVars
<1>8. ASSUME NEW S \in SUBSET Entries, AgeOut(S) PROVE Timers'
  BY <1>8 DEF AgeOut, Timers, entryVars, callVars
<1>9. CASE CloseChannel
  BY <1>9 DEF CloseChannel, Timers, entryVars, callVars
<1>10. CASE ReplayTick
  <2>1. \A n \in 0..MaxBackoff : OneLess(n) \in 0..MaxBackoff
    BY <1>0 DEF OneLess
  <2>2. \A n \in 0..MaxSince : Least(n + 1, MaxSince) \in 0..MaxSince
    BY <1>0 DEF Least
  <2>. QED  BY <1>10, <2>1, <2>2 DEF ReplayTick, Timers
<1>11. CASE UNCHANGED replayVars
  BY <1>11 DEF replayVars, Timers, entryVars, callVars
<1>. QED
  BY <1>2, <1>3, <1>4, <1>5, <1>6, <1>7, <1>8, <1>9, <1>10, <1>11 DEF ReplayNext, CallStep

LEMMA AlwaysReplay == ReplaySpec => [](ReplayInv /\ Timers)
<1>1. ReplayInit => Timers
  <2>1. NumEntries \in Nat /\ MaxExponent \in Nat /\ MaxBackoff \in Nat /\ MaxSince \in Nat
    BY ReplayAssumption DEF MaxSince
  <2>. QED  BY <2>1 DEF ReplayInit, Timers
<1>2. ReplayInit => ReplayInv
  BY ReplayAssumption DEF ReplayInit, ReplayInv, InOnePlace, Gone
<1>. QED  BY <1>1, <1>2, NextReplay, TimersKept, PTL DEF ReplaySpec

\* Type correctness of the dead-letter replay: attempts, due times and sleeps
\* keep to their bounds.
THEOREM ReplayTypeCorrect == ReplaySpec => []ReplayTypeOK
<1>1. ReplayInv /\ Timers => ReplayTypeOK
  BY ReplayAssumption DEF ReplayInv, Timers, ReplayTypeOK, Gone
<1>. QED  BY <1>1, AlwaysReplay, PTL

\* The pace of one entry: it is not due before its back-off has passed since
\* it was refused, a call that holds it has taken it when it was due, and the
\* call it is current in sleeps another back-off.
PacedEntry(e) ==
    attempts[e] > 0 =>
      /\ since[e] + due[e] >= Backoff(attempts[e])
      /\ \A r \in Replayers :
           /\ e \in taken[r] => since[e] >= Backoff(attempts[e])
           /\ current[r] = e => since[e] + nap[r] >= 2 * Backoff(attempts[e])

Paced == \A e \in Entries : PacedEntry(e)

LEMMA PacedKept == ReplayInv /\ Timers /\ Paced /\ [ReplayNext]_replayVars => Paced'
<1>. SUFFICES ASSUME ReplayInv, Timers, Paced, [ReplayNext]_replayVars, NEW e \in Entries
              PROVE  PacedEntry(e)'
  BY DEF Paced
<1>0. /\ MaxBackoff \in Nat /\ MaxExponent \in Nat /\ MaxSince = 2 * MaxBackoff
      /\ attempts[e] \in 0..MaxExponent /\ attempts[e] \in Nat
      /\ Backoff(attempts[e]) \in 0..MaxBackoff
      /\ due[e] \in Nat /\ since[e] \in Nat /\ since[e] <= MaxSince
      /\ PacedEntry(e)
  BY ReplayAssumption, BackoffBounds DEF MaxSince, Timers, Paced
<1>1. /\ \A r \in Replayers : nap[r] \in Nat
      /\ \A r \in Replayers : current[r] = e => e \in taken[r]
      /\ \A r, q \in Replayers : e \in taken[r] \cap taken[q] => r = q
  BY ReplayAssumption DEF Timers, ReplayInv, InOnePlace
<1>2. CASE Push
  BY <1>0, <1>2 DEF Push, PacedEntry, entryVars, callVars
<1>3. ASSUME NEW r \in Replayers, NEW F \in Filters, TakeDue(r, F) PROVE PacedEntry(e)'
  <2>1. PICK S \in SUBSET waiting : /\ \A x \in S : Eligible(x)
                                  /\ taken' = [taken EXCEPT ![r] = S]
    BY <1>3 DEF TakeDue
  <2>2. \A q \in Replayers : e \in taken'[q] => e \in taken[q] \/ due[e] = 0
    BY <2>1 DEF Eligible, ReplayInv
  <2>. QED  BY <1>0, <1>3, <2>2 DEF TakeDue, PacedEntry, entryVars
<1>4. ASSUME NEW r \in Replayers, NEW x \in Entries, PickNext(r, x) PROVE PacedEntry(e)'
  <2>1. /\ x \in taken[r] /\ current' = [current EXCEPT ![r] = x]
        /\ nap' = [nap EXCEPT ![r] = Nap(attempts[x])]
        /\ UNCHANGED <<attempts, due, since, taken>>
    BY <1>4 DEF PickNext, entryVars
  <2>2. \A q \in Replayers \ {r} : current'[q] = current[q] /\ nap'[q] = nap[q]
    BY <2>1 DEF ReplayInv, Timers
  <2>3. current'[r] = x /\ nap'[r] = Nap(attempts[x])
    BY <2>1 DEF ReplayInv, Timers
  <2>4. x = e /\ attempts[e] > 0 =>
          Nap(attempts[e]) = Backoff(attempts[e]) /\ since[e] >= Backoff(attempts[e])
    BY <1>0, <2>1 DEF Nap, PacedEntry
  <2>. QED  BY <1>0, <2>1, <2>2, <2>3, <2>4 DEF PacedEntry
<1>5. ASSUME NEW r \in Replayers, Inject(r) \/ Discard(r) PROVE PacedEntry(e)'
  <2>1. PutDown(r) /\ UNCHANGED <<attempts, due, since, nap>>
    BY <1>5 DEF Inject, Discard, PutDown, entryVars
  <2>2. \A q \in Replayers : /\ e \in taken'[q] => e \in taken[q]
                             /\ current'[q] = e => current[q] = e
    BY <2>1, PutDownShape, ReplayAssumption
  <2>. QED  BY <1>0, <2>1, <2>2 DEF PacedEntry
<1>6. ASSUME NEW r \in Replayers, Refuse(r) PROVE PacedEntry(e)'
  <2>. DEFINE x == current[r]
              n == Least(attempts[x] + 1, MaxExponent)
  <2>1. /\ PutDown(r) /\ nap' = nap
        /\ attempts' = [attempts EXCEPT ![x] = n]
        /\ due' = [due EXCEPT ![x] = Backoff(n)]
        /\ since' = [since EXCEPT ![x] = 0]
    BY <1>6 DEF Refuse, PutDown
  <2>2. \A q \in Replayers : /\ e \in taken'[q] => e \in taken[q]
                             /\ current'[q] = e => current[q] = e
    BY <2>1, PutDownShape, ReplayAssumption
  <2>3. CASE e = x
    <3>1. \A q \in Replayers : e \notin taken'[q]
      BY <1>1, <2>1, <2>3, PutDownShape
    <3>2. \A q \in Replayers : current'[q] # e
      BY <2>1, <3>1, PutDownShape, ReplayAssumption
    <3>3. n \in 0..MaxExponent
      BY <1>0, <2>3, ReplayAssumption DEF Least
    <3>4. Backoff(n) \in Nat
      BY <1>0, <3>3, BackoffBounds
    <3>5. attempts'[e] = n /\ due'[e] = Backoff(n) /\ since'[e] = 0
      <4>. HIDE DEF n
      <4>. QED  BY <2>1, <2>3 DEF Timers
    <3>. HIDE DEF n
    <3>. QED  BY <3>1, <3>2, <3>4, <3>5 DEF PacedEntry
  <2>4. CASE e # x
    <3>1. attempts'[e] = attempts[e] /\ due'[e] = due[e] /\ since'[e] = since[e]
      <4>. HIDE DEF n, x
      <4>. QED  BY <2>1, <2>4 DEF Timers
    <3>. QED  BY <1>0, <2>1, <2>2, <3>1 DEF PacedEntry
  <2>. QED  BY <2>3, <2>4
<1>7. ASSUME NEW r \in Replayers, DropCall(r) PROVE PacedEntry(e)'
  <2>1. \A q \in Replayers : /\ e \in taken'[q] => e \in taken[q]
                             /\ current'[q] = e => current[q] = e /\ nap'[q] = nap[q]
    BY <1>7, ReplayAssumption DEF DropCall, ReplayInv, Timers
  <2>. QED  BY <1>0, <1>7, <2>1 DEF DropCall, PacedEntry, entryVars
<1>8. ASSUME NEW S \in SUBSET Entries, AgeOut(S) PROVE PacedEntry(e)'
  BY <1>0, <1>8 DEF AgeOut, PacedEntry, entryVars, callVars
<1>9. CASE CloseChannel
  BY <1>0, <1>9 DEF CloseChannel, PacedEntry, entryVars, callVars
<1>10. CASE ReplayTick
  <2>1. /\ due'[e] = OneLess(due[e]) /\ since'[e] = Least(since[e] + 1, MaxSince)
        /\ \A q \in Replayers : nap'[q] = OneLess(nap[q])
        /\ UNCHANGED <<attempts, taken, current>>
    BY <1>10 DEF ReplayTick
  <2>2. /\ since'[e] + due'[e] >= since[e] + due[e] \/ since'[e] = MaxSince
        /\ since'[e] >= since[e] /\ due'[e] \in Nat /\ since'[e] \in Nat
        /\ \A q \in Replayers :
             /\ nap'[q] \in Nat
             /\ since'[e] + nap'[q] >= since[e] + nap[q] \/ since'[e] = MaxSince
    BY <1>0, <1>1, <2>1 DEF OneLess, Least
  <2>. QED  BY <1>0, <1>1, <2>1, <2>2 DEF PacedEntry
<1>11. CASE UNCHANGED replayVars
  BY <1>0, <1>11 DEF replayVars, PacedEntry, entryVars, callVars
<1>. QED
  BY <1>2, <1>3, <1>4, <1>5, <1>6, <1>7, <1>8, <1>9, <1>10, <1>11 DEF ReplayNext, CallStep

\* A full pipeline is not hammered (BackoffRespected), for any number of
\* entries and calls and any cap of the back-off: whichever calls pick an entry
\* up, two back-offs pass between two attempts at it, once in the queue and
\* once in the hands of the call.
THEOREM RetriesPaced == ReplaySpec => BackoffRespected
<1>1. ReplayInit => Paced
  BY DEF ReplayInit, Paced, PacedEntry
<1>2. ASSUME ReplayInv, Timers, Paced, ReplayNext, NEW r \in Replayers,
             current[r] # Free, current'[r] = Free, current[r] \notin abandoned',
             attempts[current[r]] # 0
      PROVE  since[current[r]] >= 2 * Backoff(attempts[current[r]])
  <2>. DEFINE e == current[r]
  <2>1. e \in Entries /\ e \in taken[r] /\ attempts[e] \in 0..MaxExponent
        /\ since[e] \in Nat /\ nap[r] \in Nat /\ attempts[e] > 0
    BY <1>2, ReplayAssumption DEF ReplayInv, Timers, MaxSince
  <2>2. since[e] + nap[r] >= 2 * Backoff(attempts[e])
    BY <1>2, <2>1 DEF Paced, PacedEntry
  <2>3. nap[r] = 0
    <3>1. ASSUME NEW q \in Replayers, CallStep(q) PROVE nap[r] = 0
      <4>1. ASSUME NEW x \in Entries, PickNext(q, x) PROVE FALSE
        <5>1. current' = [current EXCEPT ![q] = x] /\ x # Free
          BY <4>1, ReplayAssumption DEF PickNext
        <5>. QED  BY <1>2, <5>1 DEF ReplayInv
      <4>2. CASE Inject(q) \/ Refuse(q) \/ Discard(q)
        <5>1. PutDown(q)
          BY <4>2 DEF Inject, Refuse, Discard
        <5>2. q = r
          BY <1>2, <5>1, PutDownShape
        <5>. QED  BY <5>1, <5>2 DEF PutDown
      <4>. QED  BY <3>1, <4>1, <4>2 DEF CallStep
    <3>2. ASSUME NEW q \in Replayers, DropCall(q) PROVE FALSE
      <4>1. q = r
        BY <1>2, <3>2 DEF DropCall, ReplayInv
      <4>. QED  BY <1>2, <2>1, <3>2, <4>1 DEF DropCall
    <3>3. ASSUME NEW q \in Replayers, NEW F \in Filters, TakeDue(q, F) PROVE FALSE
      BY <1>2, <3>3 DEF TakeDue
    <3>4. ~Push /\ ~CloseChannel /\ ~ReplayTick /\ \A S \in SUBSET Entries : ~AgeOut(S)
      BY <1>2 DEF Push, CloseChannel, ReplayTick, AgeOut, callVars
    <3>. QED  BY <1>2, <3>1, <3>2, <3>3, <3>4 DEF ReplayNext
  <2>4. Backoff(attempts[e]) \in 0..MaxBackoff /\ MaxBackoff \in Nat
    BY <2>1, BackoffBounds, ReplayAssumption
  <2>. QED  BY <2>1, <2>2, <2>3, <2>4
<1>3. ReplayInv /\ Timers /\ Paced /\ [ReplayNext]_replayVars =>
        [\A r \in Replayers :
           LET e == current[r]
           IN e # Free /\ current'[r] = Free /\ e \notin abandoned' =>
                attempts[e] = 0 \/ since[e] >= 2 * Backoff(attempts[e])]_replayVars
  BY <1>2
<1>. QED  BY <1>1, <1>3, PacedKept, AlwaysReplay, PTL DEF ReplaySpec, BackoffRespected

===============================================================================
