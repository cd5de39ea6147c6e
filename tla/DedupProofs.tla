---------------------------- MODULE DedupProofs ----------------------------
(***************************************************************************)
(* Safety of Dedup for any number of tasks and registrations: single       *)
(* flight when tokens are not cloned, and, cloned or not, that late calls  *)
(* on a token harm nobody else.                                            *)
(***************************************************************************)
EXTENDS Dedup, FiniteSetTheorems, TLAPS

\* The three kinds of entry are told apart, and so are their owners.
LEMMA EntryKinds ==
    /\ \A r, s : InProgress(r) = InProgress(s) => r = s
    /\ \A r, s : InProgress(r) # Completed(s)
    /\ \A r : InProgress(r) # Vacant
    /\ \A r : InProgress(r).state = "InProgress" /\ InProgress(r).id = r
    /\ \A e \in Entries : e.state = "InProgress" => e = InProgress(e.id)
    /\ \A e \in Entries : e # Vacant => e.id \in Regs
    /\ \A r \in Regs : InProgress(r) \in Entries /\ Completed(r) \in Entries
    /\ Vacant \in Entries
<1>1. \A r, s : InProgress(r) = InProgress(s) => r = s
  <2>. TAKE r, s
  <2>. QED  BY DEF InProgress
<1>2. \A r, s : InProgress(r) # Completed(s)
  <2>. TAKE r, s
  <2>. QED  BY DEF InProgress, Completed
<1>3. \A r : InProgress(r) # Vacant
  <2>. TAKE r
  <2>. QED  BY DEF InProgress, Vacant
<1>4. \A r : InProgress(r).state = "InProgress" /\ InProgress(r).id = r
  BY DEF InProgress
<1>5. \A e \in Entries :
         e = Vacant \/ \E r \in Regs : e = InProgress(r) \/ e = Completed(r)
  BY DEF Entries
<1>6. \A e \in Entries : e.state = "InProgress" => e = InProgress(e.id)
  BY <1>5 DEF InProgress, Completed, Vacant
<1>7. \A e \in Entries : e # Vacant => e.id \in Regs
  BY <1>5 DEF InProgress, Completed
<1>8. \A r \in Regs : InProgress(r) \in Entries /\ Completed(r) \in Entries
  BY DEF Entries
<1>9. Vacant \in Entries
  BY DEF Entries
<1>. QED  BY <1>1, <1>2, <1>3, <1>4, <1>6, <1>7, <1>8, <1>9

\* Before complete() stores its flag.
Unresolved == {"working", "dropping", "cancelling", "clearing"}

\* Still going to replace or remove the entry it owns.
Resolving == {"working", "marked", "sent", "dropping", "cancelling", "clearing"}

\* With one holder per token:
\*  - a working client owns the entry unless the cache dropped it;
\*  - the flag is set only once complete() ran;
\*  - an entry in progress has a holder that will still resolve it.
OneHolder ==
    \A p, q \in Clients :
        pc[p] \in TokenPhases /\ pc[q] \in TokenPhases /\ reg[p] = reg[q] => p = q

HasToken == \A p \in Clients : pc[p] \in TokenPhases => reg[p] \in Regs

WorkerOwns ==
    \A p \in Clients :
        pc[p] = "working" /\ reg[p] \notin lost => entry = InProgress(reg[p])

FlagUnset == \A p \in Clients : pc[p] \in Unresolved => ~completed[reg[p]]

OwnerResolves ==
    \A r \in Regs : entry = InProgress(r) =>
        \E p \in Clients : reg[p] = r /\ pc[p] \in Resolving

IInv == TypeOK /\ OneHolder /\ HasToken /\ WorkerOwns /\ FlagUnset /\ OwnerResolves

LEMMA InitIInv == Init => IInv
<1>. SUFFICES ASSUME Init PROVE IInv
  OBVIOUS
<1>1. TypeOK
  BY EntryKinds DEF Init, TypeOK, Phases
<1>2. \A p \in Clients : pc[p] = "idle"
  BY DEF Init
<1>3. OwnerResolves
  BY EntryKinds DEF Init, OwnerResolves
<1>. QED
  BY <1>1, <1>2, <1>3
     DEF IInv, OneHolder, HasToken, WorkerOwns, FlagUnset, Unresolved,
         TokenPhases, InComplete, InDrop

USE DEF TokenPhases, InComplete, InDrop, JoinPhases, Phases, Unresolved, Resolving

\* The types, for every step (tokens cloned or not).
LEMMA NextType == TypeOK /\ HasToken /\ [Next]_vars => TypeOK' /\ HasToken'
<1>. SUFFICES ASSUME TypeOK, HasToken, [Next]_vars PROVE TypeOK' /\ HasToken'
  OBVIOUS
<1>. USE EntryKinds DEF TypeOK, HasToken, Goto
<1>1. ASSUME NEW p \in Clients, NEW r \in Regs, RegisterNew(p, r) PROVE TypeOK' /\ HasToken'
  BY <1>1 DEF RegisterNew
<1>2. ASSUME NEW p \in Clients, RegisterDuplicate(p) PROVE TypeOK' /\ HasToken'
  BY <1>2 DEF RegisterDuplicate
<1>3. ASSUME NEW p \in Clients, NEW q \in Clients, Share(p, q) PROVE TypeOK' /\ HasToken'
  BY <1>3 DEF Share
<1>4. ASSUME NEW p \in Clients, Resolve(p) PROVE TypeOK' /\ HasToken'
  BY <1>4 DEF Resolve, Complete, Fail, Abandon, EntryWithout
<1>5. ASSUME NEW p \in Clients, Step(p) PROVE TypeOK' /\ HasToken'
  <2>1. CASE Lookup(p)
    BY <2>1 DEF Lookup
  <2>2. CASE Subscribe(p) \/ Receive(p)
    BY <2>2 DEF Subscribe, Receive
  <2>3. CASE SendResult(p)
    BY <2>3 DEF SendResult, Delivered
  <2>4. CASE Publish(p)
    BY <2>4 DEF Publish, Published, EntryWithout
  <2>5. CASE CheckDrop(p)
    BY <2>5 DEF CheckDrop
  <2>6. CASE SendCancel(p)
    BY <2>6 DEF SendCancel, Delivered
  <2>7. CASE ClearEntry(p)
    BY <2>7 DEF ClearEntry, EntryWithout
  <2>8. CASE Free(p)
    BY <2>8 DEF Free
  <2>. QED  BY <1>5, <2>1, <2>2, <2>3, <2>4, <2>5, <2>6, <2>7, <2>8 DEF Step
<1>6. ASSUME NEW p \in Clients, Leave(p) PROVE TypeOK' /\ HasToken'
  BY <1>6 DEF Leave
<1>7. CASE Evict
  BY <1>7 DEF Evict
<1>8. CASE UNCHANGED vars
  BY <1>8 DEF vars
<1>. QED  BY <1>1, <1>2, <1>3, <1>4, <1>5, <1>6, <1>7, <1>8 DEF Next

-----------------------------------------------------------------------------
(* Without clones the invariant is inductive.  One lemma per group of       *)
(* actions; each keeps the five conjuncts beside the types.                 *)

Rest == OneHolder /\ WorkerOwns /\ FlagUnset /\ OwnerResolves

\* A registration id is only reused once nothing refers to it.
LEMMA RegisterRest ==
    ASSUME IInv, NEW p \in Clients, NEW r \in Regs, RegisterNew(p, r)
    PROVE  Rest'
<1>1. /\ pc[p] = "idle" /\ entry = Vacant /\ entry' = InProgress(r)
      /\ \A q \in Clients : reg[q] # r
      /\ pc' = [pc EXCEPT ![p] = "working"] /\ reg' = [reg EXCEPT ![p] = r]
      /\ completed' = [completed EXCEPT ![r] = FALSE]
      /\ lost' = lost \ {r}
  BY DEF RegisterNew, InUse, Goto
<1>2. TypeOK /\ OneHolder /\ HasToken /\ WorkerOwns /\ FlagUnset
  BY DEF IInv
<1>3. \A q \in Clients : pc[q] = "working" => reg[q] \in lost
  BY <1>1, <1>2, EntryKinds DEF WorkerOwns
<1>4. OneHolder'
  BY <1>1, <1>2 DEF OneHolder, TypeOK
<1>5. WorkerOwns'
  BY <1>1, <1>2, <1>3 DEF WorkerOwns, TypeOK
<1>6. FlagUnset'
  BY <1>1, <1>2 DEF FlagUnset, TypeOK, HasToken
<1>7. OwnerResolves'
  BY <1>1, <1>2, EntryKinds DEF OwnerResolves, TypeOK
<1>. QED  BY <1>4, <1>5, <1>6, <1>7 DEF Rest

\* Clients without a token change nothing the invariant speaks of.
LEMMA JoinerRest ==
    ASSUME IInv, NEW p \in Clients,
           RegisterDuplicate(p) \/ Lookup(p) \/ Subscribe(p) \/ Receive(p) \/ Leave(p)
    PROVE  Rest'
<1>1. /\ pc[p] \notin TokenPhases
      /\ entry' = entry /\ completed' = completed /\ lost' = lost
      /\ \A q \in Clients \ {p} : pc'[q] = pc[q] /\ reg'[q] = reg[q]
      /\ pc'[p] \notin TokenPhases
  BY DEF IInv, TypeOK, RegisterDuplicate, Lookup, Subscribe, Receive, Leave, Goto
<1>2. Rest
  BY DEF IInv, Rest
<1>. QED  BY <1>1, <1>2 DEF Rest, OneHolder, WorkerOwns, FlagUnset, OwnerResolves

\* A step of a token holder: the entry is its own, or stays as it is.
LEMMA HolderRest ==
    ASSUME IInv, NEW p \in Clients,
           \/ Resolve(p) \/ SendResult(p) \/ Publish(p)
           \/ CheckDrop(p) \/ SendCancel(p) \/ ClearEntry(p) \/ Free(p)
    PROVE  Rest'
<1>. DEFINE r == reg[p]
<1>1. TypeOK /\ OneHolder /\ HasToken /\ WorkerOwns /\ FlagUnset /\ OwnerResolves
  BY DEF IInv
<1>2. /\ pc[p] \in TokenPhases /\ r \in Regs /\ lost' = lost
      /\ \A q \in Clients \ {p} : pc'[q] = pc[q] /\ reg'[q] = reg[q]
      /\ pc'[p] \in TokenPhases => reg'[p] = r
      /\ pc'[p] # "working"
      /\ \A s \in Regs \ {r} : completed'[s] = completed[s]
      /\ entry' \in {entry, Vacant, Completed(r)}
      /\ entry' = entry \/ entry = InProgress(r) \/ entry = Vacant
  BY <1>1, EntryKinds
     DEF TypeOK, HasToken, Resolve, Complete, Fail, Abandon, SendResult, Publish,
         CheckDrop, SendCancel, ClearEntry, Free, Goto, Published, EntryWithout
<1>3. \A q \in Clients \ {p} : pc[q] \in TokenPhases => reg[q] # r /\ reg[q] \in Regs
  BY <1>1, <1>2 DEF OneHolder, HasToken
<1>4. OneHolder'
  BY <1>1, <1>2, <1>3 DEF OneHolder
<1>5. WorkerOwns'
  BY <1>1, <1>2, <1>3, EntryKinds DEF WorkerOwns
<1>6. FlagUnset'
  <2>1. pc'[p] \in Unresolved => ~completed'[reg'[p]]
    <3>1. CASE Complete(p) \/ SendResult(p) \/ Publish(p) \/ Free(p)
      BY <1>1, <3>1 DEF Complete, SendResult, Publish, Free, Goto, TypeOK
    <3>2. CASE Fail(p) \/ Abandon(p) \/ SendCancel(p) \/ ClearEntry(p)
      BY <1>1, <3>2 DEF Fail, Abandon, SendCancel, ClearEntry, Goto, TypeOK, FlagUnset
    <3>3. CASE CheckDrop(p)
      BY <1>1, <3>3 DEF CheckDrop, MustCancel, Goto, TypeOK
    <3>. QED  BY <3>1, <3>2, <3>3 DEF Resolve
  <2>. QED  BY <1>1, <1>2, <1>3, <2>1 DEF FlagUnset
<1>7. OwnerResolves'
  <2>. SUFFICES ASSUME NEW s \in Regs, entry' = InProgress(s)
                PROVE  \E q \in Clients : reg'[q] = s /\ pc'[q] \in Resolving
    BY DEF OwnerResolves
  <2>1. entry = InProgress(s)
    BY <1>2, EntryKinds
  <2>2. PICK q \in Clients : reg[q] = s /\ pc[q] \in Resolving
    BY <1>1, <2>1 DEF OwnerResolves
  <2>3. CASE q # p
    BY <1>2, <2>2, <2>3
  <2>4. CASE q = p
    <3>1. s = r /\ pc[p] \in Resolving /\ entry = InProgress(r) /\ entry' = InProgress(r)
      BY <2>1, <2>2, <2>4
    <3>2. ~Publish(p) /\ ~ClearEntry(p) /\ ~Fail(p) /\ ~Free(p)
      BY <1>1, <1>2, <3>1, EntryKinds
         DEF Publish, Published, ClearEntry, Fail, Free, EntryWithout
    <3>3. CASE CheckDrop(p)
      <4>1. Holders(r) = {p}
        BY <1>2, <1>3 DEF Holders
      <4>2. pc[p] = "dropping" /\ ~completed[r]
        BY <1>1, <3>1, <3>3 DEF CheckDrop, FlagUnset
      <4>3. MustCancel(r)
        BY <4>1, <4>2, FS_Singleton DEF MustCancel
      <4>. QED  BY <1>1, <2>4, <3>1, <3>3, <4>3 DEF CheckDrop, Goto, TypeOK
    <3>4. CASE Complete(p) \/ Abandon(p) \/ SendResult(p) \/ SendCancel(p)
      BY <1>1, <2>4, <3>1, <3>4
         DEF Complete, Abandon, SendResult, SendCancel, Goto, TypeOK
    <3>. QED  BY <3>2, <3>3, <3>4 DEF Resolve
  <2>. QED  BY <2>3, <2>4
<1>. QED  BY <1>4, <1>5, <1>6, <1>7 DEF Rest

\* An entry the cache drops is recorded in `lost`.
LEMMA EvictRest == ASSUME IInv, Evict PROVE Rest'
<1>1. /\ entry' = Vacant /\ pc' = pc /\ reg' = reg /\ completed' = completed
      /\ \A r \in Regs : entry = InProgress(r) => r \in lost'
      /\ lost \subseteq lost'
  BY EntryKinds DEF Evict
<1>2. TypeOK /\ OneHolder /\ HasToken /\ WorkerOwns /\ FlagUnset
  BY DEF IInv
<1>3. OneHolder' /\ FlagUnset'
  BY <1>1, <1>2 DEF OneHolder, FlagUnset
<1>4. WorkerOwns'
  BY <1>1, <1>2 DEF WorkerOwns, HasToken
<1>5. OwnerResolves'
  BY <1>1, EntryKinds DEF OwnerResolves
<1>. QED  BY <1>3, <1>4, <1>5 DEF Rest

LEMMA NextIInv == ~AllowClones /\ IInv /\ [Next]_vars => IInv'
<1>. SUFFICES ASSUME ~AllowClones, IInv, [Next]_vars PROVE IInv'
  OBVIOUS
<1>1. TypeOK' /\ HasToken'
  BY NextType DEF IInv
<1>2. Rest'
  <2>1. CASE UNCHANGED vars
    BY <2>1 DEF IInv, Rest, vars, OneHolder, WorkerOwns, FlagUnset, OwnerResolves
  <2>2. CASE Evict
    BY <2>2, EvictRest
  <2>3. ASSUME NEW p \in Clients,
               \/ \E r \in Regs : RegisterNew(p, r)
               \/ RegisterDuplicate(p) \/ Resolve(p) \/ Step(p) \/ Leave(p)
        PROVE  Rest'
    BY <2>3, RegisterRest, JoinerRest, HolderRest DEF Step
  <2>4. \A p, q \in Clients : ~Share(p, q)
    BY DEF Share
  <2>. QED  BY <2>1, <2>2, <2>3, <2>4 DEF Next
<1>. QED  BY <1>1, <1>2 DEF IInv, Rest

LEMMA AlwaysIInv == ~AllowClones /\ Spec => []IInv
<1>1. CASE AllowClones
  BY <1>1
<1>2. CASE ~AllowClones
  BY <1>2, InitIInv, NextIInv, PTL DEF Spec
<1>. QED  BY <1>1, <1>2

\* With unshared tokens, two clients compute the answer to one key only when
\* the cache dropped the registration of one of them.
THEOREM OneWorkerPerKey == ASSUME ~AllowClones PROVE Spec => []SingleFlight
<1>1. IInv => SingleFlight
  BY EntryKinds DEF IInv, WorkerOwns, SingleFlight
<1>. QED  BY <1>1, AlwaysIInv, PTL

\* With unshared tokens, an in-progress entry always has a holder that will
\* still replace or remove it.
THEOREM NoEntryOrphaned == ASSUME ~AllowClones PROVE Spec => []NoOrphan
<1>1. IInv => NoOrphan
  BY DEF IInv, OwnerResolves, NoOrphan, Holders
<1>. QED  BY <1>1, AlwaysIInv, PTL

\* Type correctness of the deduplicator, with or without shared tokens.
THEOREM DedupTypeCorrect == Spec => []TypeOK
<1>1. Init => TypeOK /\ HasToken
  BY InitIInv DEF IInv
<1>. QED  BY <1>1, NextType, PTL DEF Spec

-----------------------------------------------------------------------------
(* With clones.  A cancellation is decided by the last holder of a token    *)
(* that nobody completed, and it is final: nobody is left who could clone   *)
(* the token or complete it, and the registration id is not given out again *)
(* while a waiter still holds the message.                                  *)

SoleCanceller ==
    \A p, q \in Clients :
        pc[p] \in {"cancelling", "clearing"} /\ pc[q] \in TokenPhases /\ reg[q] = reg[p]
            => q = p

CancelledOpen ==
    \A p \in Clients : pc[p] \in {"cancelling", "clearing"} => ~completed[reg[p]]

Told == \A p \in Clients : pc[p] \notin {"waiting", "served"} => msg[p] = None

JoinedReg == \A p \in Clients : pc[p] \in {"found", "waiting"} => reg[p] \in Regs

CancelFinal ==
    \A p \in Clients : pc[p] = "waiting" /\ msg[p] = Cancelled =>
        /\ ~completed[reg[p]]
        /\ \A q \in Clients : pc[q] \in TokenPhases /\ reg[q] = reg[p]
              => pc[q] \in {"clearing", "freeing"}

Finality == SoleCanceller /\ CancelledOpen /\ Told /\ JoinedReg /\ CancelFinal

CInv == TypeOK /\ HasToken /\ Finality

LEMMA InitCInv == Init => CInv
<1>. SUFFICES ASSUME Init PROVE CInv
  OBVIOUS
<1>1. TypeOK /\ HasToken
  BY InitIInv DEF IInv
<1>2. \A p \in Clients : pc[p] = "idle" /\ msg[p] = None
  BY DEF Init
<1>. QED
  BY <1>1, <1>2
     DEF CInv, Finality, SoleCanceller, CancelledOpen, Told, JoinedReg, CancelFinal

\* A new registration: nothing refers to its id, so nothing is said of it.
LEMMA RegisterFinality ==
    ASSUME CInv, NEW p \in Clients, NEW r \in Regs, RegisterNew(p, r)
    PROVE  Finality'
<1>1. /\ pc[p] = "idle" /\ \A q \in Clients : reg[q] # r
      /\ pc' = [pc EXCEPT ![p] = "working"] /\ reg' = [reg EXCEPT ![p] = r]
      /\ completed' = [completed EXCEPT ![r] = FALSE] /\ msg' = msg
  BY DEF RegisterNew, InUse, Goto
<1>2. TypeOK /\ HasToken /\ SoleCanceller /\ CancelledOpen /\ Told /\ JoinedReg /\ CancelFinal
  BY DEF CInv, Finality
<1>3. \A q \in Clients \ {p} : pc'[q] = pc[q] /\ reg'[q] = reg[q] /\ msg'[q] = msg[q]
  BY <1>1, <1>2 DEF TypeOK
<1>4. pc'[p] = "working" /\ reg'[p] = r /\ msg'[p] = None
  BY <1>1, <1>2 DEF TypeOK, Told
<1>5. \A s \in Regs \ {r} : completed'[s] = completed[s]
  BY <1>1, <1>2 DEF TypeOK
<1>6. SoleCanceller' /\ CancelledOpen'
  BY <1>1, <1>2, <1>3, <1>4, <1>5 DEF SoleCanceller, CancelledOpen, HasToken
<1>7. Told' /\ JoinedReg'
  BY <1>2, <1>3, <1>4 DEF Told, JoinedReg
<1>8. CancelFinal'
  BY <1>1, <1>2, <1>3, <1>4, <1>5 DEF CancelFinal, JoinedReg
<1>. QED  BY <1>6, <1>7, <1>8 DEF Finality

\* Clients without a token: a client that joins has no message yet.
LEMMA JoinerFinality ==
    ASSUME CInv, NEW p \in Clients,
           RegisterDuplicate(p) \/ Lookup(p) \/ Subscribe(p) \/ Receive(p) \/ Leave(p)
    PROVE  Finality'
<1>1. TypeOK /\ SoleCanceller /\ CancelledOpen /\ Told /\ JoinedReg /\ CancelFinal
  BY DEF CInv, Finality
<1>2. /\ pc[p] \notin TokenPhases /\ pc'[p] \notin TokenPhases
      /\ completed' = completed
      /\ \A q \in Clients \ {p} : pc'[q] = pc[q] /\ reg'[q] = reg[q] /\ msg'[q] = msg[q]
  BY <1>1 DEF TypeOK, RegisterDuplicate, Lookup, Subscribe, Receive, Leave, Goto
<1>3. /\ pc'[p] \notin {"waiting", "served"} => msg'[p] = None
      /\ pc'[p] \in {"found", "waiting"} => reg'[p] \in Regs
      /\ pc'[p] = "waiting" => msg'[p] = None
  BY <1>1, EntryKinds
     DEF TypeOK, Told, JoinedReg, RegisterDuplicate, Lookup, Subscribe, Receive, Leave, Goto
<1>4. None # Cancelled
  BY DedupAssumption
<1>5. SoleCanceller' /\ CancelledOpen'
  BY <1>1, <1>2 DEF SoleCanceller, CancelledOpen
<1>6. Told' /\ JoinedReg'
  BY <1>1, <1>2, <1>3 DEF Told, JoinedReg
<1>7. CancelFinal'
  BY <1>1, <1>2, <1>3, <1>4 DEF CancelFinal
<1>. QED  BY <1>5, <1>6, <1>7 DEF Finality

\* Only a holder that could still complete the token can clone it.
LEMMA ShareFinality ==
    ASSUME CInv, NEW p \in Clients, NEW q \in Clients, Share(p, q)
    PROVE  Finality'
<1>1. TypeOK /\ SoleCanceller /\ CancelledOpen /\ Told /\ JoinedReg /\ CancelFinal
  BY DEF CInv, Finality
<1>2. /\ pc[p] = "working" /\ pc[q] = "idle" /\ completed' = completed /\ msg' = msg
      /\ pc'[q] = "working" /\ reg'[q] = reg[p] /\ p # q
      /\ \A u \in Clients \ {q} : pc'[u] = pc[u] /\ reg'[u] = reg[u]
  BY <1>1 DEF Share, Goto, TypeOK
<1>3. SoleCanceller' /\ CancelledOpen'
  BY <1>1, <1>2 DEF SoleCanceller, CancelledOpen
<1>4. Told' /\ JoinedReg'
  BY <1>1, <1>2 DEF Told, JoinedReg
<1>5. CancelFinal'
  BY <1>1, <1>2 DEF CancelFinal
<1>. QED  BY <1>3, <1>4, <1>5 DEF Finality

\* complete() runs on a token that is not being cancelled and whose waiters
\* were not told that it was.
LEMMA CompleteFinality ==
    ASSUME CInv, NEW p \in Clients, Complete(p)
    PROVE  Finality'
<1>. DEFINE r == reg[p]
<1>1. TypeOK /\ HasToken /\ SoleCanceller /\ CancelledOpen /\ Told /\ JoinedReg /\ CancelFinal
  BY DEF CInv, Finality
<1>2. /\ pc[p] = "working" /\ r \in Regs /\ reg' = reg /\ msg' = msg /\ pc'[p] = "marked"
      /\ \A q \in Clients \ {p} : pc'[q] = pc[q]
      /\ \A s \in Regs \ {r} : completed'[s] = completed[s]
  BY <1>1 DEF Complete, Goto, TypeOK, HasToken
<1>3. SoleCanceller' /\ CancelledOpen'
  BY <1>1, <1>2 DEF SoleCanceller, CancelledOpen, HasToken
<1>4. Told' /\ JoinedReg'
  BY <1>1, <1>2 DEF Told, JoinedReg
<1>5. CancelFinal'
  BY <1>1, <1>2 DEF CancelFinal, JoinedReg
<1>. QED  BY <1>3, <1>4, <1>5 DEF Finality

\* drop() that finds other clones, or a completed token, cancels nothing.
\* The last clone finds itself alone.
LEMMA CheckFinality ==
    ASSUME CInv, NEW p \in Clients, CheckDrop(p)
    PROVE  Finality'
<1>. DEFINE r == reg[p]
<1>1. TypeOK /\ HasToken /\ SoleCanceller /\ CancelledOpen /\ Told /\ JoinedReg /\ CancelFinal
  BY DEF CInv, Finality
<1>2. /\ pc[p] \in {"published", "dropping"} /\ r \in Regs
      /\ reg' = reg /\ msg' = msg /\ completed' = completed
      /\ pc'[p] = IF MustCancel(r) THEN "cancelling" ELSE "freeing"
      /\ \A q \in Clients \ {p} : pc'[q] = pc[q]
  BY <1>1 DEF CheckDrop, Goto, TypeOK, HasToken
<1>3. ASSUME MustCancel(r)
      PROVE  ~completed[r] /\ \A q \in Clients :
                pc[q] \in TokenPhases /\ reg[q] = r => q = p
  <2>1. Cardinality(Holders(r)) = 1 /\ ~completed[r]
    BY <1>3 DEF MustCancel
  <2>2. IsFiniteSet(Holders(r))
    BY FS_Subset, DedupAssumption DEF Holders
  <2>3. p \in Holders(r)
    BY <1>2 DEF Holders
  <2>4. PICK x : Holders(r) = {x}
    BY <2>1, <2>2, FS_Singleton
  <2>. QED  BY <2>1, <2>3, <2>4 DEF Holders
<1>4. SoleCanceller'
  BY <1>1, <1>2, <1>3 DEF SoleCanceller
<1>5. CancelledOpen'
  BY <1>1, <1>2, <1>3 DEF CancelledOpen
<1>6. Told' /\ JoinedReg'
  BY <1>1, <1>2 DEF Told, JoinedReg
<1>7. CancelFinal'
  BY <1>1, <1>2 DEF CancelFinal
<1>. QED  BY <1>4, <1>5, <1>6, <1>7 DEF Finality

\* The two messages: a result is no cancellation, and the cancellation is sent
\* by the sole holder of an open token.
LEMMA SendFinality ==
    ASSUME CInv, NEW p \in Clients, SendResult(p) \/ SendCancel(p)
    PROVE  Finality'
<1>. DEFINE r == reg[p]
            v == IF pc[p] = "marked" THEN r ELSE Cancelled
<1>1. TypeOK /\ HasToken /\ SoleCanceller /\ CancelledOpen /\ Told /\ JoinedReg /\ CancelFinal
  BY DEF CInv, Finality
<1>2. r \in Regs /\ r # Cancelled /\ None # Cancelled
  BY <1>1, DedupAssumption DEF SendResult, SendCancel, HasToken
<1>3. /\ \/ pc[p] = "marked" /\ pc'[p] = "sent"
         \/ pc[p] = "cancelling" /\ pc'[p] = "clearing"
      /\ reg' = reg /\ completed' = completed
      /\ \A q \in Clients \ {p} : pc'[q] = pc[q]
      /\ msg' = Delivered(r, v)
  BY <1>1 DEF SendResult, SendCancel, Goto, TypeOK
<1>4. \A q \in Clients : msg'[q] = msg[q] \/ (pc[q] = "waiting" /\ reg[q] = r /\ msg'[q] = v)
  BY <1>3, Zenon DEF Delivered
<1>. HIDE DEF v
<1>5. SoleCanceller' /\ CancelledOpen'
  BY <1>1, <1>3 DEF SoleCanceller, CancelledOpen
<1>6. Told' /\ JoinedReg'
  BY <1>1, <1>3, <1>4 DEF Told, JoinedReg
<1>7. CancelFinal'
  <2>. SUFFICES ASSUME NEW q \in Clients, pc'[q] = "waiting", msg'[q] = Cancelled
                PROVE  /\ ~completed'[reg'[q]]
                       /\ \A u \in Clients : pc'[u] \in TokenPhases /\ reg'[u] = reg'[q]
                             => pc'[u] \in {"clearing", "freeing"}
    BY DEF CancelFinal
  <2>1. q # p /\ pc[q] = "waiting"
    BY <1>3
  <2>2. CASE msg[q] = Cancelled
    BY <1>1, <1>3, <2>1, <2>2 DEF CancelFinal
  <2>3. CASE msg[q] # Cancelled
    <3>1. reg[q] = r /\ v = Cancelled
      BY <1>4, <2>3
    <3>2. pc[p] = "cancelling" /\ pc'[p] = "clearing"
      BY <1>2, <1>3, <3>1 DEF v
    <3>3. ~completed[r] /\ \A u \in Clients \ {p} : ~(pc[u] \in TokenPhases /\ reg[u] = r)
      BY <1>1, <3>2 DEF SoleCanceller, CancelledOpen
    <3>. QED  BY <1>3, <3>1, <3>2, <3>3
  <2>. QED  BY <2>2, <2>3
<1>. QED  BY <1>5, <1>6, <1>7 DEF Finality

\* The other steps of a token holder, which send and count nothing.
LEMMA QuietFinality ==
    ASSUME CInv, NEW p \in Clients,
           Fail(p) \/ Abandon(p) \/ Publish(p) \/ ClearEntry(p) \/ Free(p)
    PROVE  Finality'
<1>1. TypeOK /\ SoleCanceller /\ CancelledOpen /\ Told /\ JoinedReg /\ CancelFinal
  BY DEF CInv, Finality
<1>2. /\ completed' = completed /\ msg' = msg /\ pc[p] \in TokenPhases
      /\ \A q \in Clients \ {p} : pc'[q] = pc[q] /\ reg'[q] = reg[q]
      /\ \/ pc[p] \in {"working", "sent"} /\ pc'[p] \in {"dropping", "published"}
            /\ reg'[p] = reg[p]
         \/ pc[p] = "clearing" /\ pc'[p] = "freeing" /\ reg'[p] = reg[p]
         \/ pc[p] = "freeing" /\ pc'[p] = "idle"
  BY <1>1 DEF TypeOK, Fail, Abandon, Publish, ClearEntry, Free, Goto
<1>3. SoleCanceller' /\ CancelledOpen'
  BY <1>1, <1>2 DEF SoleCanceller, CancelledOpen
<1>4. Told' /\ JoinedReg'
  BY <1>1, <1>2 DEF Told, JoinedReg
<1>5. CancelFinal'
  BY <1>1, <1>2 DEF CancelFinal
<1>. QED  BY <1>3, <1>4, <1>5 DEF Finality

LEMMA NextCInv == CInv /\ [Next]_vars => CInv'
<1>. SUFFICES ASSUME CInv, [Next]_vars PROVE CInv'
  OBVIOUS
<1>1. TypeOK' /\ HasToken'
  BY NextType DEF CInv
<1>2. Finality'
  <2>1. CASE UNCHANGED vars \/ Evict
    BY <2>1 DEF CInv, Finality, vars, Evict, SoleCanceller, CancelledOpen, Told,
                JoinedReg, CancelFinal
  <2>2. ASSUME NEW p \in Clients,
               \/ \E r \in Regs : RegisterNew(p, r)
               \/ RegisterDuplicate(p) \/ Resolve(p) \/ Step(p) \/ Leave(p)
               \/ \E q \in Clients : Share(p, q)
        PROVE  Finality'
    BY <2>2, RegisterFinality, JoinerFinality, ShareFinality, CompleteFinality,
       CheckFinality, SendFinality, QuietFinality DEF Step, Resolve
  <2>. QED  BY <2>1, <2>2 DEF Next
<1>. QED  BY <1>1, <1>2 DEF CInv

LEMMA AlwaysCInv == Spec => []CInv
BY InitCInv, NextCInv, PTL DEF Spec

\* Who may change the entry: a step that removes an in-progress entry is a
\* step of a holder of its token, or of the cache; a step on a cached answer
\* only removes it.
LEMMA EntryStep ==
    ASSUME CInv, [Next]_vars, NEW r \in Regs, entry' # entry
    PROVE  /\ entry = InProgress(r) =>
                \/ entry' = Vacant /\ UNCHANGED pc
                \/ \E p \in Holders(r) : pc'[p] # pc[p]
           /\ entry = Completed(r) => entry' = Vacant
<1>1. TypeOK /\ HasToken
  BY DEF CInv
<1>2. Completed(r) # Vacant /\ Completed(r).state = "Completed"
  BY DEF Completed, Vacant
<1>3. CASE Evict
  BY <1>3 DEF Evict
<1>4. ASSUME NEW p \in Clients, NEW s \in Regs, RegisterNew(p, s)
      PROVE  entry # InProgress(r) /\ entry # Completed(r)
  BY <1>2, <1>4, EntryKinds DEF RegisterNew
<1>5. ASSUME NEW p \in Clients, Fail(p) \/ Publish(p) \/ ClearEntry(p)
      PROVE  /\ entry = InProgress(r) => p \in Holders(r) /\ pc'[p] # pc[p]
             /\ entry # Completed(r)
  <2>1. /\ pc[p] \in TokenPhases /\ pc'[p] # pc[p] /\ reg[p] \in Regs
        /\ entry' = EntryWithout(reg[p]) \/ entry' = Published(reg[p])
    BY <1>1, <1>5 DEF TypeOK, HasToken, Fail, Publish, ClearEntry, Goto
  <2>2. entry = InProgress(reg[p]) \/ entry = Vacant
    BY <2>1 DEF EntryWithout, Published
  <2>. QED  BY <1>2, <2>1, <2>2, EntryKinds DEF Holders
<1>6. \/ Evict
      \/ \E p \in Clients : \E s \in Regs : RegisterNew(p, s)
      \/ \E p \in Clients : Fail(p) \/ Publish(p) \/ ClearEntry(p)
  BY DEF Next, Step, Resolve, RegisterDuplicate, Lookup, Subscribe, Receive, Leave,
         Share, Complete, Abandon, SendResult, CheckDrop, SendCancel, Free, vars
<1>. QED  BY <1>3, <1>4, <1>5, <1>6

\* Tokens may be cloned and handed to any number of tasks, and each clone
\* completed, failed or dropped at any time: no waiter of a completed request
\* is told that it was cancelled, no call for an earlier registration removes
\* the entry of a later one, and no second answer replaces a cached one.
THEOREM ClonesHarmNobody == Spec => LateCallsHarmless
<1>1. CInv => NoFalseCancellation
  BY DEF CInv, Finality, CancelFinal, NoFalseCancellation
<1>2. CInv /\ [Next]_vars =>
        [\A r \in Regs : entry = InProgress(r) /\ entry' # entry =>
           \/ entry' = Vacant /\ UNCHANGED pc
           \/ \E p \in Holders(r) : pc'[p] # pc[p]]_vars
  BY EntryStep
<1>3. CInv /\ [Next]_vars =>
        [\A r \in Regs : entry = Completed(r) /\ entry' # entry => entry' = Vacant]_vars
  BY EntryStep
<1>. QED
  BY <1>1, <1>2, <1>3, AlwaysCInv, PTL
     DEF Spec, LateCallsHarmless, OnlyOwnerResolves, CachedAnswerStable

-----------------------------------------------------------------------------
\* A waiter has its message, or finds its channel closed, or somebody who holds
\* a sender of that channel has still a step to take that nothing blocks.
WaitersAttended ==
    \A p \in Clients : pc[p] = "waiting" =>
        \/ msg[p] # None \/ Closed(reg[p])
        \/ \E q \in Clients : reg[q] = reg[p] /\ pc[q] \in TokenPhases \cup {"found"}

\* Nobody waits on a channel that only the cache keeps open, when tokens are
\* not cloned: the safety half of WaitersWoken, for any number of clients.
THEOREM NobodyLeftWaiting == ASSUME ~AllowClones PROVE Spec => []WaitersAttended
<1>1. ASSUME CInv, NoOrphan PROVE WaitersAttended
  <2>. SUFFICES ASSUME NEW p \in Clients, pc[p] = "waiting", ~Closed(reg[p])
                PROVE  \E q \in Clients :
                          reg[q] = reg[p] /\ pc[q] \in TokenPhases \cup {"found"}
    BY DEF WaitersAttended
  <2>1. reg[p] \in Regs
    BY <1>1 DEF CInv, Finality, JoinedReg
  <2>2. CASE Holders(reg[p]) # {}
    BY <2>2 DEF Holders
  <2>3. CASE entry = InProgress(reg[p])
    BY <1>1, <2>1, <2>3 DEF NoOrphan, Holders
  <2>. QED  BY <2>2, <2>3 DEF Closed
<1>. QED  BY <1>1, AlwaysCInv, NoEntryOrphaned, PTL
=============================================================================
