--------------------------- MODULE WorkerPoolProofs ---------------------------
(***************************************************************************)
(* What holds of WorkerPool for every number of workers, submitters and    *)
(* items, every configuration and every width of the counters that is      *)
(* larger than the number of workers.                                      *)
(***************************************************************************)
EXTENDS WorkerPool, FiniteSetTheorems, TLAPS

-----------------------------------------------------------------------------
(* Counting modulo UsizeRange.                                             *)

\* The wrapping increment and decrement stay within the width.
LEMMA UsizeType ==
    /\ UsizeRange \in Nat \ {0}
    /\ Cardinality(Workers) \in Nat /\ Cardinality(Workers) < UsizeRange
    /\ Usize \subseteq Nat
    /\ 0 \in Usize /\ MinWorkers \in Usize
    /\ \A n \in Usize : Up(n) \in Usize /\ Down(n) \in Usize
<1>1. /\ Cardinality(Workers) \in Nat
      /\ UsizeRange \in Nat /\ UsizeRange > Cardinality(Workers)
      /\ MinWorkers \in Nat /\ MinWorkers <= Cardinality(Workers)
  BY PoolAssumption, FS_CardinalityType
<1>2. UsizeRange \in Nat \ {0}
  BY <1>1
<1>3. ASSUME NEW R \in Nat \ {0}, NEW n \in Nat PROVE n % R \in 0..(R - 1)
  OBVIOUS
<1>4. ASSUME NEW n \in Usize PROVE Up(n) \in Usize /\ Down(n) \in Usize
  <2>1. n + 1 \in Nat /\ n + UsizeRange - 1 \in Nat
    BY <1>2 DEF Usize
  <2>. QED  BY <1>2, <1>3, <2>1 DEF Up, Down, Usize
<1>. QED  BY <1>1, <1>2, <1>4 DEF Usize

\* Adding the modulus changes no remainder.
LEMMA AddModulus ==
    ASSUME NEW R \in Nat \ {0}, NEW x \in Nat
    PROVE  (x + R) % R = x % R
<1>. DEFINE m == x % R
            q == x \div R
<1>1. x = q * R + m /\ m \in 0..(R - 1) /\ q \in Nat
  OBVIOUS
<1>2. ASSUME NEW a \in Nat, NEW k \in Nat, NEW n \in 0..(R - 1), a = k * R + n
      PROVE  a % R = n
  BY <1>2
<1>. HIDE DEF m, q
<1>3. x + R \in Nat /\ x + R = (q + 1) * R + m
  BY <1>1
<1>4. (x + R) % R = m
  BY <1>1, <1>2, <1>3
<1>. QED  BY <1>4 DEF m

\* Incrementing and decrementing a remainder.
LEMMA Remainders ==
    ASSUME NEW R \in Nat \ {0}, NEW x \in Nat
    PROVE  /\ ((x % R) + 1) % R = (x + 1) % R
           /\ ((x % R) + R - 1) % R = (x + R - 1) % R
           /\ x > 0 => (x + R - 1) % R = (x - 1) % R
           /\ x < R => x % R = x
           /\ (x + R) % R = x % R
<1>. DEFINE m == x % R
            q == x \div R
<1>1. x = q * R + m /\ m \in 0..(R - 1) /\ q \in Nat
  OBVIOUS
<1>2. ASSUME NEW a \in Nat, NEW k \in Nat, NEW n \in 0..(R - 1), a = k * R + n
      PROVE  a % R = n
  BY <1>2
<1>. HIDE DEF m, q
<1>3. m = x % R
  BY DEF m
<1>5. (m + 1) % R = (x + 1) % R
  <2>1. CASE m = R - 1
    <3>1. x + 1 \in Nat /\ x + 1 = (q + 1) * R + 0
      BY <1>1, <2>1
    <3>2. m + 1 \in Nat /\ m + 1 = 1 * R + 0
      BY <1>1, <2>1
    <3>. QED  BY <1>1, <1>2, <3>1, <3>2
  <2>2. CASE m # R - 1
    <3>1. m + 1 \in 0..(R - 1) /\ x + 1 \in Nat /\ x + 1 = q * R + (m + 1)
      BY <1>1, <2>2
    <3>2. m + 1 = 0 * R + (m + 1)
      BY <1>1
    <3>. QED  BY <1>1, <1>2, <3>1, <3>2
  <2>. QED  BY <2>1, <2>2
<1>6. (m + R - 1) % R = (x + R - 1) % R
  <2>1. CASE m = 0
    <3>1. R - 1 \in 0..(R - 1) /\ x + R - 1 \in Nat /\ x + R - 1 = q * R + (R - 1)
      BY <1>1, <2>1
    <3>2. m + R - 1 \in Nat /\ m + R - 1 = 0 * R + (R - 1)
      BY <1>1, <2>1
    <3>. QED  BY <1>1, <1>2, <3>1, <3>2
  <2>2. CASE m # 0
    <3>1. m - 1 \in 0..(R - 1) /\ x + R - 1 \in Nat /\ x + R - 1 = (q + 1) * R + (m - 1)
      BY <1>1, <2>2
    <3>2. m + R - 1 \in Nat /\ m + R - 1 = 1 * R + (m - 1)
      BY <1>1, <2>2
    <3>. QED  BY <1>1, <1>2, <3>1, <3>2
  <2>. QED  BY <2>1, <2>2
<1>7. ASSUME x > 0 PROVE (x + R - 1) % R = (x - 1) % R
  <2>1. x - 1 \in Nat /\ (x - 1) + R = x + R - 1
    BY <1>7
  <2>. QED  BY <2>1, AddModulus
<1>8. x < R => x % R = x
  OBVIOUS
<1>. QED  BY <1>3, <1>5, <1>6, <1>7, <1>8, AddModulus

-----------------------------------------------------------------------------
(* The queue and its items.                                                *)

\* What a send and a receive do to the items of a queue.
LEMMA QueueItems ==
    ASSUME NEW S, NEW q \in Seq(S)
    PROVE  /\ \A e \in S :
                /\ Append(q, e) \in Seq(S) /\ Len(Append(q, e)) = Len(q) + 1
                /\ {Append(q, e)[k] : k \in DOMAIN Append(q, e)}
                     = {q[k] : k \in DOMAIN q} \cup {e}
           /\ q # <<>> =>
                /\ Head(q) \in S
                /\ Tail(q) \in Seq(S) /\ Len(Tail(q)) = Len(q) - 1
                /\ {q[k] : k \in DOMAIN q}
                     = {Tail(q)[k] : k \in DOMAIN Tail(q)} \cup {Head(q)}
<1>1. ASSUME NEW e \in S
      PROVE  {Append(q, e)[k] : k \in DOMAIN Append(q, e)}
               = {q[k] : k \in DOMAIN q} \cup {e}
  <2>. DEFINE a == Append(q, e)
  <2>1. /\ Len(q) \in Nat /\ DOMAIN q = 1..Len(q)
        /\ DOMAIN a = 1..(Len(q) + 1)
        /\ \A k \in 1..Len(q) : a[k] = q[k]
        /\ a[Len(q) + 1] = e
    OBVIOUS
  <2>. HIDE DEF a
  <2>2. DOMAIN a = DOMAIN q \cup {Len(q) + 1}
    BY <2>1
  <2>. QED  BY <2>1, <2>2
<1>2. ASSUME q # <<>>
      PROVE  {q[k] : k \in DOMAIN q}
               = {Tail(q)[k] : k \in DOMAIN Tail(q)} \cup {Head(q)}
  <2>. DEFINE t == Tail(q)
  <2>1. /\ Len(q) \in Nat /\ Len(q) # 0 /\ DOMAIN q = 1..Len(q)
        /\ DOMAIN t = 1..(Len(q) - 1)
        /\ \A k \in 1..(Len(q) - 1) : t[k] = q[k + 1]
        /\ Head(q) = q[1]
    BY <1>2
  <2>. HIDE DEF t
  <2>2. ASSUME NEW k \in DOMAIN q, k # 1
        PROVE  k - 1 \in DOMAIN t /\ t[k - 1] = q[k]
    BY <2>1, <2>2
  <2>3. ASSUME NEW k \in DOMAIN t PROVE k + 1 \in DOMAIN q /\ t[k] = q[k + 1]
    BY <2>1
  <2>4. 1 \in DOMAIN q
    BY <2>1
  <2>. QED  BY <2>1, <2>2, <2>3, <2>4
<1>3. \A e \in S :
        Append(q, e) \in Seq(S) /\ Len(Append(q, e)) = Len(q) + 1
  OBVIOUS
<1>4. q # <<>> =>
        Head(q) \in S /\ Tail(q) \in Seq(S) /\ Len(Tail(q)) = Len(q) - 1
  OBVIOUS
<1>. QED  BY <1>1, <1>2, <1>3, <1>4, Zenon

-----------------------------------------------------------------------------
(* Type correctness.                                                       *)

\* Callers that have an item to send.
Pending(s) == submitter[s] \in {"sizing", "growing", "sending"}

\* Who is about to hand an item on has one.
HandsFull ==
    /\ \A w \in Workers : worker[w] \in WithItem => hand[w] \in Items
    /\ \A s \in Submitters : Pending(s) => parcel[s] \in Items

TypeInv == PoolTypeOK /\ HandsFull

LEMMA InitType == PoolInit => TypeInv
<1>. SUFFICES ASSUME PoolInit PROVE TypeInv
  OBVIOUS
<1>1. PICK S \in SUBSET Workers :
         worker = [w \in Workers |-> IF w \in S THEN "top" ELSE "gone"]
  BY DEF PoolInit
<1>2. worker \in [Workers -> WorkerPhases]
  BY <1>1 DEF WorkerPhases
<1>3. <<>> \in Seq(Items) /\ Len(<<>>) = 0 /\ QueueCap \in Nat
  BY PoolAssumption
<1>4. /\ hand \in [Workers -> Items \cup {NoItem}]
      /\ submitter \in [Submitters -> SubmitterPhases]
      /\ parcel \in [Submitters -> Items \cup {NoItem}]
      /\ seen \in [Submitters -> Usize]
  BY UsizeType DEF PoolInit, SubmitterPhases
<1>5. queue \in Seq(Items) /\ Len(queue) <= QueueCap
  BY <1>3 DEF PoolInit
<1>6. /\ count \in Usize /\ active \in Usize /\ departed \in Usize
      /\ drainer \in DrainPhases
      /\ shutdown \in BOOLEAN /\ shrinking \in BOOLEAN
      /\ answered \subseteq Items /\ panicked \subseteq Items /\ owed \subseteq Items
  BY UsizeType DEF PoolInit, DrainPhases
<1>7. PoolTypeOK
  BY <1>2, <1>4, <1>5, <1>6 DEF PoolTypeOK
<1>8. HandsFull
  BY <1>1 DEF PoolInit, HandsFull, Pending, WithItem
<1>. QED  BY <1>7, <1>8 DEF TypeInv

LEMMA NextType == TypeInv /\ [PoolNext]_poolVars => TypeInv'
<1>. SUFFICES ASSUME TypeInv, [PoolNext]_poolVars PROVE TypeInv'
  OBVIOUS
<1>. USE DEF TypeInv, PoolTypeOK, HandsFull, Pending, WithItem,
             workerVars, submitterVars, poolHistory
<1>1. ASSUME NEW s \in Submitters, NEW i \in Items, Submit(s, i) PROVE TypeInv'
  BY <1>1, UsizeType DEF Submit, SubmitterGoes, SubmitterPhases
<1>2. ASSUME NEW s \in Submitters, SizeUp(s) PROVE TypeInv'
  BY <1>2 DEF SizeUp, SubmitterGoes, SubmitterPhases
<1>3. ASSUME NEW s \in Submitters, ScaleUp(s) PROVE TypeInv'
  BY <1>3 DEF ScaleUp, SubmitterGoes, SubmitterPhases
<1>4. ASSUME NEW s \in Submitters, Enqueue(s) PROVE TypeInv'
  <2>1. /\ queue' = Append(queue, parcel[s]) /\ Len(queue) < QueueCap
        /\ submitter[s] = "sending" /\ parcel[s] \in Items
    BY <1>4 DEF Enqueue, QueueHasRoom
  <2>2. queue' \in Seq(Items) /\ Len(queue') = Len(queue) + 1
    BY <2>1, QueueItems
  <2>3. Len(queue') <= QueueCap
    BY <2>1, <2>2, PoolAssumption
  <2>. QED  BY <1>4, <2>2, <2>3 DEF Enqueue, SubmitterGoes, SubmitterPhases
<1>5. ASSUME NEW s \in Submitters, NEW w \in Workers, Spawn(s, w) PROVE TypeInv'
  <2>1. count' \in Usize
    BY <1>5, UsizeType DEF Spawn
  <2>. QED
    BY <1>5, <2>1
       DEF Spawn, SubmitterGoes, SubmitterPhases, WorkerGoes, WorkerPhases
<1>6. ASSUME NEW w \in Workers, Top(w) PROVE TypeInv'
  BY <1>6 DEF Top, WorkerGoes, WorkerPhases
<1>7. ASSUME NEW w \in Workers, Wake(w) PROVE TypeInv'
  BY <1>7 DEF Wake, WorkerGoes, WorkerPhases
<1>8. ASSUME NEW w \in Workers, ReadCount(w) PROVE TypeInv'
  BY <1>8 DEF ReadCount, WorkerGoes, WorkerPhases, AtMinimum
<1>9. ASSUME NEW w \in Workers, Subtract(w) PROVE TypeInv'
  <2>1. count' \in Usize
    BY <1>9, UsizeType DEF Subtract
  <2>. QED  BY <1>9, <2>1 DEF Subtract, WorkerGoes, WorkerPhases
<1>10. ASSUME NEW w \in Workers, Restore(w) PROVE TypeInv'
  <2>1. count' \in Usize
    BY <1>10, UsizeType DEF Restore, Restored
  <2>. QED  BY <1>10, <2>1 DEF Restore, WorkerGoes, WorkerPhases
<1>11. ASSUME NEW w \in Workers, End(w) PROVE TypeInv'
  <2>1. count' \in Usize /\ departed' \in Usize
    BY <1>11, UsizeType DEF End
  <2>. QED  BY <1>11, <2>1 DEF End, WorkerGoes, WorkerPhases
<1>12. ASSUME NEW w \in Workers, Start(w) PROVE TypeInv'
  <2>1. active' \in Usize
    BY <1>12, UsizeType DEF Start
  <2>. QED  BY <1>12, <2>1 DEF Start, WorkerGoes, WorkerPhases
<1>13. ASSUME NEW w \in Workers, Return(w) PROVE TypeInv'
  <2>1. active' \in Usize
    BY <1>13, UsizeType DEF Return, Inactive
  <2>. QED  BY <1>13, <2>1 DEF Return, WorkerGoes, WorkerPhases
<1>14. ASSUME NEW w \in Workers, Reply(w) PROVE TypeInv'
  BY <1>14 DEF Reply, WorkerGoes, WorkerPhases
<1>15. ASSUME NEW w \in Workers, Take(w) PROVE TypeInv'
  <2>1. Head(queue) \in Items /\ queue' \in Seq(Items) /\ Len(queue') <= QueueCap
    BY <1>15, QueueItems, PoolAssumption DEF Take
  <2>. QED  BY <1>15, <2>1 DEF Take, WorkerGoes, WorkerPhases
<1>16. ASSUME NEW w \in Workers, Idle(w) PROVE TypeInv'
  BY <1>16 DEF Idle, WorkerGoes, WorkerPhases
<1>17. ASSUME NEW w \in Workers, Panic(w) PROVE TypeInv'
  BY <1>17 DEF Panic, WorkerGoes, WorkerPhases
<1>18. CASE Drain
  <2>1. Queued \subseteq Items
    BY DEF Queued
  <2>2. InHand \subseteq Items
    BY DEF InHand
  <2>. QED  BY <1>18, <2>1, <2>2 DEF Drain, DrainPhases
<1>19. CASE DrainStep
  BY <1>19 DEF DrainStep, DrainQueue, DrainActive, SignalShutdown, Drained, DrainPhases
<1>20. CASE UNCHANGED poolVars
  BY <1>20 DEF poolVars
<1>. QED
  BY <1>1, <1>2, <1>3, <1>4, <1>5, <1>6, <1>7, <1>8, <1>9, <1>10, <1>11,
     <1>12, <1>13, <1>14, <1>15, <1>16, <1>17, <1>18, <1>19, <1>20
     DEF PoolNext, Loop

LEMMA AlwaysTypeInv == PoolSpec => []TypeInv
BY InitType, NextType, PTL DEF PoolSpec

\* Every reachable state of the pool is well-formed: the counters stay within
\* their width even when they wrap, and the queue within its capacity.
THEOREM PoolTypeCorrect == PoolSpec => []PoolTypeOK
<1>1. TypeInv => PoolTypeOK
  BY DEF TypeInv
<1>. QED  BY <1>1, AlwaysTypeInv, PTL

-----------------------------------------------------------------------------
(* The counters.                                                           *)

\* One worker more, one less, and one that is subtracted twice, seen through
\* the counter.
LEMMA CountSteps ==
    ASSUME NEW c \in Nat, NEW d \in Usize
    PROVE  LET n(k, e) == (k + UsizeRange - e) % UsizeRange IN
           /\ Up(n(c, d)) = n(c + 1, d)
           /\ c > 0 => Down(n(c, d)) = n(c - 1, d)
           /\ Down(n(c, d)) = n(c, Up(d))
<1>. DEFINE R == UsizeRange
            x == c + R - d
<1>1. R \in Nat \ {0} /\ d \in 0..(R - 1)
  BY UsizeType DEF Usize
<1>. HIDE DEF R
<1>2. x \in Nat /\ x > 0
  BY <1>1
<1>3. x + 1 = c + 1 + R - d /\ x - 1 = c - 1 + R - d
  BY <1>1
<1>4. Up(x % R) = (c + 1 + R - d) % R
  <2>1. Up(x % R) = (x + 1) % R
    <3>. HIDE DEF x
    <3>. QED  BY <1>1, <1>2, Remainders DEF Up, R
  <2>. QED  BY <1>3, <2>1
<1>5. Down(x % R) = (x - 1) % R
  <2>. HIDE DEF x
  <2>1. ((x % R) + R - 1) % R = (x + R - 1) % R
    BY <1>1, <1>2, Remainders
  <2>2. (x + R - 1) % R = (x - 1) % R
    BY <1>1, <1>2, Remainders
  <2>3. Down(x % R) = ((x % R) + R - 1) % R
    BY DEF Down, R
  <2>. QED  BY <2>1, <2>2, <2>3
<1>6. (x - 1) % R = (c + R - Up(d)) % R
  <2>1. CASE d = R - 1
    <3>1. Up(d) = 0
      <4>1. d + 1 = 0 + R
        BY <1>1, <2>1
      <4>2. (0 + R) % R = 0 % R /\ 0 % R = 0
        BY <1>1, Remainders
      <4>. QED  BY <4>1, <4>2 DEF Up, R
    <3>2. x - 1 = c /\ c + R - 0 = c + R
      BY <1>1, <2>1
    <3>3. (c + R) % R = c % R
      BY <1>1, Remainders
    <3>. QED  BY <3>1, <3>2, <3>3
  <2>2. CASE d # R - 1
    <3>1. d + 1 \in Nat /\ d + 1 < R
      BY <1>1, <2>2
    <3>2. Up(d) = d + 1
      BY <1>1, <3>1, Remainders DEF Up, R
    <3>. QED  BY <1>1, <3>2
  <2>. QED  BY <2>1, <2>2
<1>. QED  BY <1>3, <1>4, <1>5, <1>6 DEF R

Occupied == {w \in Workers : worker[w] \in {"busy", "panicked"}}

\* Sets of workers and their sizes.
LEMMA WorkerSets ==
    ASSUME NEW S \in SUBSET Workers
    PROVE  /\ IsFiniteSet(S)
           /\ Cardinality(S) \in Nat /\ Cardinality(S) < UsizeRange
           /\ \A w \in Workers \ S :
                Cardinality(S \cup {w}) = Cardinality(S) + 1
           /\ \A w \in S :
                Cardinality(S) > 0 /\ Cardinality(S \ {w}) = Cardinality(S) - 1
<1>1. IsFiniteSet(Workers) /\ Cardinality(Workers) \in Nat
  BY PoolAssumption, FS_CardinalityType
<1>2. IsFiniteSet(S) /\ Cardinality(S) <= Cardinality(Workers)
  BY <1>1, FS_Subset
<1>3. Cardinality(S) \in Nat
  BY <1>2, FS_CardinalityType
<1>4. \A w \in Workers \ S : Cardinality(S \cup {w}) = Cardinality(S) + 1
  BY <1>2, FS_AddElement
<1>5. \A w \in S : Cardinality(S \ {w}) = Cardinality(S) - 1
  BY <1>2, FS_RemoveElement
<1>6. \A w \in S : Cardinality(S) > 0
  BY <1>2, <1>3, FS_EmptySet
<1>. QED  BY <1>1, <1>2, <1>3, <1>4, <1>5, <1>6, UsizeType

LEMMA InitCounters == PoolInit => CountersAccount
<1>. SUFFICES ASSUME PoolInit PROVE CountersAccount
  OBVIOUS
<1>1. PICK S \in SUBSET Workers :
         /\ Cardinality(S) = MinWorkers
         /\ worker = [w \in Workers |-> IF w \in S THEN "top" ELSE "gone"]
  BY DEF PoolInit
<1>2. Counted = S /\ Occupied = {}
  BY <1>1 DEF Counted, Occupied
<1>3. active = Cardinality(Occupied)
  BY <1>2, FS_EmptySet DEF PoolInit
<1>4. MinWorkers \in Nat /\ MinWorkers < UsizeRange
  BY <1>1, WorkerSets
<1>5. MinWorkers + UsizeRange - 0 = MinWorkers + UsizeRange
  BY <1>4, UsizeType
<1>6. (MinWorkers + UsizeRange) % UsizeRange = MinWorkers
  BY <1>4, UsizeType, Remainders
<1>7. count = (Cardinality(Counted) + UsizeRange - departed) % UsizeRange
  BY <1>1, <1>2, <1>5, <1>6 DEF PoolInit
<1>. QED  BY <1>3, <1>7 DEF CountersAccount, Occupied

LEMMA NextCounters ==
    TypeInv /\ CountersAccount /\ [PoolNext]_poolVars => CountersAccount'
<1>. SUFFICES ASSUME TypeInv, CountersAccount, [PoolNext]_poolVars
              PROVE  CountersAccount'
  OBVIOUS
<1>. DEFINE c == Cardinality(Counted)
            n(k, e) == (k + UsizeRange - e) % UsizeRange
<1>1. /\ worker \in [Workers -> WorkerPhases]
      /\ departed \in Usize
      /\ count = n(c, departed)
      /\ active = Cardinality(Occupied)
  BY DEF TypeInv, PoolTypeOK, CountersAccount, Occupied
<1>2. Counted \in SUBSET Workers /\ Occupied \in SUBSET Workers /\ c \in Nat
  BY WorkerSets DEF Counted, Occupied
<1>3. ASSUME count' = n(Cardinality(Counted'), departed'),
             active' = Cardinality(Occupied')
      PROVE  CountersAccount'
  BY <1>3 DEF CountersAccount, Occupied
<1>. HIDE DEF n
\* A worker that moves is added to the workers counted, taken from them, or
\* neither; the same for the occupied ones.
<1>4. ASSUME NEW w \in Workers, NEW phase, WorkerGoes(w, phase)
      PROVE  /\ Counted' = IF phase \in {"gone", "restoring", "leaving"}
                           THEN Counted \ {w} ELSE Counted \cup {w}
             /\ Occupied' = IF phase \in {"busy", "panicked"}
                            THEN Occupied \cup {w} ELSE Occupied \ {w}
  BY <1>1, <1>4 DEF WorkerGoes, Counted, Occupied
<1>5. \A w \in Workers :
        /\ worker[w] \notin {"gone", "restoring", "leaving"} <=> w \in Counted
        /\ worker[w] \in {"busy", "panicked"} <=> w \in Occupied
  BY DEF Counted, Occupied
\* The counters move by one.
<1>6. /\ Up(count) = n(c + 1, departed)
      /\ c > 0 => Down(count) = n(c - 1, departed)
      /\ Down(count) = n(c, Up(departed))
  BY <1>1, <1>2, CountSteps DEF n
<1>7. ASSUME NEW w \in Workers, w \notin Occupied
      PROVE  Up(active) = Cardinality(Occupied \cup {w})
  <2>1. Cardinality(Occupied \cup {w}) = active + 1
    BY <1>1, <1>2, <1>7, WorkerSets
  <2>2. active + 1 \in Nat /\ active + 1 < UsizeRange
    <3>1. Occupied \cup {w} \in SUBSET Workers
      BY <1>2
    <3>. QED  BY <2>1, <3>1, WorkerSets
  <2>. QED  BY <2>1, <2>2, UsizeType, Remainders DEF Up
<1>8. ASSUME NEW w \in Workers, w \in Occupied
      PROVE  Down(active) = Cardinality(Occupied \ {w})
  <2>1. /\ Cardinality(Occupied \ {w}) = active - 1
        /\ active \in Nat /\ active > 0 /\ active < UsizeRange
    BY <1>1, <1>2, <1>8, WorkerSets
  <2>2. (active + UsizeRange - 1) % UsizeRange = (active - 1) % UsizeRange
    BY <2>1, UsizeType, Remainders
  <2>3. active - 1 \in Nat /\ active - 1 < UsizeRange
    BY <2>1, UsizeType
  <2>. QED  BY <2>1, <2>2, <2>3, UsizeType, Remainders DEF Down
\* The actions.
<1>9. ASSUME UNCHANGED <<worker, count, active, departed>> PROVE CountersAccount'
  BY <1>9 DEF CountersAccount, Counted
<1>10. ASSUME NEW s \in Submitters, NEW w \in Workers, Spawn(s, w)
       PROVE  CountersAccount'
  <2>1. w \notin Counted /\ w \notin Occupied /\ WorkerGoes(w, "top")
    BY <1>5, <1>10 DEF Spawn
  <2>2. Counted' = Counted \cup {w} /\ Occupied' = Occupied
    BY <1>4, <2>1
  <2>3. Cardinality(Counted') = c + 1
    BY <1>2, <2>1, <2>2, WorkerSets
  <2>. QED  BY <1>1, <1>3, <1>6, <1>10, <2>2, <2>3 DEF Spawn, poolHistory
<1>11. ASSUME NEW w \in Workers, NEW phase,
              phase \notin {"gone", "restoring", "leaving", "busy", "panicked"},
              w \in Counted, w \notin Occupied,
              WorkerGoes(w, phase), UNCHANGED <<count, active, departed>>
       PROVE  CountersAccount'
  <2>1. Counted' = Counted /\ Occupied' = Occupied
    BY <1>4, <1>11
  <2>. QED  BY <1>1, <1>3, <1>11, <2>1
<1>12. ASSUME NEW w \in Workers,
              Top(w) \/ Take(w) \/ Wake(w) \/ Idle(w) \/ ReadCount(w) \/ Reply(w)
       PROVE  CountersAccount'
  <2>1. w \in Counted /\ w \notin Occupied
    BY <1>5, <1>12 DEF Top, Take, Wake, Idle, ReadCount, Reply
  <2>2. \E phase \in {"top", "waiting", "holding", "idle", "subtracting", "stopping"} :
          WorkerGoes(w, phase)
    BY <1>12 DEF Top, Take, Wake, Idle, ReadCount, Reply, AtMinimum
  <2>3. UNCHANGED <<count, active, departed>>
    BY <1>12 DEF Top, Take, Wake, Idle, ReadCount, Reply, poolHistory
  <2>. QED  BY <1>11, <2>1, <2>2, <2>3
<1>13. ASSUME NEW w \in Workers, Subtract(w) PROVE CountersAccount'
  <2>1. /\ w \in Counted /\ w \notin Occupied
        /\ WorkerGoes(w, "restoring") \/ WorkerGoes(w, "leaving")
    BY <1>5, <1>13 DEF Subtract
  <2>2. Counted' = Counted \ {w} /\ Occupied' = Occupied
    BY <1>4, <2>1
  <2>3. Cardinality(Counted') = c - 1 /\ c > 0
    BY <1>2, <2>1, <2>2, WorkerSets
  <2>. QED  BY <1>1, <1>3, <1>6, <1>13, <2>2, <2>3 DEF Subtract
<1>14. ASSUME NEW w \in Workers, Restore(w) PROVE CountersAccount'
  <2>1. w \notin Counted /\ w \notin Occupied /\ WorkerGoes(w, "top")
    BY <1>5, <1>14 DEF Restore
  <2>2. Counted' = Counted \cup {w} /\ Occupied' = Occupied
    BY <1>4, <2>1
  <2>3. Cardinality(Counted') = c + 1
    BY <1>2, <2>1, <2>2, WorkerSets
  <2>. QED
    BY <1>1, <1>3, <1>6, <1>14, <2>2, <2>3 DEF Restore, Restored, poolHistory
<1>15. ASSUME NEW w \in Workers, End(w) PROVE CountersAccount'
  <2>1. /\ w \notin Occupied /\ WorkerGoes(w, "gone")
        /\ count' = Down(count) /\ active' = active
    BY <1>5, <1>15 DEF End
  <2>2. Counted' = Counted \ {w} /\ Occupied' = Occupied
    BY <1>4, <2>1
  <2>3. CASE worker[w] = "leaving"
    <3>1. w \notin Counted /\ departed' = Up(departed)
      BY <1>5, <1>15, <2>3 DEF End
    <3>2. Counted' = Counted
      BY <2>2, <3>1
    <3>. QED  BY <1>1, <1>3, <1>6, <2>1, <2>2, <3>1, <3>2
  <2>4. CASE worker[w] = "stopping"
    <3>1. w \in Counted /\ departed' = departed
      BY <1>5, <1>15, <2>4 DEF End
    <3>2. Cardinality(Counted') = c - 1 /\ c > 0
      BY <1>2, <2>2, <3>1, WorkerSets
    <3>. QED  BY <1>1, <1>3, <1>6, <2>1, <2>2, <3>1, <3>2
  <2>. QED  BY <1>15, <2>3, <2>4 DEF End
<1>16. ASSUME NEW w \in Workers, Start(w) PROVE CountersAccount'
  <2>1. w \in Counted /\ w \notin Occupied /\ WorkerGoes(w, "busy")
    BY <1>5, <1>16 DEF Start
  <2>2. Counted' = Counted /\ Occupied' = Occupied \cup {w}
    BY <1>4, <2>1
  <2>. QED  BY <1>1, <1>3, <1>7, <1>16, <2>1, <2>2 DEF Start, poolHistory
<1>17. ASSUME NEW w \in Workers, Return(w) PROVE CountersAccount'
  <2>1. w \in Counted /\ w \in Occupied /\ WorkerGoes(w, "replying")
    BY <1>5, <1>17 DEF Return
  <2>2. Counted' = Counted /\ Occupied' = Occupied \ {w}
    BY <1>4, <2>1
  <2>. QED  BY <1>1, <1>3, <1>8, <1>17, <2>1, <2>2 DEF Return, Inactive, poolHistory
<1>18. ASSUME NEW w \in Workers, Panic(w) PROVE CountersAccount'
  <2>1. w \in Counted /\ w \in Occupied /\ WorkerGoes(w, "panicked")
    BY <1>5, <1>18 DEF Panic
  <2>2. Counted' = Counted /\ Occupied' = Occupied
    BY <1>4, <2>1
  <2>. QED  BY <1>1, <1>3, <1>18, <2>2 DEF Panic, poolHistory
<1>19. ASSUME NEW s \in Submitters,
              (\E i \in Items : Submit(s, i)) \/ SizeUp(s) \/ ScaleUp(s) \/ Enqueue(s)
       PROVE  CountersAccount'
  BY <1>9, <1>19 DEF Submit, SizeUp, ScaleUp, Enqueue, workerVars, poolHistory
<1>20. CASE Drain \/ DrainStep \/ UNCHANGED poolVars
  BY <1>9, <1>20
     DEF Drain, DrainStep, DrainQueue, DrainActive, SignalShutdown, Drained,
         poolVars, workerVars, poolHistory
<1>. QED
  BY <1>10, <1>12, <1>13, <1>14, <1>15, <1>16, <1>17, <1>18, <1>19, <1>20
     DEF PoolNext, Loop

\* worker_count is the number of workers that are counted, less one for each
\* that has left for idleness and been subtracted twice, modulo the width; and
\* active_work is the number of handlers that run or have panicked.
THEOREM CountersAreExact == PoolSpec => []CountersAccount
BY AlwaysTypeInv, InitCounters, NextCounters, PTL DEF PoolSpec

-----------------------------------------------------------------------------
(* What a drain leaves behind.                                             *)

\* Where the items are that the pool has received.
Placed == Queued \cup InHand \cup answered \cup panicked

\* An item that is still on its way into the pool is nowhere in it, and is on
\* its way once.
FreshParcels ==
    /\ \A s \in Submitters : Pending(s) => parcel[s] \notin Placed
    /\ \A s, t \in Submitters :
         Pending(s) /\ Pending(t) /\ s # t => parcel[s] # parcel[t]

\* What a drain found never comes back to the queue it has seen empty.
OwedReceived ==
    /\ owed \subseteq Placed
    /\ drainer \in {"emptied", "signalling", "stopping", "done"} =>
         owed \cap Queued = {}
    /\ shutdown <=> drainer \in {"stopping", "done"}

\* Workers at the end of a pool that never shrank.
Ended ==
    ~shrinking =>
      /\ departed = 0
      /\ \A w \in Workers : worker[w] \notin {"restoring", "leaving"}
      /\ drainer = "done" =>
           \A w \in Workers : worker[w] \in {"gone", "top", "stopping"}

DrainInv == FreshParcels /\ OwedReceived /\ Ended

LEMMA InitDrain == PoolInit => DrainInv
<1>. SUFFICES ASSUME PoolInit PROVE DrainInv
  OBVIOUS
<1>1. \A w \in Workers : worker[w] \in {"top", "gone"}
  BY DEF PoolInit
<1>2. FreshParcels
  BY DEF PoolInit, FreshParcels, Pending
<1>3. OwedReceived
  BY DEF PoolInit, OwedReceived
<1>4. Ended
  BY <1>1 DEF PoolInit, Ended
<1>. QED  BY <1>2, <1>3, <1>4 DEF DrainInv

\* Where the items go in each step: only a send adds one to the pool, and no
\* step but a send adds one to the queue.
LEMMA ItemsMove ==
    TypeInv /\ PoolNext =>
      \/ \E s \in Submitters :
           /\ Enqueue(s)
           /\ Queued' = Queued \cup {parcel[s]} /\ Placed' = Placed \cup {parcel[s]}
      \/ /\ \A s \in Submitters : ~Enqueue(s)
         /\ Queued' \subseteq Queued /\ Placed' = Placed
<1>. SUFFICES ASSUME TypeInv, PoolNext
              PROVE  \/ \E s \in Submitters :
                          /\ Enqueue(s)
                          /\ Queued' = Queued \cup {parcel[s]}
                          /\ Placed' = Placed \cup {parcel[s]}
                     \/ /\ \A s \in Submitters : ~Enqueue(s)
                        /\ Queued' \subseteq Queued /\ Placed' = Placed
  OBVIOUS
<1>1. /\ worker \in [Workers -> WorkerPhases]
      /\ hand \in [Workers -> Items \cup {NoItem}]
      /\ queue \in Seq(Items)
      /\ \A s \in Submitters : submitter[s] = "sending" => parcel[s] \in Items
  BY DEF TypeInv, PoolTypeOK, HandsFull, Pending
<1>2. ASSUME NEW s \in Submitters, Enqueue(s)
      PROVE  Queued' = Queued \cup {parcel[s]} /\ Placed' = Placed \cup {parcel[s]}
  <2>1. queue' = Append(queue, parcel[s]) /\ parcel[s] \in Items
    BY <1>1, <1>2 DEF Enqueue
  <2>2. Queued' = Queued \cup {parcel[s]}
    BY <1>1, <2>1, QueueItems DEF Queued
  <2>3. UNCHANGED <<worker, hand, answered, panicked>>
    BY <1>2 DEF Enqueue, workerVars
  <2>4. InHand' = InHand
    BY <2>3 DEF InHand
  <2>. QED  BY <2>2, <2>3, <2>4 DEF Placed
<1>3. CASE \A s \in Submitters : ~Enqueue(s)
  <2>1. ASSUME UNCHANGED <<queue, worker, hand, answered, panicked>>
        PROVE  Queued' \subseteq Queued /\ Placed' = Placed
    BY <2>1 DEF Queued, InHand, Placed
  \* A worker that moves and keeps what it has in hand.
  <2>2. ASSUME NEW w \in Workers, NEW phase, WorkerGoes(w, phase),
               worker[w] \in WithItem <=> phase \in WithItem,
               UNCHANGED <<queue, hand, answered, panicked>>
        PROVE  Queued' \subseteq Queued /\ Placed' = Placed
    <3>1. Queued' = Queued
      BY <2>2 DEF Queued
    <3>2. \A x \in Workers : worker'[x] \in WithItem <=> worker[x] \in WithItem
      BY <1>1, <2>2 DEF WorkerGoes
    <3>3. InHand' = InHand
      BY <2>2, <3>2 DEF InHand
    <3>. QED  BY <2>2, <3>1, <3>3 DEF Placed
  <2>3. ASSUME NEW w \in Workers,
               \/ Top(w) \/ Wake(w) \/ Idle(w) \/ ReadCount(w) \/ Subtract(w)
               \/ Restore(w) \/ End(w) \/ Start(w) \/ Return(w)
        PROVE  Queued' \subseteq Queued /\ Placed' = Placed
    <3>1. UNCHANGED <<queue, hand, answered, panicked>>
      BY <2>3 DEF Top, Wake, Idle, ReadCount, Subtract, Restore, End, Start, Return
    <3>2. CASE Start(w) \/ Return(w)
      <4>1. \E phase \in {"busy", "replying"} : WorkerGoes(w, phase)
        BY <3>2 DEF Start, Return
      <4>2. worker[w] \in WithItem /\ {"busy", "replying"} \subseteq WithItem
        BY <3>2 DEF Start, Return, WithItem
      <4>. QED  BY <2>2, <3>1, <4>1, <4>2
    <3>3. CASE ~(Start(w) \/ Return(w))
      <4>1. \E phase \in {"stopping", "waiting", "idle", "subtracting", "restoring",
                          "leaving", "top", "gone"} : WorkerGoes(w, phase)
        BY <2>3, <3>3
           DEF Top, Wake, Idle, ReadCount, Subtract, Restore, End, AtMinimum
      <4>2. worker[w] \notin WithItem
        BY <2>3, <3>3
           DEF Top, Wake, Idle, ReadCount, Subtract, Restore, End, WithItem
      <4>3. \A phase \in {"stopping", "waiting", "idle", "subtracting", "restoring",
                          "leaving", "top", "gone"} : phase \notin WithItem
        BY DEF WithItem
      <4>4. PICK phase \in {"stopping", "waiting", "idle", "subtracting",
                            "restoring", "leaving", "top", "gone"} : WorkerGoes(w, phase)
        BY <4>1
      <4>5. worker[w] \in WithItem <=> phase \in WithItem
        BY <4>2, <4>3
      <4>. QED  BY <2>2, <3>1, <4>4, <4>5
    <3>. QED  BY <3>2, <3>3
  <2>4. ASSUME NEW w \in Workers, Take(w)
        PROVE  Queued' \subseteq Queued /\ Placed' = Placed
    <3>1. Queued = Queued' \cup {Head(queue)}
      <4>1. queue # <<>> /\ queue' = Tail(queue)
        BY <2>4 DEF Take
      <4>2. {queue[k] : k \in DOMAIN queue}
              = {Tail(queue)[k] : k \in DOMAIN Tail(queue)} \cup {Head(queue)}
        BY <1>1, <4>1, QueueItems
      <4>. QED  BY <4>1, <4>2, Zenon DEF Queued
    <3>2. /\ \A x \in Workers \ {w} : worker'[x] = worker[x] /\ hand'[x] = hand[x]
          /\ worker'[w] = "holding" /\ hand'[w] = Head(queue)
          /\ worker[w] = "waiting"
      BY <1>1, <2>4 DEF Take, WorkerGoes
    <3>3. InHand' = InHand \cup {Head(queue)}
      BY <3>2 DEF InHand, WithItem
    <3>. QED  BY <2>4, <3>1, <3>3 DEF Take, Placed
  <2>5. ASSUME NEW w \in Workers, Reply(w) \/ Panic(w)
        PROVE  Queued' \subseteq Queued /\ Placed' = Placed
    <3>1. Queued' = Queued
      BY <2>5 DEF Reply, Panic, Queued
    <3>2. /\ \A x \in Workers \ {w} : worker'[x] = worker[x] /\ hand'[x] = hand[x]
          /\ worker'[w] \notin WithItem /\ worker[w] \in WithItem
      BY <1>1, <2>5 DEF Reply, Panic, WorkerGoes, WithItem
    <3>3. InHand = InHand' \cup {hand[w]}
      BY <3>2 DEF InHand
    <3>4. answered' \cup panicked' = answered \cup panicked \cup {hand[w]}
      BY <2>5 DEF Reply, Panic
    <3>. QED  BY <3>1, <3>3, <3>4 DEF Placed
  <2>6. ASSUME NEW s \in Submitters, NEW w \in Workers, Spawn(s, w)
        PROVE  Queued' \subseteq Queued /\ Placed' = Placed
    <3>1. worker[w] \notin WithItem /\ "top" \notin WithItem
      BY <2>6 DEF Spawn, WithItem
    <3>2. WorkerGoes(w, "top") /\ UNCHANGED <<queue, hand, answered, panicked>>
      BY <2>6 DEF Spawn
    <3>. QED  BY <2>2, <3>1, <3>2
  <2>7. ASSUME NEW s \in Submitters,
               (\E i \in Items : Submit(s, i)) \/ SizeUp(s) \/ ScaleUp(s)
        PROVE  Queued' \subseteq Queued /\ Placed' = Placed
    <3>1. UNCHANGED <<queue, worker, hand, answered, panicked>>
      BY <2>7 DEF Submit, SizeUp, ScaleUp, workerVars
    <3>. QED  BY <2>1, <3>1
  <2>8. CASE Drain \/ DrainStep
    <3>1. UNCHANGED <<queue, worker, hand, answered, panicked>>
      BY <2>8
         DEF Drain, DrainStep, DrainQueue, DrainActive, SignalShutdown, Drained,
             workerVars
    <3>. QED  BY <1>3, <2>1, <3>1
  <2>. QED
    BY <1>3, <2>3, <2>4, <2>5, <2>6, <2>7, <2>8 DEF PoolNext, Loop
<1>. QED  BY <1>2, <1>3

LEMMA NextDrain ==
    TypeInv /\ CountersAccount /\ DrainInv /\ [PoolNext]_poolVars => DrainInv'
<1>. SUFFICES ASSUME TypeInv, CountersAccount, DrainInv, [PoolNext]_poolVars
              PROVE  DrainInv'
  OBVIOUS
<1>1. CASE UNCHANGED poolVars
  <2>1. UNCHANGED <<worker, hand, queue, submitter, parcel, answered, panicked,
                    owed, departed, shrinking, drainer, shutdown>>
    BY <1>1 DEF poolVars, workerVars, submitterVars, poolHistory
  <2>2. Queued' = Queued /\ Placed' = Placed /\ \A s : Pending(s)' <=> Pending(s)
    BY <2>1 DEF Placed, Queued, InHand, Pending
  <2>. QED
    BY <2>1, <2>2 DEF DrainInv, FreshParcels, OwedReceived, Ended
<1>. SUFFICES ASSUME PoolNext PROVE DrainInv'
  BY <1>1
<1>2. /\ worker \in [Workers -> WorkerPhases]
      /\ submitter \in [Submitters -> SubmitterPhases]
      /\ parcel \in [Submitters -> Items \cup {NoItem}]
      /\ drainer \in DrainPhases
  BY DEF TypeInv, PoolTypeOK
<1>3. \/ \E s \in Submitters :
           /\ Enqueue(s)
           /\ Queued' = Queued \cup {parcel[s]} /\ Placed' = Placed \cup {parcel[s]}
      \/ /\ \A s \in Submitters : ~Enqueue(s)
         /\ Queued' \subseteq Queued /\ Placed' = Placed
  BY ItemsMove
<1>4. FreshParcels /\ OwedReceived /\ Ended
  BY DEF DrainInv
<1>5. FreshParcels'
  <2>1. CASE \E s \in Submitters :
               Enqueue(s) /\ Placed' = Placed \cup {parcel[s]}
    <3>1. PICK s \in Submitters : Enqueue(s) /\ Placed' = Placed \cup {parcel[s]}
      BY <2>1
    <3>2. /\ parcel' = parcel
          /\ Pending(s) /\ ~Pending(s)'
          /\ \A t \in Submitters \ {s} : Pending(t)' <=> Pending(t)
      BY <1>2, <3>1 DEF Enqueue, SubmitterGoes, Pending
    <3>. QED  BY <1>4, <3>1, <3>2 DEF FreshParcels
  <2>2. CASE Placed' = Placed
    <3>1. ASSUME NEW s \in Submitters, NEW i \in Items, Submit(s, i)
          PROVE  FreshParcels'
      <4>1. /\ parcel'[s] = i
            /\ \A t \in Submitters \ {s} :
                 parcel'[t] = parcel[t] /\ (Pending(t)' <=> Pending(t))
        BY <1>2, <3>1 DEF Submit, SubmitterGoes, Pending
      <4>2. /\ i \notin Placed
            /\ \A t \in Submitters : Pending(t) => parcel[t] # i
        <5>1. i \notin Submitted
          BY <3>1 DEF Submit
        <5>2. \A t \in Submitters : Pending(t) => submitter[t] # "ready"
          BY DEF Pending
        <5>. QED  BY <5>1, <5>2 DEF Submitted, Placed
      <4>. QED  BY <1>4, <2>2, <4>1, <4>2 DEF FreshParcels
    <3>2. ASSUME parcel' = parcel,
                 \A t \in Submitters : Pending(t)' => Pending(t)
          PROVE  FreshParcels'
      BY <1>4, <2>2, <3>2 DEF FreshParcels
    <3>3. ASSUME submitterVars' = submitterVars PROVE FreshParcels'
      <4>1. parcel' = parcel /\ \A t \in Submitters : Pending(t)' => Pending(t)
        BY <3>3 DEF submitterVars, Pending
      <4>. QED  BY <3>2, <4>1
    <3>4. ASSUME NEW s \in Submitters,
                 \/ SizeUp(s) \/ ScaleUp(s) \/ Enqueue(s)
                 \/ \E w \in Workers : Spawn(s, w)
          PROVE  FreshParcels'
      <4>1. parcel' = parcel
        BY <3>4 DEF SizeUp, ScaleUp, Enqueue, Spawn
      <4>2. \A t \in Submitters : Pending(t)' => Pending(t)
        BY <1>2, <3>4
           DEF SizeUp, ScaleUp, Enqueue, Spawn, SubmitterGoes, Pending
      <4>. QED  BY <3>2, <4>1, <4>2
    <3>5. ASSUME NEW w \in Workers, Loop(w) \/ Take(w) \/ Idle(w) \/ Panic(w)
          PROVE  FreshParcels'
      <4>1. submitterVars' = submitterVars
        BY <3>5 DEF Loop, Top, Wake, ReadCount, Subtract, Restore, End, Start,
                    Return, Reply, Take, Idle, Panic
      <4>. QED  BY <3>3, <4>1
    <3>6. CASE Drain \/ DrainStep
      <4>1. submitterVars' = submitterVars
        BY <3>6 DEF Drain, DrainStep, DrainQueue, DrainActive, SignalShutdown, Drained
      <4>. QED  BY <3>3, <4>1
    <3>. QED  BY <3>1, <3>4, <3>5, <3>6 DEF PoolNext
  <2>. QED  BY <1>3, <2>1, <2>2
<1>6. OwedReceived'
  <2>1. CASE owed' = owed /\ drainer' = drainer /\ shutdown' = shutdown
    <3>1. CASE \E s \in Submitters :
                 /\ Enqueue(s) /\ Queued' = Queued \cup {parcel[s]}
                 /\ Placed' = Placed \cup {parcel[s]}
      <4>1. PICK s \in Submitters :
               /\ Enqueue(s) /\ Queued' = Queued \cup {parcel[s]}
               /\ Placed' = Placed \cup {parcel[s]}
        BY <3>1
      <4>2. parcel[s] \notin Placed
        BY <1>4, <4>1 DEF FreshParcels, Enqueue, Pending
      <4>. QED  BY <1>4, <2>1, <4>1, <4>2 DEF OwedReceived
    <3>2. CASE Queued' \subseteq Queued /\ Placed' = Placed
      BY <1>4, <2>1, <3>2 DEF OwedReceived
    <3>. QED  BY <1>3, <3>1, <3>2
  <2>2. CASE Drain
    <3>1. /\ owed' = Queued \cup InHand
          /\ drainer = "off" /\ drainer' = "draining" /\ shutdown' = shutdown
      BY <2>2 DEF Drain
    <3>2. owed' \subseteq Placed'
      BY <1>3, <3>1 DEF Placed
    <3>. QED  BY <1>4, <3>1, <3>2 DEF OwedReceived
  <2>3. CASE DrainStep
    <3>1. /\ UNCHANGED <<queue, worker, hand, answered, panicked, owed>>
          /\ DrainQueue \/ DrainActive \/ SignalShutdown \/ Drained
      BY <2>3 DEF DrainStep, DrainQueue, DrainActive, SignalShutdown, Drained,
                  workerVars, poolHistory
    <3>2. Queued' = Queued /\ Placed' = Placed
      BY <3>1 DEF Placed, Queued, InHand
    <3>3. CASE DrainQueue
      <4>1. Queued = {} /\ drainer = "draining" /\ drainer' = "emptied"
            /\ shutdown' = shutdown
        BY <3>3 DEF DrainQueue, QueueEmpty, Queued
      <4>. QED  BY <1>4, <3>1, <3>2, <4>1 DEF OwedReceived
    <3>4. CASE DrainActive
      BY <1>4, <3>1, <3>2, <3>4 DEF OwedReceived, DrainActive
    <3>5. CASE SignalShutdown
      BY <1>4, <3>1, <3>2, <3>5 DEF OwedReceived, SignalShutdown
    <3>6. CASE Drained
      BY <1>4, <3>1, <3>2, <3>6 DEF OwedReceived, Drained
    <3>. QED  BY <3>1, <3>3, <3>4, <3>5, <3>6
  <2>4. ASSUME ~Drain, ~DrainStep
        PROVE  owed' = owed /\ drainer' = drainer /\ shutdown' = shutdown
    <3>1. ASSUME NEW w \in Workers, Loop(w) \/ Take(w) \/ Idle(w) \/ Panic(w)
          PROVE  owed' = owed /\ drainer' = drainer /\ shutdown' = shutdown
      BY <3>1 DEF Loop, Top, Wake, ReadCount, Subtract, Restore, End, Start,
                  Return, Reply, Take, Idle, Panic, poolHistory
    <3>2. ASSUME NEW s \in Submitters,
                 \/ \E i \in Items : Submit(s, i)
                 \/ SizeUp(s) \/ ScaleUp(s) \/ Enqueue(s)
                 \/ \E w \in Workers : Spawn(s, w)
          PROVE  owed' = owed /\ drainer' = drainer /\ shutdown' = shutdown
      BY <3>2 DEF Submit, SizeUp, ScaleUp, Enqueue, Spawn, poolHistory
    <3>. QED  BY <2>4, <3>1, <3>2 DEF PoolNext
  <2>. QED  BY <2>1, <2>2, <2>3, <2>4
<1>7. Ended'
  <2>. SUFFICES ASSUME ~shrinking'
                PROVE  /\ departed' = 0
                       /\ \A w \in Workers : worker'[w] \notin {"restoring", "leaving"}
                       /\ drainer' = "done" =>
                            \A w \in Workers :
                              worker'[w] \in {"gone", "top", "stopping"}
    BY DEF Ended
  <2>1. ~shrinking /\ \A w \in Workers : ~Subtract(w)
    <3>1. \A w \in Workers : ~Subtract(w)
      BY DEF Subtract
    <3>2. shrinking' = shrinking
      <4>1. ASSUME NEW w \in Workers, Loop(w) \/ Take(w) \/ Idle(w) \/ Panic(w)
            PROVE  shrinking' = shrinking
        BY <3>1, <4>1 DEF Loop, Top, Wake, ReadCount, Restore, End, Start,
                          Return, Reply, Take, Idle, Panic, poolHistory
      <4>2. ASSUME NEW s \in Submitters,
                   \/ \E i \in Items : Submit(s, i)
                   \/ SizeUp(s) \/ ScaleUp(s) \/ Enqueue(s)
                   \/ \E w \in Workers : Spawn(s, w)
            PROVE  shrinking' = shrinking
        BY <4>2 DEF Submit, SizeUp, ScaleUp, Enqueue, Spawn, poolHistory
      <4>3. ASSUME Drain \/ DrainStep PROVE shrinking' = shrinking
        BY <4>3 DEF Drain, DrainStep, DrainQueue, DrainActive, SignalShutdown,
                    Drained, poolHistory
      <4>. QED  BY <4>1, <4>2, <4>3 DEF PoolNext
    <3>. QED  BY <3>1, <3>2
  <2>2. /\ departed = 0
        /\ \A w \in Workers : worker[w] \notin {"restoring", "leaving"}
        /\ drainer = "done" =>
             shutdown /\ \A w \in Workers : worker[w] \in {"gone", "top", "stopping"}
    BY <1>4, <2>1 DEF Ended, OwedReceived
  <2>3. ASSUME NEW w \in Workers, Loop(w) \/ Take(w) \/ Idle(w) \/ Panic(w)
        PROVE  /\ departed' = 0 /\ drainer' = drainer
               /\ \A x \in Workers \ {w} : worker'[x] = worker[x]
               /\ worker'[w] \notin {"restoring", "leaving"}
               /\ drainer = "done" => worker'[w] \in {"gone", "top", "stopping"}
    <3>1. departed' = 0 /\ drainer' = drainer
      BY <2>1, <2>2, <2>3 DEF Loop, Top, Wake, ReadCount, Restore, End, Start,
                        Return, Reply, Take, Idle, Panic, poolHistory
    <3>2. PICK phase \in WorkerPhases \ {"restoring", "leaving"} : WorkerGoes(w, phase)
      BY <2>1, <2>2, <2>3
         DEF Loop, Top, Wake, ReadCount, Restore, End, Start, Return, Reply,
             Take, Idle, Panic, AtMinimum, WorkerPhases, WithItem
    <3>3. /\ \A x \in Workers \ {w} : worker'[x] = worker[x]
          /\ worker'[w] = phase
      BY <1>2, <3>2 DEF WorkerGoes
    <3>4. ASSUME drainer = "done" PROVE phase \in {"gone", "top", "stopping"}
      <4>1. shutdown /\ worker[w] \in {"gone", "top", "stopping"}
        BY <2>2, <3>4
      <4>2. Top(w) \/ End(w)
        BY <2>1, <2>3, <4>1
           DEF Loop, Wake, ReadCount, Restore, Start, Return, Reply, Take, Idle, Panic
      <4>3. worker'[w] \in {"gone", "stopping"}
        BY <1>2, <4>1, <4>2 DEF Top, End, WorkerGoes
      <4>. QED  BY <3>3, <4>3
    <3>. QED  BY <3>1, <3>2, <3>3, <3>4
  <2>4. ASSUME NEW s \in Submitters, NEW w \in Workers, Spawn(s, w)
        PROVE  /\ departed' = departed /\ drainer' = drainer
               /\ \A x \in Workers \ {w} : worker'[x] = worker[x]
               /\ worker'[w] = "top"
    BY <1>2, <2>4 DEF Spawn, WorkerGoes, poolHistory
  <2>5. ASSUME NEW s \in Submitters,
               (\E i \in Items : Submit(s, i)) \/ SizeUp(s) \/ ScaleUp(s) \/ Enqueue(s)
        PROVE  UNCHANGED <<worker, drainer, departed>>
    BY <2>5 DEF Submit, SizeUp, ScaleUp, Enqueue, workerVars, poolHistory
  <2>6. ASSUME Drain \/ DrainStep
        PROVE  /\ UNCHANGED <<worker, departed>>
               /\ drainer' = "done" => Drained
    BY <2>6 DEF Drain, DrainStep, DrainQueue, DrainActive, SignalShutdown, Drained,
                workerVars, poolHistory
  <2>7. ASSUME Drained PROVE \A w \in Workers : worker[w] = "gone"
    <3>1. count = 0 /\ departed = 0
      BY <2>2, <2>7 DEF Drained, AllStopped
    <3>2. Counted \in SUBSET Workers
      BY DEF Counted
    <3>3. /\ Cardinality(Counted) \in Nat /\ Cardinality(Counted) < UsizeRange
          /\ UsizeRange \in Nat \ {0} /\ IsFiniteSet(Counted)
      BY <3>2, WorkerSets, UsizeType
    <3>4. (Cardinality(Counted) + UsizeRange) % UsizeRange = Cardinality(Counted)
      BY <3>3, Remainders
    <3>5. Cardinality(Counted) + UsizeRange - 0 = Cardinality(Counted) + UsizeRange
      BY <3>3
    <3>6. Cardinality(Counted) = 0
      BY <3>1, <3>4, <3>5 DEF CountersAccount
    <3>7. Counted = {}
      BY <3>3, <3>6, FS_EmptySet
    <3>. QED  BY <2>2, <3>7 DEF Counted
  <2>. QED
    BY <2>2, <2>3, <2>4, <2>5, <2>6, <2>7 DEF PoolNext
<1>. QED  BY <1>5, <1>6, <1>7 DEF DrainInv

\* A drain that has signalled the shutdown has seen every item it found in the
\* pool out of the queue, and one that has returned leaves none in anybody's
\* hands, unless some worker has tried to leave for idleness.
THEOREM DrainFinishes == PoolSpec => []DrainFinishesWork
<1>1. PoolInit => TypeInv /\ CountersAccount /\ DrainInv
  BY InitType, InitCounters, InitDrain
<1>2. /\ TypeInv /\ CountersAccount /\ DrainInv /\ [PoolNext]_poolVars
      => (TypeInv /\ CountersAccount /\ DrainInv)'
  BY NextType, NextCounters, NextDrain
<1>3. DrainInv => DrainFinishesWork
  <2>. SUFFICES ASSUME DrainInv PROVE DrainEmptiesQueue /\ DrainLeavesNoWork
    BY DEF DrainFinishesWork
  <2>1. DrainEmptiesQueue
    BY DEF DrainInv, OwedReceived, DrainEmptiesQueue
  <2>2. DrainLeavesNoWork
    BY DEF DrainInv, Ended, DrainLeavesNoWork, InHand, WithItem
  <2>. QED  BY <2>1, <2>2
<1>. QED  BY <1>1, <1>2, <1>3, PTL DEF PoolSpec

-----------------------------------------------------------------------------
(* Every item is handled at most once, and none is lost.                   *)

\* An item of the pool is at one place in the queue, or in one worker's hands,
\* or done with.
OneHolder ==
    /\ \A j, k \in DOMAIN queue : queue[j] = queue[k] => j = k
    /\ \A v, w \in Workers :
         worker[v] \in WithItem /\ worker[w] \in WithItem /\ hand[v] = hand[w] => v = w
    /\ Queued \cap InHand = {}
    /\ (Queued \cup InHand) \cap (answered \cup panicked) = {}
    /\ answered \cap panicked = {}

\* What callers have handed over, or are about to.
Accepted == Placed \cup {parcel[s] : s \in {x \in Submitters : Pending(x)}}

ItemsKept == [][Accepted \subseteq Accepted']_poolVars

\* The steps that touch no item.
LEMMA ItemsRest ==
    ASSUME TypeInv, PoolNext,
           \A s \in Submitters : ~Enqueue(s),
           \A w \in Workers : ~Take(w) /\ ~Reply(w) /\ ~Panic(w)
    PROVE  /\ UNCHANGED <<queue, hand, answered, panicked>>
           /\ \A w \in Workers : worker'[w] \in WithItem <=> worker[w] \in WithItem
<1>1. worker \in [Workers -> WorkerPhases]
  BY DEF TypeInv, PoolTypeOK
<1>2. ASSUME NEW w \in Workers,
             Top(w) \/ Wake(w) \/ Idle(w) \/ ReadCount(w) \/ Subtract(w)
             \/ Restore(w) \/ End(w)
      PROVE  /\ UNCHANGED <<queue, hand, answered, panicked>>
             /\ \A x \in Workers : worker'[x] \in WithItem <=> worker[x] \in WithItem
  <2>1. /\ UNCHANGED <<queue, hand, answered, panicked>>
        /\ worker[w] \notin WithItem
        /\ \E phase \in WorkerPhases \ WithItem : WorkerGoes(w, phase)
    BY <1>2 DEF Top, Wake, Idle, ReadCount, Subtract, Restore, End, AtMinimum,
                WorkerPhases, WithItem
  <2>. QED  BY <1>1, <2>1 DEF WorkerGoes
<1>3. ASSUME NEW w \in Workers, Start(w) \/ Return(w)
      PROVE  /\ UNCHANGED <<queue, hand, answered, panicked>>
             /\ \A x \in Workers : worker'[x] \in WithItem <=> worker[x] \in WithItem
  <2>1. /\ UNCHANGED <<queue, hand, answered, panicked>>
        /\ worker[w] \in WithItem
        /\ \E phase \in WithItem : WorkerGoes(w, phase)
    BY <1>3 DEF Start, Return, WithItem
  <2>. QED  BY <1>1, <2>1 DEF WorkerGoes
<1>4. ASSUME NEW s \in Submitters, NEW w \in Workers, Spawn(s, w)
      PROVE  /\ UNCHANGED <<queue, hand, answered, panicked>>
             /\ \A x \in Workers : worker'[x] \in WithItem <=> worker[x] \in WithItem
  BY <1>1, <1>4 DEF Spawn, WorkerGoes, WithItem
<1>5. ASSUME NEW s \in Submitters,
             (\E i \in Items : Submit(s, i)) \/ SizeUp(s) \/ ScaleUp(s)
      PROVE  UNCHANGED <<queue, worker, hand, answered, panicked>>
  BY <1>5 DEF Submit, SizeUp, ScaleUp, workerVars
<1>6. ASSUME Drain \/ DrainStep
      PROVE  UNCHANGED <<queue, worker, hand, answered, panicked>>
  BY <1>6 DEF Drain, DrainStep, DrainQueue, DrainActive, SignalShutdown, Drained,
              workerVars
<1>. QED  BY <1>2, <1>3, <1>4, <1>5, <1>6 DEF PoolNext, Loop

LEMMA HolderKept ==
    TypeInv /\ FreshParcels /\ OneHolder /\ [PoolNext]_poolVars => OneHolder'
<1>. SUFFICES ASSUME TypeInv, FreshParcels, OneHolder, [PoolNext]_poolVars
              PROVE  OneHolder'
  OBVIOUS
<1>1. /\ worker \in [Workers -> WorkerPhases]
      /\ hand \in [Workers -> Items \cup {NoItem}]
      /\ queue \in Seq(Items)
  BY DEF TypeInv, PoolTypeOK
<1>2. ASSUME UNCHANGED <<queue, hand, answered, panicked>>,
             \A w \in Workers : worker'[w] \in WithItem <=> worker[w] \in WithItem
      PROVE  OneHolder'
  <2>1. Queued' = Queued /\ InHand' = InHand
    BY <1>2 DEF Queued, InHand
  <2>. QED  BY <1>2, <2>1 DEF OneHolder
<1>3. ASSUME NEW s \in Submitters, Enqueue(s) PROVE OneHolder'
  <2>1. /\ queue' = Append(queue, parcel[s]) /\ Pending(s)
        /\ UNCHANGED <<worker, hand, answered, panicked>>
    BY <1>3 DEF Enqueue, Pending, workerVars
  <2>2. parcel[s] \in Items /\ parcel[s] \notin Placed
    BY <2>1 DEF TypeInv, HandsFull, FreshParcels
  <2>3. Queued' = Queued \cup {parcel[s]} /\ InHand' = InHand
    BY <1>1, <2>1, <2>2, QueueItems DEF Queued, InHand
  <2>4. \A j, k \in DOMAIN queue' : queue'[j] = queue'[k] => j = k
    <3>1. \A k \in DOMAIN queue : queue[k] # parcel[s]
      BY <2>2 DEF Placed, Queued
    <3>2. /\ DOMAIN queue' = DOMAIN queue \cup {Len(queue) + 1}
          /\ \A k \in DOMAIN queue : queue'[k] = queue[k]
          /\ queue'[Len(queue) + 1] = parcel[s]
      BY <1>1, <2>1, <2>2
    <3>. QED  BY <3>1, <3>2 DEF OneHolder
  <2>. QED  BY <2>1, <2>2, <2>3, <2>4 DEF OneHolder, Placed
<1>4. ASSUME NEW w \in Workers, Take(w) PROVE OneHolder'
  <2>1. /\ queue # <<>> /\ queue' = Tail(queue)
        /\ answered' = answered /\ panicked' = panicked
    BY <1>4 DEF Take
  <2>2. /\ \A x \in Workers \ {w} : worker'[x] = worker[x] /\ hand'[x] = hand[x]
        /\ worker'[w] = "holding" /\ hand'[w] = Head(queue) /\ worker[w] = "waiting"
    BY <1>1, <1>4 DEF Take, WorkerGoes
  <2>3. /\ DOMAIN queue = 1..Len(queue) /\ DOMAIN queue' = 1..(Len(queue) - 1)
        /\ \A k \in DOMAIN queue' : k + 1 \in DOMAIN queue /\ queue'[k] = queue[k + 1]
        /\ 1 \in DOMAIN queue /\ Head(queue) = queue[1]
    BY <1>1, <2>1
  <2>4. \A j, k \in DOMAIN queue' : queue'[j] = queue'[k] => j = k
    BY <2>3 DEF OneHolder
  <2>5. Head(queue) \in Queued /\ Queued' \subseteq Queued \ {Head(queue)}
    <3>1. \A k \in DOMAIN queue' : queue'[k] # Head(queue)
      BY <2>3 DEF OneHolder
    <3>. QED  BY <2>3, <3>1 DEF Queued
  <2>6. InHand' = InHand \cup {Head(queue)}
    BY <2>2 DEF InHand, WithItem
  <2>7. \A v, x \in Workers :
          worker'[v] \in WithItem /\ worker'[x] \in WithItem /\ hand'[v] = hand'[x] => v = x
    <3>1. \A x \in Workers \ {w} : worker[x] \in WithItem => hand[x] # Head(queue)
      BY <2>5 DEF OneHolder, InHand
    <3>. QED  BY <2>2, <3>1 DEF OneHolder
  <2>. QED  BY <2>1, <2>4, <2>5, <2>6, <2>7 DEF OneHolder
<1>5. ASSUME NEW w \in Workers, Reply(w) \/ Panic(w) PROVE OneHolder'
  <2>1. /\ \A x \in Workers \ {w} : worker'[x] = worker[x] /\ hand'[x] = hand[x]
        /\ worker'[w] \notin WithItem /\ worker[w] \in WithItem
        /\ queue' = queue
    BY <1>1, <1>5 DEF Reply, Panic, WorkerGoes, WithItem
  <2>2. \/ answered' = answered \cup {hand[w]} /\ panicked' = panicked
        \/ answered' = answered /\ panicked' = panicked \cup {hand[w]}
    BY <1>5 DEF Reply, Panic
  <2>3. Queued' = Queued
    BY <2>1 DEF Queued
  <2>4. hand[w] \in InHand /\ InHand' \subseteq InHand \ {hand[w]}
    BY <2>1 DEF InHand, OneHolder
  <2>5. \A v, x \in Workers :
          worker'[v] \in WithItem /\ worker'[x] \in WithItem /\ hand'[v] = hand'[x] => v = x
    BY <2>1 DEF OneHolder
  <2>6. /\ (Queued' \cup InHand') \cap (answered' \cup panicked') = {}
        /\ answered' \cap panicked' = {} /\ Queued' \cap InHand' = {}
    BY <2>2, <2>3, <2>4 DEF OneHolder
  <2>. QED  BY <2>1, <2>5, <2>6 DEF OneHolder
<1>6. CASE UNCHANGED poolVars
  <2>1. UNCHANGED <<queue, worker, hand, answered, panicked>>
    BY <1>6 DEF poolVars, workerVars
  <2>. QED  BY <1>2, <2>1
<1>. QED  BY <1>2, <1>3, <1>4, <1>5, <1>6, ItemsRest

LEMMA AcceptedKept == TypeInv /\ PoolNext => Accepted \subseteq Accepted'
<1>. SUFFICES ASSUME TypeInv, PoolNext PROVE Accepted \subseteq Accepted'
  OBVIOUS
<1>1. /\ submitter \in [Submitters -> SubmitterPhases]
      /\ parcel \in [Submitters -> Items \cup {NoItem}]
  BY DEF TypeInv, PoolTypeOK
<1>2. ASSUME \A s \in Submitters : Pending(s) => Pending(s)' /\ parcel'[s] = parcel[s],
             Placed' = Placed
      PROVE  Accepted \subseteq Accepted'
  BY <1>2 DEF Accepted
<1>3. ASSUME NEW s \in Submitters, Enqueue(s) PROVE Accepted \subseteq Accepted'
  <2>1. Placed' = Placed \cup {parcel[s]}
    <3>1. PICK t \in Submitters : Enqueue(t) /\ Placed' = Placed \cup {parcel[t]}
      BY <1>3, ItemsMove
    <3>2. queue' = Append(queue, parcel[s]) /\ queue' = Append(queue, parcel[t])
      BY <1>3, <3>1 DEF Enqueue
    <3>3. queue \in Seq(Items) /\ parcel[s] \in Items /\ parcel[t] \in Items
      BY <1>3, <3>1 DEF TypeInv, PoolTypeOK, HandsFull, Pending, Enqueue
    <3>4. ASSUME NEW e \in Items PROVE Append(queue, e)[Len(queue) + 1] = e
      BY <3>3, <3>4
    <3>5. parcel[s] = parcel[t]
      BY <3>2, <3>3, <3>4
    <3>. QED  BY <3>1, <3>5
  <2>2. /\ parcel' = parcel
        /\ \A t \in Submitters \ {s} : Pending(t)' <=> Pending(t)
    BY <1>1, <1>3 DEF Enqueue, SubmitterGoes, Pending
  <2>. QED  BY <2>1, <2>2 DEF Accepted
<1>4. ASSUME \A s \in Submitters : ~Enqueue(s) PROVE Accepted \subseteq Accepted'
  <2>1. Placed' = Placed
    BY <1>4, ItemsMove
  <2>2. ASSUME NEW s \in Submitters,
               \/ \E i \in Items : Submit(s, i)
               \/ SizeUp(s) \/ ScaleUp(s)
               \/ \E w \in Workers : Spawn(s, w)
        PROVE  \A t \in Submitters : Pending(t) => Pending(t)' /\ parcel'[t] = parcel[t]
    BY <1>1, <2>2 DEF Submit, SizeUp, ScaleUp, Spawn, SubmitterGoes, Pending
  <2>3. ASSUME submitterVars' = submitterVars
        PROVE  \A t \in Submitters : Pending(t) => Pending(t)' /\ parcel'[t] = parcel[t]
    BY <2>3 DEF submitterVars, Pending
  <2>4. ASSUME NEW w \in Workers, Loop(w) \/ Take(w) \/ Idle(w) \/ Panic(w)
        PROVE  submitterVars' = submitterVars
    BY <2>4 DEF Loop, Top, Wake, ReadCount, Subtract, Restore, End, Start,
                Return, Reply, Take, Idle, Panic
  <2>5. ASSUME Drain \/ DrainStep PROVE submitterVars' = submitterVars
    BY <2>5 DEF Drain, DrainStep, DrainQueue, DrainActive, SignalShutdown, Drained
  <2>. QED  BY <1>2, <1>4, <2>1, <2>2, <2>3, <2>4, <2>5 DEF PoolNext
<1>. QED  BY <1>3, <1>4

\* Every item is handled at most once and none is lost, for any number of
\* workers and callers, whatever panics, leaves for idleness or is drained: it
\* is in one place of the pool, and once handed over it stays in the queue, in
\* a worker's hands or among those that were answered or that panicked.
THEOREM ItemsHandledOnce == PoolSpec => []OneHolder /\ ItemsKept
<1>1. PoolInit => OneHolder
  <2>. SUFFICES ASSUME PoolInit PROVE OneHolder
    OBVIOUS
  <2>1. \A w \in Workers : worker[w] \notin WithItem
    BY DEF PoolInit, WithItem
  <2>2. Queued = {} /\ InHand = {} /\ answered = {} /\ panicked = {}
    BY <2>1 DEF PoolInit, Queued, InHand
  <2>. QED  BY <2>1, <2>2 DEF OneHolder, PoolInit
<1>2. PoolInit => TypeInv /\ CountersAccount /\ DrainInv
  BY InitType, InitCounters, InitDrain
<1>3. /\ TypeInv /\ CountersAccount /\ DrainInv /\ [PoolNext]_poolVars
      => (TypeInv /\ CountersAccount /\ DrainInv)'
  BY NextType, NextCounters, NextDrain
<1>4. TypeInv /\ DrainInv /\ OneHolder /\ [PoolNext]_poolVars => OneHolder'
  BY HolderKept DEF DrainInv
<1>5. TypeInv /\ [PoolNext]_poolVars => [Accepted \subseteq Accepted']_poolVars
  BY AcceptedKept
<1>. QED  BY <1>1, <1>2, <1>3, <1>4, <1>5, PTL DEF PoolSpec, ItemsKept

=============================================================================
