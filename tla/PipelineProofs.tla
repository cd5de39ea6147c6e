---------------------------- MODULE PipelineProofs ----------------------------
(***************************************************************************)
(* For any number of requests, workers and channel sizes: every accepted   *)
(* request is accounted for, the dead-letter queue is exact, and the       *)
(* pipeline implements Ledger.                                             *)
(*                                                                         *)
(* The invariant speaks of three things at once: which tasks have a        *)
(* request in hand (Hands), that queues and hands never share a request    *)
(* and hold exactly those whose fate is "inside" (Placed), and that the    *)
(* ring holds exactly those whose fate is "dead" (Ring).  Placed and Ring  *)
(* are operators of plain values, so that the effect of a step on the      *)
(* queues is proved once, in the lemmas, for all actions that share it.    *)
(***************************************************************************)
EXTENDS Pipeline, FiniteSetTheorems, SequenceTheorems, TLAPS

Types ==
    /\ chan \in [Channels -> Seq(Requests)]
    /\ at \in [Tasks -> Phases]
    /\ held \in [Tasks -> Requests \cup {None}]
    /\ dlq \in Seq(Requests)
    /\ fate \in [Requests -> L!Fates]

\* A task holds a request exactly while it works on one.
Hands == \A t \in Tasks : held[t] # None <=> at[t] \in {"busy", "calling", "answered"}

InQueue(c, r) == \E s \in Channels : \E i \in 1..Len(c[s]) : c[s][i] = r

InHand(h, r) == \E t \in Tasks : h[t] = r

QueuesApart(c) ==
    \A s1, s2 \in Channels : \A i \in 1..Len(c[s1]), j \in 1..Len(c[s2]) :
        c[s1][i] = c[s2][j] => s1 = s2 /\ i = j

HandsApart(h) == \A t, u \in Tasks : h[t] = h[u] /\ h[t] # None => t = u

ApartFromHands(c, h) ==
    \A s \in Channels : \A i \in 1..Len(c[s]) : \A t \in Tasks : c[s][i] # h[t]

InsideIsPlaced(c, h, f) ==
    \A r \in Requests : f[r] = "inside" <=> InQueue(c, r) \/ InHand(h, r)

Placed(c, h, f) ==
    QueuesApart(c) /\ HandsApart(h) /\ ApartFromHands(c, h) /\ InsideIsPlaced(c, h, f)

Ring(q, f) ==
    /\ \A r \in Requests : f[r] = "dead" <=> \E i \in 1..Len(q) : q[i] = r
    /\ \A i, j \in 1..Len(q) : q[i] = q[j] => i = j
    /\ Len(q) <= DlqCap

Inv == Types /\ Hands /\ Placed(chan, held, fate) /\ Ring(dlq, fate)

Queues == [Channels -> Seq(Requests)]
Grips == [Tasks -> Requests \cup {None}]

-----------------------------------------------------------------------------
\* What the steps do to queues and hands.

\* The first off[s] requests leave each queue s of c, which becomes d.
Shifted(c, d, off) ==
    /\ \A s \in Channels : Len(d[s]) + off[s] = Len(c[s])
    /\ \A s \in Channels : \A i \in 1..Len(d[s]) : d[s][i] = c[s][i + off[s]]

\* Some tasks let go of their requests.
LetGo(h, g) == \A t \in Tasks : g[t] \in {h[t], None}

\* Exactly the requests removed so are no longer inside.
Left(c, h, g, off, f, e) ==
    \A r \in Requests : e[r] = "inside" <=>
        /\ f[r] = "inside"
        /\ \A s \in Channels : \A i \in 1..off[s] : c[s][i] # r
        /\ \A t \in Tasks : h[t] = r => g[t] = r

LEMMA Removal ==
    ASSUME NEW c \in Queues, NEW d \in Queues, NEW h \in Grips, NEW g \in Grips,
           NEW f, NEW e, NEW off \in [Channels -> Nat],
           Placed(c, h, f),
           Shifted(c, d, off), LetGo(h, g), Left(c, h, g, off, f, e)
    PROVE  Placed(d, g, e)
<1> USE DEF Queues, Grips, Shifted, LetGo, Left
<1>0. \A s \in Channels : Len(c[s]) \in Nat /\ Len(d[s]) \in Nat /\ off[s] \in Nat
  OBVIOUS
<1>1. \A s \in Channels : \A i \in 1..Len(d[s]) : i + off[s] \in 1..Len(c[s])
  BY <1>0
<1>1a. \A s \in Channels : \A i \in 1..Len(d[s]) :
         \E k \in 1..Len(c[s]) : k = i + off[s] /\ c[s][k] = d[s][i]
  BY <1>1
<1>2. QueuesApart(d)
  <2> SUFFICES ASSUME NEW s1 \in Channels, NEW s2 \in Channels,
                      NEW i \in 1..Len(d[s1]), NEW j \in 1..Len(d[s2]), d[s1][i] = d[s2][j]
               PROVE  s1 = s2 /\ i = j
    BY DEF QueuesApart
  <2>1. PICK k \in 1..Len(c[s1]) : k = i + off[s1] /\ c[s1][k] = d[s1][i]
    BY <1>1a
  <2>2. PICK l \in 1..Len(c[s2]) : l = j + off[s2] /\ c[s2][l] = d[s2][j]
    BY <1>1a
  <2>3. c[s1][k] = c[s2][l]
    BY <2>1, <2>2
  <2>4. s1 = s2 /\ k = l
    BY <2>3 DEF Placed, QueuesApart
  <2> QED BY <2>1, <2>2, <2>4, <1>0
<1>3. HandsApart(g)
  BY DEF Placed, HandsApart
<1>4. ApartFromHands(d, g)
  <2> SUFFICES ASSUME NEW s \in Channels, NEW i \in 1..Len(d[s]), NEW t \in Tasks
               PROVE  d[s][i] # g[t]
    BY DEF ApartFromHands
  <2>1. d[s][i] \in Requests
    OBVIOUS
  <2>2. d[s][i] # h[t]
    BY <1>1 DEF Placed, ApartFromHands
  <2> QED BY <2>1, <2>2, PipelineAssumption
<1>5. InsideIsPlaced(d, g, e)
  <2> SUFFICES ASSUME NEW r \in Requests
               PROVE  e[r] = "inside" <=> InQueue(d, r) \/ InHand(g, r)
    BY DEF InsideIsPlaced
  <2>0. r # None
    BY PipelineAssumption
  <2>1. ASSUME e[r] = "inside" PROVE InQueue(d, r) \/ InHand(g, r)
    <3>1. InQueue(c, r) \/ InHand(h, r)
      BY <2>1 DEF Placed, InsideIsPlaced
    <3>2. CASE InHand(h, r)
      BY <3>2, <2>1 DEF InHand
    <3>3. CASE InQueue(c, r)
      <4>0. PICK s \in Channels : \E i \in 1..Len(c[s]) : c[s][i] = r
        BY <3>3 DEF InQueue
      <4>1. PICK i \in 1..Len(c[s]) : c[s][i] = r
        BY <4>0
      <4>2. ~(i \in 1..off[s])
        BY <4>1, <2>1
      <4>3. i - off[s] \in 1..Len(d[s]) /\ (i - off[s]) + off[s] = i
        BY <4>2, <1>0
      <4>4. d[s][i - off[s]] = r
        BY <4>1, <4>3
      <4> QED BY <4>3, <4>4 DEF InQueue
    <3> QED BY <3>1, <3>2, <3>3
  <2>2. ASSUME InQueue(d, r) PROVE e[r] = "inside"
    <3>0. PICK s \in Channels : \E i \in 1..Len(d[s]) : d[s][i] = r
      BY <2>2 DEF InQueue
    <3>1. PICK i \in 1..Len(d[s]) : d[s][i] = r
      BY <3>0
    <3>2. i + off[s] \in 1..Len(c[s]) /\ c[s][i + off[s]] = r
      BY <3>1, <1>1
    <3>3. f[r] = "inside"
      BY <3>2 DEF Placed, InsideIsPlaced, InQueue
    <3>4. \A s2 \in Channels : \A j \in 1..off[s2] : c[s2][j] # r
      <4> SUFFICES ASSUME NEW s2 \in Channels, NEW j \in 1..off[s2], c[s2][j] = r
                   PROVE  FALSE
        OBVIOUS
      <4>1. j \in 1..Len(c[s2])
        BY <1>0
      <4>2. s2 = s /\ j = i + off[s]
        BY <4>1, <3>2 DEF Placed, QueuesApart
      <4> QED BY <4>2, <1>0
    <3>5. \A t \in Tasks : h[t] # r
      BY <3>2 DEF Placed, ApartFromHands
    <3> QED BY <3>3, <3>4, <3>5
  <2>3. ASSUME InHand(g, r) PROVE e[r] = "inside"
    <3>1. PICK t \in Tasks : g[t] = r
      BY <2>3 DEF InHand
    <3>2. h[t] = r
      BY <3>1, <2>0
    <3>3. f[r] = "inside"
      BY <3>2 DEF Placed, InsideIsPlaced, InHand
    <3>4. \A s \in Channels : \A i \in 1..off[s] : c[s][i] # r
      <4> SUFFICES ASSUME NEW s \in Channels, NEW i \in 1..off[s] PROVE c[s][i] # r
        OBVIOUS
      <4>1. i \in 1..Len(c[s])
        BY <1>0
      <4> QED BY <4>1, <3>2 DEF Placed, ApartFromHands
    <3>5. \A u \in Tasks : h[u] = r => g[u] = r
      BY <3>1, <3>2, <2>0 DEF Placed, HandsApart
    <3> QED BY <3>3, <3>4, <3>5
  <2> QED BY <2>1, <2>2, <2>3
<1> QED BY <1>2, <1>3, <1>4, <1>5 DEF Placed

\* Task t takes the first request of queue s in hand.
LEMMA Taking ==
    ASSUME NEW c \in Queues, NEW h \in Grips, NEW f,
           NEW s \in Channels, NEW t \in Tasks,
           Placed(c, h, f), c[s] # << >>, h[t] = None
    PROVE  Placed([c EXCEPT ![s] = Tail(@)], [h EXCEPT ![t] = Head(c[s])], f)
<1> DEFINE d == [c EXCEPT ![s] = Tail(@)]
           g == [h EXCEPT ![t] = Head(c[s])]
           x == Head(c[s])
<1> USE DEF Queues, Grips
<1>0. Len(c[s]) \in Nat /\ 1 \in 1..Len(c[s]) /\ x = c[s][1] /\ x \in Requests
  OBVIOUS
<1>1. \A s1 \in Channels \ {s} : d[s1] = c[s1]
  OBVIOUS
<1>2. /\ d[s] \in Seq(Requests) /\ Len(d[s]) = Len(c[s]) - 1
      /\ \A i \in 1..Len(d[s]) : i + 1 \in 1..Len(c[s]) /\ d[s][i] = c[s][i + 1]
  OBVIOUS
<1>3. g[t] = x /\ \A u \in Tasks \ {t} : g[u] = h[u]
  OBVIOUS
<1> HIDE DEF d, g, x
<1>4. QueuesApart(d)
  <2> SUFFICES ASSUME NEW s1 \in Channels, NEW s2 \in Channels,
                      NEW i \in 1..Len(d[s1]), NEW j \in 1..Len(d[s2]), d[s1][i] = d[s2][j]
               PROVE  s1 = s2 /\ i = j
    BY DEF QueuesApart
  <2>1. PICK k \in 1..Len(c[s1]) : c[s1][k] = d[s1][i] /\ (s1 = s => k = i + 1)
                                  /\ (s1 # s => k = i)
    BY <1>1, <1>2
  <2>2. PICK l \in 1..Len(c[s2]) : c[s2][l] = d[s2][j] /\ (s2 = s => l = j + 1)
                                  /\ (s2 # s => l = j)
    BY <1>1, <1>2
  <2>3. c[s1][k] = c[s2][l]
    BY <2>1, <2>2
  <2>4. s1 = s2 /\ k = l
    BY <2>3 DEF Placed, QueuesApart
  <2>5. i \in Nat /\ j \in Nat
    OBVIOUS
  <2> QED BY <2>1, <2>2, <2>4, <2>5
<1>5. \A s1 \in Channels : \A i \in 1..Len(d[s1]) : d[s1][i] # x
  <2> SUFFICES ASSUME NEW s1 \in Channels, NEW i \in 1..Len(d[s1]) PROVE d[s1][i] # x
    OBVIOUS
  <2>1. CASE s1 # s
    BY <2>1, <1>0, <1>1 DEF Placed, QueuesApart
  <2>2. CASE s1 = s
    <3>1. i + 1 # 1
      BY <2>2, <1>2
    <3> QED BY <3>1, <2>2, <1>0, <1>2 DEF Placed, QueuesApart
  <2> QED BY <2>1, <2>2
<1>6. \A u \in Tasks : h[u] # x
  BY <1>0 DEF Placed, ApartFromHands
<1>7. HandsApart(g)
  BY <1>3, <1>6 DEF Placed, HandsApart
<1>8. ApartFromHands(d, g)
  <2> SUFFICES ASSUME NEW s1 \in Channels, NEW i \in 1..Len(d[s1]), NEW u \in Tasks
               PROVE  d[s1][i] # g[u]
    BY DEF ApartFromHands
  <2>1. CASE u = t
    BY <2>1, <1>3, <1>5
  <2>2. CASE u # t /\ s1 # s
    BY <2>2, <1>1, <1>3 DEF Placed, ApartFromHands
  <2>3. CASE u # t /\ s1 = s
    BY <2>3, <1>2, <1>3 DEF Placed, ApartFromHands
  <2> QED BY <2>1, <2>2, <2>3
<1>9. InsideIsPlaced(d, g, f)
  <2> SUFFICES ASSUME NEW r \in Requests
               PROVE  InQueue(c, r) \/ InHand(h, r) <=> InQueue(d, r) \/ InHand(g, r)
    BY DEF Placed, InsideIsPlaced
  <2>0. r # None
    BY PipelineAssumption
  <2>1. ASSUME InHand(h, r) PROVE InHand(g, r)
    BY <2>1, <2>0, <1>3 DEF InHand
  <2>2. ASSUME InQueue(c, r) PROVE InQueue(d, r) \/ InHand(g, r)
    <3>0. PICK s1 \in Channels : \E i \in 1..Len(c[s1]) : c[s1][i] = r
      BY <2>2 DEF InQueue
    <3>1. PICK i \in 1..Len(c[s1]) : c[s1][i] = r
      BY <3>0
    <3>2. CASE s1 # s
      BY <3>1, <3>2, <1>1 DEF InQueue
    <3>3. CASE s1 = s /\ i = 1
      BY <3>1, <3>3, <1>0, <1>3 DEF InHand
    <3>4. CASE s1 = s /\ i # 1
      <4>1. i - 1 \in 1..Len(d[s]) /\ (i - 1) + 1 = i
        BY <3>4, <1>0, <1>2
      <4>2. d[s][i - 1] = r
        BY <4>1, <3>1, <3>4, <1>2
      <4> QED BY <4>1, <4>2 DEF InQueue
    <3> QED BY <3>2, <3>3, <3>4
  <2>3. ASSUME InHand(g, r) PROVE InQueue(c, r) \/ InHand(h, r)
    BY <2>3, <1>0, <1>3 DEF InHand, InQueue
  <2>4. ASSUME InQueue(d, r) PROVE InQueue(c, r)
    <3>0. PICK s1 \in Channels : \E i \in 1..Len(d[s1]) : d[s1][i] = r
      BY <2>4 DEF InQueue
    <3>1. PICK i \in 1..Len(d[s1]) : d[s1][i] = r
      BY <3>0
    <3> QED BY <3>1, <1>1, <1>2 DEF InQueue
  <2> QED BY <2>1, <2>2, <2>3, <2>4
<1> QED BY <1>4, <1>7, <1>8, <1>9 DEF Placed, d, g, x

\* A request that is nowhere goes to the end of queue s.
LEMMA Appending ==
    ASSUME NEW c \in Queues, NEW h \in Grips, NEW f, NEW e,
           NEW s \in Channels, NEW x \in Requests,
           Placed(c, h, f), ~InQueue(c, x), ~InHand(h, x),
           e[x] = "inside",
           \A r \in Requests \ {x} : e[r] = "inside" <=> f[r] = "inside"
    PROVE  Placed([c EXCEPT ![s] = Append(@, x)], h, e)
<1> DEFINE d == [c EXCEPT ![s] = Append(@, x)]
<1> USE DEF Queues, Grips
<1>0. Len(c[s]) \in Nat
  OBVIOUS
<1>1. \A s1 \in Channels \ {s} : d[s1] = c[s1]
  OBVIOUS
<1>2. /\ d[s] \in Seq(Requests) /\ Len(d[s]) = Len(c[s]) + 1
      /\ \A i \in 1..Len(c[s]) : i \in 1..Len(d[s]) /\ d[s][i] = c[s][i]
      /\ Len(c[s]) + 1 \in 1..Len(d[s]) /\ d[s][Len(c[s]) + 1] = x
      /\ \A i \in 1..Len(d[s]) : i \in 1..Len(c[s]) \/ i = Len(c[s]) + 1
  OBVIOUS
<1> HIDE DEF d
<1>3. \A s1 \in Channels : \A i \in 1..Len(c[s1]) : c[s1][i] # x
  BY DEF InQueue
<1>4. QueuesApart(d)
  <2> SUFFICES ASSUME NEW s1 \in Channels, NEW s2 \in Channels,
                      NEW i \in 1..Len(d[s1]), NEW j \in 1..Len(d[s2]), d[s1][i] = d[s2][j]
               PROVE  s1 = s2 /\ i = j
    BY DEF QueuesApart
  <2>1. CASE s1 # s /\ s2 # s
    BY <2>1, <1>1 DEF Placed, QueuesApart
  <2>2. CASE s1 = s /\ s2 # s
    BY <2>2, <1>1, <1>2, <1>3 DEF Placed, QueuesApart
  <2>3. CASE s1 # s /\ s2 = s
    BY <2>3, <1>1, <1>2, <1>3 DEF Placed, QueuesApart
  <2>4. CASE s1 = s /\ s2 = s
    BY <2>4, <1>2, <1>3 DEF Placed, QueuesApart
  <2> QED BY <2>1, <2>2, <2>3, <2>4
<1>5. ApartFromHands(d, h)
  <2> SUFFICES ASSUME NEW s1 \in Channels, NEW i \in 1..Len(d[s1]), NEW u \in Tasks
               PROVE  d[s1][i] # h[u]
    BY DEF ApartFromHands
  <2>1. CASE s1 # s
    BY <2>1, <1>1 DEF Placed, ApartFromHands
  <2>2. CASE s1 = s /\ i = Len(c[s]) + 1
    BY <2>2, <1>2 DEF InHand
  <2>3. CASE s1 = s /\ i # Len(c[s]) + 1
    BY <2>3, <1>2 DEF Placed, ApartFromHands
  <2> QED BY <2>1, <2>2, <2>3
<1>6. InsideIsPlaced(d, h, e)
  <2> SUFFICES ASSUME NEW r \in Requests
               PROVE  e[r] = "inside" <=> InQueue(d, r) \/ InHand(h, r)
    BY DEF InsideIsPlaced
  <2>1. CASE r = x
    BY <2>1, <1>2 DEF InQueue
  <2>2. CASE r # x
    <3>1. InQueue(d, r) <=> InQueue(c, r)
      BY <2>2, <1>1, <1>2 DEF InQueue
    <3> QED BY <2>2, <3>1 DEF Placed, InsideIsPlaced
  <2> QED BY <2>1, <2>2
<1> QED BY <1>4, <1>5, <1>6 DEF Placed, d

\* Task t drops the request it holds.
LEMMA Dropping ==
    ASSUME NEW c \in Queues, NEW h \in Grips, NEW f, NEW e, NEW t \in Tasks,
           Placed(c, h, f), h[t] # None,
           \A r \in Requests : e[r] = "inside" <=> f[r] = "inside" /\ r # h[t]
    PROVE  Placed(c, [h EXCEPT ![t] = None], e)
<1> DEFINE g == [h EXCEPT ![t] = None]
           off == [s \in Channels |-> 0]
<1>1. off \in [Channels -> Nat] /\ g \in Grips
  BY DEF Grips
<1>2. \A s \in Channels : Len(c[s]) \in Nat /\ Len(c[s]) + off[s] = Len(c[s])
  BY DEF Queues
<1>3. \A s \in Channels : \A i \in 1..Len(c[s]) : c[s][i] = c[s][i + off[s]]
  BY <1>2
<1>4. \A u \in Tasks : g[u] \in {h[u], None}
  BY DEF Grips
<1>5. \A r \in Requests : (\A u \in Tasks : h[u] = r => g[u] = r) <=> r # h[t]
  <2> SUFFICES ASSUME NEW r \in Requests
               PROVE  (\A u \in Tasks : h[u] = r => g[u] = r) <=> r # h[t]
    OBVIOUS
  <2>1. r # None
    BY PipelineAssumption
  <2>2. g[t] = None /\ \A u \in Tasks \ {t} : g[u] = h[u]
    BY DEF Grips
  <2> QED BY <2>1, <2>2
<1>6. \A r \in Requests : \A s \in Channels : \A i \in 1..off[s] : c[s][i] # r
  OBVIOUS
<1> HIDE DEF g, off
<1>7. Shifted(c, c, off) /\ LetGo(h, g) /\ Left(c, h, g, off, f, e)
  BY <1>2, <1>3, <1>4, <1>5, <1>6 DEF Shifted, LetGo, Left
<1>8. Placed(c, g, e)
  BY <1>1, <1>7, Removal
<1> QED BY <1>8 DEF g

\* The first request of queue s leaves.
LEMMA Heading ==
    ASSUME NEW c \in Queues, NEW h \in Grips, NEW f, NEW e, NEW s \in Channels,
           Placed(c, h, f), c[s] # << >>,
           \A r \in Requests : e[r] = "inside" <=> f[r] = "inside" /\ r # Head(c[s])
    PROVE  Placed([c EXCEPT ![s] = Tail(@)], h, e)
<1> DEFINE d == [c EXCEPT ![s] = Tail(@)]
           off == [s1 \in Channels |-> IF s1 = s THEN 1 ELSE 0]
<1>0. c[s] \in Seq(Requests) /\ \A s1 \in Channels : Len(c[s1]) \in Nat
  BY DEF Queues
<1>1. off \in [Channels -> Nat] /\ d \in Queues
  BY <1>0 DEF Queues
<1>a. d[s] = Tail(c[s]) /\ off[s] = 1 /\ \A s1 \in Channels \ {s} : d[s1] = c[s1] /\ off[s1] = 0
  BY DEF Queues
<1>b. Len(Tail(c[s])) = Len(c[s]) - 1
      /\ \A i \in 1..Len(Tail(c[s])) : Tail(c[s])[i] = c[s][i + 1]
  BY <1>0
<1> HIDE DEF d, off
<1>2. \A s1 \in Channels : Len(d[s1]) + off[s1] = Len(c[s1])
  <2> SUFFICES ASSUME NEW s1 \in Channels PROVE Len(d[s1]) + off[s1] = Len(c[s1])
    OBVIOUS
  <2>1. CASE s1 = s
    <3>1. Len(c[s]) \in Nat /\ Len(d[s]) = Len(c[s]) - 1 /\ off[s] = 1
      BY <1>0, <1>a, <1>b
    <3> QED BY <3>1, <2>1
  <2>2. CASE s1 # s
    <3>1. Len(c[s1]) \in Nat /\ Len(d[s1]) = Len(c[s1]) /\ off[s1] = 0
      BY <1>0, <1>a, <2>2
    <3> QED BY <3>1
  <2> QED BY <2>1, <2>2
<1>3. \A s1 \in Channels : \A i \in 1..Len(d[s1]) : d[s1][i] = c[s1][i + off[s1]]
  <2> SUFFICES ASSUME NEW s1 \in Channels, NEW i \in 1..Len(d[s1])
               PROVE  d[s1][i] = c[s1][i + off[s1]]
    OBVIOUS
  <2>1. CASE s1 = s
    BY <2>1, <1>a, <1>b
  <2>2. CASE s1 # s
    <3>1. i + 0 = i
      OBVIOUS
    <3> QED BY <3>1, <2>2, <1>a
  <2> QED BY <2>1, <2>2
<1> DEFINE g == h
<1>4. g \in Grips /\ \A u \in Tasks : g[u] \in {h[u], None}
  OBVIOUS
<1>5. \A r \in Requests :
        (\A s1 \in Channels : \A i \in 1..off[s1] : c[s1][i] # r) <=> r # Head(c[s])
  <2> SUFFICES ASSUME NEW r \in Requests
               PROVE  (\A s1 \in Channels : \A i \in 1..off[s1] : c[s1][i] # r)
                        <=> r # Head(c[s])
    OBVIOUS
  <2>1. Head(c[s]) = c[s][1] /\ 1 \in 1..off[s]
    BY <1>0, <1>a
  <2>2. \A s1 \in Channels : \A i \in 1..off[s1] : s1 = s /\ i = 1
    BY <1>a
  <2> QED BY <2>1, <2>2
<1>6. Left(c, h, g, off, f, e)
  BY <1>5 DEF Left
<1>7. Shifted(c, d, off) /\ LetGo(h, g)
  BY <1>2, <1>3, <1>4 DEF Shifted, LetGo
<1> HIDE DEF g
<1>8. Placed(d, g, e)
  BY <1>1, <1>4, <1>6, <1>7, Removal
<1> QED BY <1>8 DEF d, g

\* Queue s is dropped with all its requests.
LEMMA Emptying ==
    ASSUME NEW c \in Queues, NEW h \in Grips, NEW f, NEW e, NEW s \in Channels,
           Placed(c, h, f),
           \A r \in Requests : e[r] = "inside" <=> f[r] = "inside" /\ r \notin Range(c[s])
    PROVE  Placed([c EXCEPT ![s] = << >>], h, e)
<1> DEFINE d == [c EXCEPT ![s] = << >>]
           off == [s1 \in Channels |-> IF s1 = s THEN Len(c[s]) ELSE 0]
<1>0. c[s] \in Seq(Requests) /\ \A s1 \in Channels : Len(c[s1]) \in Nat
  BY DEF Queues
<1>1. off \in [Channels -> Nat] /\ d \in Queues
  BY <1>0 DEF Queues
<1>a. d[s] = << >> /\ off[s] = Len(c[s])
      /\ \A s1 \in Channels \ {s} : d[s1] = c[s1] /\ off[s1] = 0
  BY DEF Queues
<1> HIDE DEF d, off
<1>2. \A s1 \in Channels : Len(d[s1]) + off[s1] = Len(c[s1])
  BY <1>0, <1>a
<1>3. \A s1 \in Channels : \A i \in 1..Len(d[s1]) : d[s1][i] = c[s1][i + off[s1]]
  <2> SUFFICES ASSUME NEW s1 \in Channels, NEW i \in 1..Len(d[s1])
               PROVE  d[s1][i] = c[s1][i + off[s1]]
    OBVIOUS
  <2>1. s1 # s
    BY <1>a
  <2>2. i + 0 = i
    OBVIOUS
  <2> QED BY <2>1, <2>2, <1>a
<1> DEFINE g == h
<1>4. g \in Grips /\ \A u \in Tasks : g[u] \in {h[u], None}
  OBVIOUS
<1>5. \A r \in Requests :
        (\A s1 \in Channels : \A i \in 1..off[s1] : c[s1][i] # r) <=> r \notin Range(c[s])
  <2> SUFFICES ASSUME NEW r \in Requests
               PROVE  (\A s1 \in Channels : \A i \in 1..off[s1] : c[s1][i] # r)
                        <=> r \notin Range(c[s])
    OBVIOUS
  <2>1. Range(c[s]) = {c[s][i] : i \in 1..Len(c[s])}
    BY <1>0 DEF Range
  <2>2. \A s1 \in Channels : \A i \in 1..off[s1] : s1 = s
    BY <1>a
  <2> QED BY <2>1, <2>2, <1>a
<1>6. Left(c, h, g, off, f, e)
  BY <1>5 DEF Left
<1>7. Shifted(c, d, off) /\ LetGo(h, g)
  BY <1>2, <1>3, <1>4 DEF Shifted, LetGo
<1> HIDE DEF g
<1>8. Placed(d, g, e)
  BY <1>1, <1>4, <1>6, <1>7, Removal
<1> QED BY <1>8 DEF d, g

\* Task t moves the request it holds to the end of queue s.
LEMMA Putting ==
    ASSUME NEW c \in Queues, NEW h \in Grips, NEW f, NEW s \in Channels, NEW t \in Tasks,
           Placed(c, h, f), h[t] # None
    PROVE  Placed([c EXCEPT ![s] = Append(@, h[t])], [h EXCEPT ![t] = None], f)
<1> DEFINE g == [h EXCEPT ![t] = None]
           e == [r \in Requests |-> IF r = h[t] THEN "out" ELSE f[r]]
<1>0. h[t] \in Requests /\ g \in Grips
  BY DEF Grips
<1>1. \A r \in Requests : e[r] = "inside" <=> f[r] = "inside" /\ r # h[t]
  OBVIOUS
<1>2. f[h[t]] = "inside"
  BY <1>0 DEF Placed, InsideIsPlaced, InHand
<1>3. e[h[t]] # "inside"
  BY <1>0
<1> HIDE DEF e
<1>4. Placed(c, g, e)
  BY <1>1, Dropping
<1>5. ~InQueue(c, h[t]) /\ ~InHand(g, h[t])
  BY <1>0, <1>3, <1>4 DEF Placed, InsideIsPlaced
<1>6. \A r \in Requests \ {h[t]} : f[r] = "inside" <=> e[r] = "inside"
  BY <1>1
<1> HIDE DEF g
<1>7. Placed([c EXCEPT ![s] = Append(@, h[t])], g, f)
  BY <1>0, <1>2, <1>4, <1>5, <1>6, Appending
<1> QED BY <1>7 DEF g

-----------------------------------------------------------------------------
\* What the steps do to the dead-letter ring.

LEMMA Pushing ==
    ASSUME NEW q \in Seq(Requests), NEW f, NEW e, NEW x \in Requests,
           Ring(q, f), f[x] # "dead",
           e = [r \in Requests |-> IF r = x THEN "dead"
                                   ELSE IF r \in EvictedFrom(q) THEN "evicted" ELSE f[r]]
    PROVE  Ring(RingPushed(q, x), e) /\ RingPushed(q, x) \in Seq(Requests)
<1> DEFINE p == RingPushed(q, x)
           full == Len(q) >= DlqCap
<1>0. DlqCap \in Nat \ {0} /\ Len(q) \in Nat /\ Len(q) <= DlqCap
  BY PipelineAssumption DEF Ring
<1>1. \A i \in 1..Len(q) : q[i] \in Requests /\ q[i] # x
  BY DEF Ring
<1>2. CASE full
  <2>0. Len(q) = DlqCap /\ q # << >> /\ 1 \in 1..Len(q) /\ Head(q) = q[1]
    BY <1>0, <1>2
  <2>1. p = Append(Tail(q), x) /\ EvictedFrom(q) = {q[1]}
    BY <1>2, <2>0 DEF RingPushed, EvictedFrom
  <2>2. /\ p \in Seq(Requests) /\ Len(p) = Len(q) /\ p[Len(q)] = x
        /\ \A i \in 1..(Len(q) - 1) : i + 1 \in 1..Len(q) /\ p[i] = q[i + 1]
    BY <2>0, <2>1
  <2> HIDE DEF p
  <2>3. \A i \in 1..Len(p) : i \in 1..(Len(q) - 1) \/ i = Len(q)
    BY <2>2, <1>0
  <2>4. \A i, j \in 1..Len(p) : p[i] = p[j] => i = j
    <3> SUFFICES ASSUME NEW i \in 1..Len(p), NEW j \in 1..Len(p), p[i] = p[j] PROVE i = j
      OBVIOUS
    <3>1. CASE i = Len(q) /\ j = Len(q)
      BY <3>1
    <3>2. CASE i = Len(q) /\ j \in 1..(Len(q) - 1)
      BY <3>2, <2>2, <1>1
    <3>3. CASE i \in 1..(Len(q) - 1) /\ j = Len(q)
      BY <3>3, <2>2, <1>1
    <3>4. CASE i \in 1..(Len(q) - 1) /\ j \in 1..(Len(q) - 1)
      <4>1. q[i + 1] = q[j + 1] /\ i + 1 \in 1..Len(q) /\ j + 1 \in 1..Len(q)
        BY <3>4, <2>2
      <4>2. i + 1 = j + 1
        BY <4>1 DEF Ring
      <4> QED BY <4>2
    <3> QED BY <2>3, <3>1, <3>2, <3>3, <3>4
  <2>5. \A r \in Requests : e[r] = "dead" <=> \E i \in 1..Len(p) : p[i] = r
    <3> SUFFICES ASSUME NEW r \in Requests
                 PROVE  e[r] = "dead" <=> \E i \in 1..Len(p) : p[i] = r
      OBVIOUS
    <3>1. CASE r = x
      BY <3>1, <2>0, <2>2
    <3>2. CASE r # x /\ r = q[1]
      <4>1. e[r] # "dead"
        BY <3>2, <2>1
      <4>2. \A i \in 1..(Len(q) - 1) : q[i + 1] # q[1]
        BY <2>0, <2>2 DEF Ring
      <4> QED BY <4>1, <4>2, <3>2, <2>2, <2>3
    <3>3. CASE r # x /\ r # q[1]
      <4>1. e[r] = f[r]
        BY <3>3, <2>1
      <4>2. ASSUME NEW i \in 1..Len(q), q[i] = r PROVE \E k \in 1..Len(p) : p[k] = r
        <5>1. i - 1 \in 1..(Len(q) - 1) /\ (i - 1) + 1 = i /\ i - 1 \in 1..Len(p)
          BY <4>2, <3>3, <1>0, <2>2
        <5>2. p[i - 1] = r
          BY <5>1, <4>2, <2>2
        <5> QED BY <5>1, <5>2
      <4>3. ASSUME NEW i \in 1..Len(p), p[i] = r PROVE \E k \in 1..Len(q) : q[k] = r
        BY <4>3, <3>3, <2>2, <2>3
      <4> QED BY <4>1, <4>2, <4>3 DEF Ring
    <3> QED BY <3>1, <3>2, <3>3
  <2> QED BY <2>0, <2>2, <2>4, <2>5 DEF Ring, p
<1>3. CASE ~full
  <2>1. p = Append(q, x) /\ EvictedFrom(q) = {}
    BY <1>3 DEF RingPushed, EvictedFrom
  <2>2. /\ p \in Seq(Requests) /\ Len(p) = Len(q) + 1 /\ p[Len(q) + 1] = x
        /\ \A i \in 1..Len(q) : i \in 1..Len(p) /\ p[i] = q[i]
        /\ Len(p) \in 1..Len(p) /\ Len(p) <= DlqCap
    BY <1>0, <1>3, <2>1
  <2> HIDE DEF p
  <2>3. \A i \in 1..Len(p) : i \in 1..Len(q) \/ i = Len(q) + 1
    BY <2>2, <1>0
  <2>4. \A i, j \in 1..Len(p) : p[i] = p[j] => i = j
    BY <2>2, <2>3, <1>1 DEF Ring
  <2>5. \A r \in Requests : e[r] = "dead" <=> \E i \in 1..Len(p) : p[i] = r
    <3> SUFFICES ASSUME NEW r \in Requests
                 PROVE  e[r] = "dead" <=> \E i \in 1..Len(p) : p[i] = r
      OBVIOUS
    <3>1. CASE r = x
      BY <3>1, <2>2
    <3>2. CASE r # x
      <4>1. e[r] = f[r]
        BY <3>2, <2>1
      <4> QED BY <4>1, <3>2, <2>2, <2>3 DEF Ring
    <3> QED BY <3>1, <3>2
  <2> QED BY <2>2, <2>4, <2>5 DEF Ring, p
<1> QED BY <1>2, <1>3

-----------------------------------------------------------------------------
\* The invariant, action by action.

LEMMA StagesOfTasks ==
    /\ \A t \in Tasks : StageOf(t) \in Stages /\ Target(t) \in Channels
    /\ \A t \in Single : StageOf(t) = t
    /\ \A w \in Workers : StageOf(w) = "inference"
    /\ \A t \in Tasks : Waiting(t) \in {"locking", "idle"}
BY PipelineAssumption
   DEF StageOf, Target, Following, Tasks, Single, Stages, Channels, Waiting

LEMMA FateNames ==
    {"new", "inside", "delivered", "dead", "evicted", "drained",
     "expired", "discarded", "abandoned"} = L!Fates
BY DEF L!Fates, L!Lost

\* Whatever is in a queue or in a hand is inside.
LEMMA InsideFacts ==
    ASSUME Inv
    PROVE  /\ \A s \in Channels : chan[s] # << >> =>
                 Head(chan[s]) \in Requests /\ fate[Head(chan[s])] = "inside"
           /\ \A s \in Channels : \A r \in Range(chan[s]) :
                 r \in Requests /\ fate[r] = "inside"
           /\ \A t \in Tasks : held[t] # None =>
                 held[t] \in Requests /\ fate[held[t]] = "inside"
<1> USE DEF Inv, Types
<1>1. ASSUME NEW s \in Channels, NEW i \in 1..Len(chan[s])
      PROVE  chan[s][i] \in Requests /\ fate[chan[s][i]] = "inside"
  BY <1>1 DEF Placed, InsideIsPlaced, InQueue
<1>2. ASSUME NEW s \in Channels, chan[s] # << >>
      PROVE  Head(chan[s]) = chan[s][1] /\ 1 \in 1..Len(chan[s])
  BY <1>2
<1>3. ASSUME NEW s \in Channels, NEW r \in Range(chan[s])
      PROVE  r \in Requests /\ fate[r] = "inside"
  <2>1. DOMAIN chan[s] = 1..Len(chan[s])
    OBVIOUS
  <2> QED BY <2>1, <1>1, <1>3 DEF Range
<1>4. ASSUME NEW t \in Tasks, held[t] # None
      PROVE  held[t] \in Requests /\ fate[held[t]] = "inside"
  BY <1>4 DEF Placed, InsideIsPlaced, InHand
<1> QED BY <1>1, <1>2, <1>3, <1>4

LEMMA DeadLettering ==
    ASSUME Inv, NEW x \in Requests, fate[x] = "inside", DeadLetter(x)
    PROVE  /\ Ring(dlq, fate)' /\ dlq' \in Seq(Requests)
           /\ fate' \in [Requests -> L!Fates]
           /\ \A r \in Requests : fate'[r] = "inside" <=> fate[r] = "inside" /\ r # x
           /\ L!Next
<1> USE DEF Inv, Types
<1>1. Ring(dlq, fate)' /\ dlq' \in Seq(Requests)
  BY Pushing DEF DeadLetter
<1>2. EvictedFrom(dlq) \subseteq {r \in Requests : fate[r] = "dead"}
  <2>1. CASE Len(dlq) >= DlqCap
    <3>1. 1 \in 1..Len(dlq) /\ Head(dlq) = dlq[1] /\ dlq[1] \in Requests
      BY <2>1, PipelineAssumption
    <3> QED BY <2>1, <3>1 DEF EvictedFrom, Ring
  <2>2. CASE ~(Len(dlq) >= DlqCap)
    BY <2>2 DEF EvictedFrom
  <2> QED BY <2>1, <2>2
<1>3. fate' \in [Requests -> L!Fates]
  BY FateNames DEF DeadLetter
<1>4. \A r \in Requests : fate'[r] = "inside" <=> fate[r] = "inside" /\ r # x
  BY <1>2 DEF DeadLetter
<1>5. L!DeadLetter(x, EvictedFrom(dlq))
  BY <1>2 DEF DeadLetter, L!DeadLetter
<1>6. L!Next
  BY <1>5, <1>2 DEF L!Next
<1> QED BY <1>1, <1>3, <1>4, <1>6

\* Requests that are inside leave in another way.
LEMMA Departing ==
    ASSUME Inv, NEW S \in SUBSET Requests, \A r \in S : fate[r] = "inside",
           NEW v \in {"delivered", "expired", "discarded", "abandoned"},
           v = "delivered" => \E r \in Requests : S = {r},
           fate' = WithFate(S, v)
    PROVE  /\ Ring(dlq, fate')
           /\ fate' \in [Requests -> L!Fates]
           /\ \A r \in Requests : fate'[r] = "inside" <=> fate[r] = "inside" /\ r \notin S
           /\ L!Next
<1> USE DEF Inv, Types
<1>1. \A r \in Requests : fate'[r] = IF r \in S THEN v ELSE fate[r]
  BY DEF WithFate
<1>2. fate' \in [Requests -> L!Fates]
  BY FateNames DEF WithFate
<1>3. \A r \in Requests : fate'[r] = "dead" <=> fate[r] = "dead"
  BY <1>1
<1>4. Ring(dlq, fate')
  BY <1>3 DEF Ring
<1>5. L!Move(S, "inside", v)
  BY DEF L!Move, WithFate
<1>6. L!Next
  <2>1. CASE v = "delivered"
    BY <2>1, <1>5 DEF L!Next, L!Deliver
  <2>2. CASE v # "delivered"
    BY <2>2, <1>5 DEF L!Next, L!Lose, L!Lost
  <2> QED BY <2>1, <2>2
<1> QED BY <1>1, <1>2, <1>4, <1>6

\* Task t lets go of what it holds, if anything, and waits again.
LEMMA Releasing ==
    ASSUME Inv, NEW t \in Tasks, Release(t)
    PROVE  /\ at' \in [Tasks -> Phases] /\ held' \in [Tasks -> Requests \cup {None}]
           /\ Hands'
BY StagesOfTasks DEF Inv, Types, Release, Hands, Phases

LEMMA Stopping ==
    ASSUME Inv, NEW t \in Tasks, NEW Mine,
           Mine = IF held[t] = None THEN {} ELSE {held[t]},
           Stop(t, Mine), UNCHANGED dlq
    PROVE  Inv' /\ L!Next
<1> USE DEF Inv, Types
<1> DEFINE S == Mine \cup QueuedFor(t)
           e == [r \in Requests |-> IF r \in Mine THEN "out" ELSE fate[r]]
           g == [held EXCEPT ![t] = None]
<1>1. StageOf(t) \in Channels
  BY StagesOfTasks DEF Channels
<1>2. Mine \subseteq Requests /\ (\A r \in Mine : fate[r] = "inside")
  BY InsideFacts
<1>3. QueuedFor(t) \subseteq Requests /\ \A r \in QueuedFor(t) : fate[r] = "inside"
  BY <1>1, InsideFacts DEF QueuedFor
<1>4. /\ Ring(dlq, fate') /\ fate' \in [Requests -> L!Fates]
      /\ \A r \in Requests : fate'[r] = "inside" <=> fate[r] = "inside" /\ r \notin S
      /\ L!Next
  <2>1. fate' = WithFate(S, "abandoned")
    BY DEF Stop
  <2> HIDE DEF S
  <2>2. S \in SUBSET Requests /\ \A r \in S : fate[r] = "inside"
    BY <1>2, <1>3 DEF S
  <2> QED BY <2>1, <2>2, Departing
<1>5. held' = g /\ g \in Grips /\ at' \in [Tasks -> Phases] /\ Hands'
  BY DEF Stop, Hands, Phases, Grips
<1>6. Placed(chan, g, e)
  <2>1. CASE held[t] = None
    <3>1. g = held /\ e = fate
      BY <2>1
    <3> QED BY <3>1
  <2>2. CASE held[t] # None
    <3>1. \A r \in Requests : e[r] = "inside" <=> fate[r] = "inside" /\ r # held[t]
      BY <2>2
    <3>2. chan \in Queues /\ held \in Grips
      BY DEF Queues, Grips
    <3> HIDE DEF e
    <3> QED BY <2>2, <3>1, <3>2, Dropping
  <2> QED BY <2>1, <2>2
<1>7. \A r \in Requests : fate'[r] = "inside" <=> e[r] = "inside" /\ r \notin QueuedFor(t)
  BY <1>4
<1> HIDE DEF e, g
<1>8. Placed(chan', g, fate') /\ chan' \in Queues
  <2>1. chan \in Queues
    BY DEF Queues
  <2>2. CASE LastOf(t)
    <3>1. chan' = [chan EXCEPT ![StageOf(t)] = << >>]
      BY <2>2 DEF Stop
    <3>2. chan' \in Queues
      BY <1>1, <3>1 DEF Queues
    <3>3. \A r \in Requests : fate'[r] = "inside" <=>
                              e[r] = "inside" /\ r \notin Range(chan[StageOf(t)])
      BY <2>2, <1>7 DEF QueuedFor
    <3>4. Placed([chan EXCEPT ![StageOf(t)] = << >>], g, fate')
      BY <1>1, <1>5, <1>6, <2>1, <3>3, Emptying
    <3> QED BY <3>1, <3>2, <3>4
  <2>3. CASE ~LastOf(t)
    <3>1. chan' = chan
      BY <2>3 DEF Stop
    <3>2. \A r \in Requests : fate'[r] = "inside" <=> e[r] = "inside"
      BY <2>3, <1>7 DEF QueuedFor
    <3> QED BY <3>1, <3>2, <1>6, <2>1 DEF Placed, InsideIsPlaced
  <2> QED BY <2>2, <2>3
<1>9. Placed(chan, held, fate)'
  BY <1>5, <1>8
<1> QED BY <1>4, <1>5, <1>8, <1>9 DEF Queues, Grips

LEMMA InitInv == Init => Inv
<1> SUFFICES ASSUME Init PROVE Inv
  OBVIOUS
<1>1. Types
  BY StagesOfTasks, FateNames DEF Init, Types, Phases
<1>2. Hands
  BY StagesOfTasks DEF Init, Hands
<1>3. Placed(chan, held, fate)
  BY PipelineAssumption DEF Init, Placed, QueuesApart, HandsApart, ApartFromHands,
                            InsideIsPlaced, InQueue, InHand
<1>4. Ring(dlq, fate)
  BY PipelineAssumption DEF Init, Ring
<1> QED BY <1>1, <1>2, <1>3, <1>4 DEF Inv

\* The promise of a step: the invariant, and a step of Ledger or none.
Kept == Inv' /\ [L!Next]_fate

\* Steps that leave queues, hands, ring and fates alone.
LEMMA Quiet ==
    ASSUME Inv, UNCHANGED <<chan, held, dlq, fate>>,
           at' \in [Tasks -> Phases], Hands'
    PROVE  Kept
BY DEF Inv, Types, Kept

LEMMA StageSteps == ASSUME Inv, NEW t \in Tasks, Step(t) PROVE Kept
<1> USE DEF Inv, Types
<1>0. /\ chan \in Queues /\ held \in Grips
      /\ StageOf(t) \in Channels /\ Target(t) \in Channels
  BY StagesOfTasks DEF Queues, Grips, Channels
<1>1. CASE Receive(t)
  <2>1. /\ chan' = [chan EXCEPT ![StageOf(t)] = Tail(@)]
        /\ held' = [held EXCEPT ![t] = Head(chan[StageOf(t)])]
        /\ at' = [at EXCEPT ![t] = "busy"]
        /\ UNCHANGED <<dlq, fate>> /\ at[t] = "idle" /\ chan[StageOf(t)] # << >>
    BY <1>1 DEF Receive, CanReceive, Incoming, Rest
  <2>2. held[t] = None
    BY <2>1 DEF Hands
  <2>3. Placed(chan, held, fate)'
    BY <1>0, <2>1, <2>2, Taking
  <2>4. Head(chan[StageOf(t)]) \in Requests /\ Tail(chan[StageOf(t)]) \in Seq(Requests)
    BY <1>0, <2>1, InsideFacts
  <2>5. Types'
    BY <1>0, <2>1, <2>4 DEF Phases
  <2>6. Hands'
    BY <2>1, <2>4, PipelineAssumption DEF Hands
  <2> QED BY <2>1, <2>3, <2>5, <2>6 DEF Kept
<1>2. CASE Leave(t)
  <2>1. held[t] = None
    BY <1>2 DEF Leave, Hands
  <2> QED BY <1>2, <2>1, Stopping DEF Leave, Kept
<1>3. CASE Queue(t)
  <2>1. /\ chan' = [chan EXCEPT ![Target(t)] = Append(@, held[t])]
        /\ Release(t) /\ UNCHANGED <<dlq, fate>> /\ held[t] # None
    BY <1>3 DEF Queue, Enqueued, Sends, Hands
  <2>2. held' = [held EXCEPT ![t] = None]
    BY <2>1 DEF Release
  <2>3. Placed(chan, held, fate)'
    BY <1>0, <2>1, <2>2, Putting
  <2>4. held[t] \in Requests
    BY <2>1
  <2>5. chan' \in [Channels -> Seq(Requests)]
    BY <1>0, <2>1, <2>4
  <2>6. at' \in [Tasks -> Phases] /\ held' \in [Tasks -> Requests \cup {None}] /\ Hands'
    BY <2>1, Releasing
  <2> QED BY <2>1, <2>3, <2>5, <2>6 DEF Kept
<1>4. CASE Shed(t)
  <2>1. UNCHANGED chan /\ DeadLetter(held[t]) /\ Release(t) /\ held[t] # None
    BY <1>4 DEF Shed, Sends, Hands
  <2>2. held[t] \in Requests /\ fate[held[t]] = "inside"
    BY <2>1, InsideFacts
  <2>3. /\ Ring(dlq, fate)' /\ dlq' \in Seq(Requests) /\ fate' \in [Requests -> L!Fates]
        /\ \A r \in Requests : fate'[r] = "inside" <=> fate[r] = "inside" /\ r # held[t]
        /\ L!Next
    BY <2>1, <2>2, DeadLettering
  <2>4. Placed(chan, held, fate)'
    BY <1>0, <2>1, <2>3, Dropping DEF Release
  <2>5. at' \in [Tasks -> Phases] /\ held' \in [Tasks -> Requests \cup {None}] /\ Hands'
    BY <2>1, Releasing
  <2> QED BY <2>1, <2>3, <2>4, <2>5 DEF Kept
<1>5. CASE Break(t)
  <2>1. held[t] # None
    BY <1>5 DEF Break, Sends, Hands
  <2> QED BY <1>5, <2>1, Stopping DEF Break, Kept
<1> QED BY <1>1, <1>2, <1>3, <1>4, <1>5 DEF Step

\* A request at the head of a queue leaves for the ring or for another fate.
LEMMA WorkerSteps == ASSUME Inv, NEW w \in Workers, Worker(w) PROVE Kept
<1> USE DEF Inv, Types
<1>0. /\ chan \in Queues /\ held \in Grips /\ w \in Tasks
      /\ StageOf(w) = "inference" /\ "inference" \in Channels
  BY StagesOfTasks DEF Queues, Grips, Channels, Stages, Tasks
<1>1. CASE Lock(w)
  BY <1>0, <1>1, Quiet DEF Lock, Hands, Phases
<1>2. CASE RefuseExpired(w)
  <2>1. /\ at[w] = "idle" /\ chan["inference"] # << >>
        /\ chan' = [chan EXCEPT !["inference"] = Tail(@)]
        /\ DeadLetter(Head(chan["inference"])) /\ Release(w)
    BY <1>0, <1>2 DEF RefuseExpired, CanReceive, Incoming, Rest
  <2>2. Head(chan["inference"]) \in Requests /\ fate[Head(chan["inference"])] = "inside"
    BY <1>0, <2>1, InsideFacts
  <2>3. /\ Ring(dlq, fate)' /\ dlq' \in Seq(Requests) /\ fate' \in [Requests -> L!Fates]
        /\ \A r \in Requests : fate'[r] = "inside" <=>
                fate[r] = "inside" /\ r # Head(chan["inference"])
        /\ L!Next
    BY <2>1, <2>2, DeadLettering
  <2>4. held' = held
    BY <1>0, <2>1 DEF Hands, Release
  <2>5. Placed(chan, held, fate)'
    BY <1>0, <2>1, <2>3, <2>4, Heading
  <2>6. chan' \in [Channels -> Seq(Requests)]
    BY <1>0, <2>1
  <2>7. at' \in [Tasks -> Phases] /\ held' \in [Tasks -> Requests \cup {None}] /\ Hands'
    BY <1>0, <2>1, Releasing
  <2> QED BY <2>3, <2>5, <2>6, <2>7 DEF Kept
<1>3. CASE RefuseOpen(w) \/ CallFails(w)
  <2>1. UNCHANGED chan /\ DeadLetter(held[w]) /\ Release(w) /\ held[w] # None
    BY <1>0, <1>3 DEF RefuseOpen, CallFails, Hands
  <2>2. held[w] \in Requests /\ fate[held[w]] = "inside"
    BY <1>0, <2>1, InsideFacts
  <2>3. /\ Ring(dlq, fate)' /\ dlq' \in Seq(Requests) /\ fate' \in [Requests -> L!Fates]
        /\ \A r \in Requests : fate'[r] = "inside" <=> fate[r] = "inside" /\ r # held[w]
        /\ L!Next
    BY <2>1, <2>2, DeadLettering
  <2>4. Placed(chan, held, fate)'
    BY <1>0, <2>1, <2>3, Dropping DEF Release
  <2>5. at' \in [Tasks -> Phases] /\ held' \in [Tasks -> Requests \cup {None}] /\ Hands'
    BY <1>0, <2>1, Releasing
  <2> QED BY <2>1, <2>3, <2>4, <2>5 DEF Kept
<1>4. CASE Call(w) \/ Answer(w)
  <2>1. /\ UNCHANGED <<chan, held, dlq, fate>> /\ at[w] \in {"busy", "calling"}
        /\ \E p \in {"calling", "answered"} : at' = [at EXCEPT ![w] = p]
    BY <1>4 DEF Call, Answer
  <2> QED BY <1>0, <2>1, Quiet DEF Hands, Phases
<1> QED BY <1>1, <1>2, <1>3, <1>4 DEF Worker

LEMMA StreamSteps == ASSUME Inv, SkipExpired \/ Stream PROVE Kept
<1> USE DEF Inv, Types
<1>0. /\ chan \in Queues /\ held \in Grips
      /\ "rag" \in Tasks /\ "stream" \in Tasks /\ StageOf("rag") = "rag"
      /\ "rag" \in Channels /\ "output" \in Channels
  BY StagesOfTasks DEF Queues, Grips, Channels, Stages, Single, Tasks
<1>1. CASE SkipExpired
  <2>1. /\ chan["rag"] # << >> /\ chan' = [chan EXCEPT !["rag"] = Tail(@)]
        /\ UNCHANGED <<at, held, dlq>>
        /\ fate' = WithFate({Head(chan["rag"])}, "expired")
    BY <1>0, <1>1 DEF SkipExpired, CanReceive, Incoming, Rest
  <2>2. Head(chan["rag"]) \in Requests /\ fate[Head(chan["rag"])] = "inside"
    BY <1>0, <2>1, InsideFacts
  <2>3. {Head(chan["rag"])} \in SUBSET Requests
        /\ \A r \in {Head(chan["rag"])} : fate[r] = "inside"
    BY <2>2
  <2>4. /\ Ring(dlq, fate') /\ fate' \in [Requests -> L!Fates] /\ L!Next
        /\ \A r \in Requests : fate'[r] = "inside" <=>
                fate[r] = "inside" /\ r \notin {Head(chan["rag"])}
    BY <2>1, <2>3, Departing
  <2>5. Placed(chan, held, fate)'
    <3>1. \A r \in Requests : fate'[r] = "inside" <=>
                             fate[r] = "inside" /\ r # Head(chan["rag"])
      BY <2>4
    <3> QED BY <1>0, <2>1, <3>1, Heading
  <2>6. chan' \in [Channels -> Seq(Requests)]
    BY <1>0, <2>1
  <2> QED BY <2>1, <2>4, <2>5, <2>6 DEF Kept, Hands
<1>2. CASE Emit
  <2>1. /\ chan' = [chan EXCEPT !["output"] = Append(@, held["stream"])]
        /\ Release("stream") /\ UNCHANGED <<dlq, fate>> /\ held["stream"] # None
    BY <1>0, <1>2 DEF Emit, Emits, Enqueued, Hands
  <2>2. held' = [held EXCEPT !["stream"] = None]
    BY <2>1 DEF Release
  <2>3. Placed(chan, held, fate)'
    BY <1>0, <2>1, <2>2, Putting
  <2>4. chan' \in [Channels -> Seq(Requests)]
    BY <1>0, <2>1
  <2>5. at' \in [Tasks -> Phases] /\ held' \in [Tasks -> Requests \cup {None}] /\ Hands'
    BY <1>0, <2>1, Releasing
  <2> QED BY <2>1, <2>3, <2>4, <2>5 DEF Kept
<1>3. CASE Discard
  <2>1. /\ UNCHANGED <<chan, dlq>> /\ Release("stream") /\ held["stream"] # None
        /\ fate' = WithFate({held["stream"]}, "discarded")
    BY <1>0, <1>3 DEF Discard, Emits, Hands
  <2>2. {held["stream"]} \in SUBSET Requests
        /\ \A r \in {held["stream"]} : fate[r] = "inside"
    BY <1>0, <2>1, InsideFacts
  <2>3. /\ Ring(dlq, fate') /\ fate' \in [Requests -> L!Fates] /\ L!Next
        /\ \A r \in Requests : fate'[r] = "inside" <=>
                fate[r] = "inside" /\ r \notin {held["stream"]}
    BY <2>1, <2>2, Departing
  <2>4. Placed(chan, held, fate)'
    <3>1. \A r \in Requests : fate'[r] = "inside" <=>
                             fate[r] = "inside" /\ r # held["stream"]
      BY <2>3
    <3>2. held' = [held EXCEPT !["stream"] = None] /\ chan' = chan
      BY <2>1 DEF Release
    <3>3. Placed(chan, [held EXCEPT !["stream"] = None], fate')
      <4> DEFINE e == fate'
      <4>1. \A r \in Requests : e[r] = "inside" <=> fate[r] = "inside" /\ r # held["stream"]
        BY <3>1
      <4> HIDE DEF e
      <4>2. Placed(chan, [held EXCEPT !["stream"] = None], e)
        BY <1>0, <2>1, <4>1, Dropping
      <4> QED BY <4>2 DEF e
    <3> QED BY <3>2, <3>3
  <2>5. at' \in [Tasks -> Phases] /\ held' \in [Tasks -> Requests \cup {None}] /\ Hands'
    BY <1>0, <2>1, Releasing
  <2> QED BY <2>1, <2>3, <2>4, <2>5 DEF Kept
<1>4. CASE SinkFails
  <2>1. held["stream"] # None
    BY <1>0, <1>4 DEF SinkFails, Emits, Hands
  <2> QED BY <1>0, <1>4, <2>1, Stopping DEF SinkFails, Kept
<1> QED BY <1>1, <1>2, <1>3, <1>4 DEF Stream

LEMMA EnvironmentSteps == ASSUME Inv, Environment PROVE Kept
<1> USE DEF Inv, Types
<1>0. chan \in Queues /\ held \in Grips /\ "rag" \in Channels /\ "output" \in Channels
  BY DEF Queues, Grips, Channels, Stages
<1>1. ASSUME NEW r \in Requests, Submit(r) PROVE Kept
  <2>1. /\ fate[r] = "new" /\ UNCHANGED <<at, held, dlq>>
        /\ chan' = [chan EXCEPT !["rag"] = Append(@, r)]
        /\ fate' = WithFate({r}, "inside")
    BY <1>1 DEF Submit, Enqueued
  <2>2. ~InQueue(chan, r) /\ ~InHand(held, r)
    BY <2>1 DEF Placed, InsideIsPlaced
  <2>3. fate'[r] = "inside" /\ \A x \in Requests \ {r} : fate'[x] = fate[x]
    BY <2>1 DEF WithFate
  <2>4. Placed(chan, held, fate)'
    BY <1>0, <2>1, <2>2, <2>3, Appending
  <2>5. chan' \in [Channels -> Seq(Requests)]
    BY <1>0, <2>1
  <2>6. fate' \in [Requests -> L!Fates]
    BY <2>1, FateNames DEF WithFate
  <2>7. Ring(dlq, fate)'
    <3>1. \A x \in Requests : fate'[x] = "dead" <=> fate[x] = "dead"
      BY <2>1, <2>3
    <3>2. dlq' = dlq
      BY <2>1
    <3> QED BY <3>1, <3>2 DEF Ring
  <2>8. L!Next
    BY <2>1 DEF L!Next, L!Accept, L!Move, WithFate
  <2> QED BY <2>1, <2>4, <2>5, <2>6, <2>7, <2>8 DEF Kept, Hands
<1>2. CASE ReadOutput
  <2>1. /\ chan["output"] # << >> /\ chan' = [chan EXCEPT !["output"] = Tail(@)]
        /\ UNCHANGED <<at, held, dlq>>
        /\ fate' = WithFate({Head(chan["output"])}, "delivered")
    BY <1>2 DEF ReadOutput
  <2>2. Head(chan["output"]) \in Requests /\ fate[Head(chan["output"])] = "inside"
    BY <1>0, <2>1, InsideFacts
  <2>3. {Head(chan["output"])} \in SUBSET Requests
        /\ (\A r \in {Head(chan["output"])} : fate[r] = "inside")
        /\ \E r \in Requests : {Head(chan["output"])} = {r}
    BY <2>2
  <2>4. /\ Ring(dlq, fate') /\ fate' \in [Requests -> L!Fates] /\ L!Next
        /\ \A r \in Requests : fate'[r] = "inside" <=>
                fate[r] = "inside" /\ r \notin {Head(chan["output"])}
    BY <2>1, <2>3, Departing
  <2>5. Placed(chan, held, fate)'
    BY <1>0, <2>1, <2>4, Heading
  <2>6. chan' \in [Channels -> Seq(Requests)]
    BY <1>0, <2>1
  <2> QED BY <2>1, <2>4, <2>5, <2>6 DEF Kept, Hands
<1>3. CASE CloseOutput
  <2>1. /\ chan' = [chan EXCEPT !["output"] = << >>] /\ UNCHANGED <<at, held, dlq>>
        /\ fate' = WithFate(Range(chan["output"]), "abandoned")
    BY <1>3 DEF CloseOutput
  <2>2. Range(chan["output"]) \in SUBSET Requests
        /\ \A r \in Range(chan["output"]) : fate[r] = "inside"
    BY <1>0, InsideFacts
  <2>3. /\ Ring(dlq, fate') /\ fate' \in [Requests -> L!Fates] /\ L!Next
        /\ \A r \in Requests : fate'[r] = "inside" <=>
                fate[r] = "inside" /\ r \notin Range(chan["output"])
    BY <2>1, <2>2, Departing
  <2>4. Placed(chan, held, fate)'
    BY <1>0, <2>1, <2>3, Emptying
  <2>5. chan' \in [Channels -> Seq(Requests)]
    BY <1>0, <2>1
  <2> QED BY <2>1, <2>3, <2>4, <2>5 DEF Kept, Hands
<1>4. CASE DrainDlq
  <2>1. dlq' = << >> /\ UNCHANGED <<chan, at, held>> /\ fate' = WithFate(Range(dlq), "drained")
    BY <1>4 DEF DrainDlq
  <2>2. \A r \in Requests : r \in Range(dlq) <=> fate[r] = "dead"
    BY DEF Range, Ring
  <2>3. Range(dlq) \subseteq Requests
    BY DEF Range
  <2>4. fate' \in [Requests -> L!Fates]
    BY <2>1, FateNames DEF WithFate
  <2>5. Ring(dlq, fate)'
    BY <2>1, <2>2, PipelineAssumption DEF Ring, WithFate
  <2>6. Placed(chan, held, fate)'
    BY <2>1, <2>2 DEF Placed, InsideIsPlaced, WithFate
  <2>7. L!Drain(Range(dlq))
    BY <2>1, <2>2, <2>3 DEF L!Drain, L!Move, WithFate
  <2>8. L!Next
    BY <2>3, <2>7 DEF L!Next
  <2> QED BY <2>1, <2>4, <2>5, <2>6, <2>8 DEF Kept, Hands
<1>5. CASE CloseInput \/ Shutdown \/ Tick \/ \E r \in Requests : Expire(r)
  <2>1. UNCHANGED <<chan, at, held, dlq, fate>>
    BY <1>5 DEF CloseInput, Shutdown, Tick, Expire
  <2> QED BY <2>1, Quiet DEF Hands
<1> QED BY <1>1, <1>2, <1>3, <1>4, <1>5 DEF Environment

LEMMA StepKept == Inv /\ [Next]_vars => Kept
<1> SUFFICES ASSUME Inv, [Next]_vars PROVE Kept
  OBVIOUS
<1>1. CASE UNCHANGED vars
  BY <1>1, Quiet DEF vars, Inv, Types, Hands
<1>2. CASE Next
  BY <1>2, StageSteps, WorkerSteps, StreamSteps, EnvironmentSteps DEF Next
<1> QED BY <1>1, <1>2

\* The inductive invariant holds in every reachable state: Next has been shown
\* to preserve it, action by action.
THEOREM Invariant == Spec => []Inv
<1>1. Inv /\ [Next]_vars => Inv'
  BY StepKept DEF Kept
<1> QED BY InitInv, <1>1, PTL DEF Spec

-----------------------------------------------------------------------------
\* The places of a request.
Queued(c, r, p) ==
    p = <<p[1], p[2]>> /\ p[1] \in Channels /\ p[2] \in 1..Len(c[p[1]]) /\ c[p[1]][p[2]] = r

Gripped(h, r, p) == p = <<p[1], 0>> /\ p[1] \in Tasks /\ h[p[1]] = r

LEMMA PlacesListed ==
    ASSUME NEW c, NEW h, NEW r
    PROVE  \A p : p \in (UNION { {<<s, i>> : i \in {j \in 1..Len(c[s]) : c[s][j] = r}}
                                   : s \in Channels })
                         \cup {<<t, 0>> : t \in {u \in Tasks : h[u] = r}}
                  <=> Queued(c, r, p) \/ Gripped(h, r, p)
<1>. DEFINE Q(s) == {<<s, i>> : i \in {j \in 1..Len(c[s]) : c[s][j] = r}}
            H == {<<t, 0>> : t \in {u \in Tasks : h[u] = r}}
            U == UNION {Q(s) : s \in Channels}
<1>1. ASSUME NEW s \in Channels, NEW p
      PROVE  p \in Q(s) <=> \E i \in 1..Len(c[s]) : c[s][i] = r /\ p = <<s, i>>
  BY Zenon
<1>2. ASSUME NEW p
      PROVE  p \in H <=> \E t \in Tasks : h[t] = r /\ p = <<t, 0>>
  BY Zenon
<1>. HIDE DEF Q, H
<1>3. ASSUME NEW p
      PROVE  p \in U <=> \E s \in Channels : p \in Q(s)
  BY Zenon
<1>. HIDE DEF U
<1>4. ASSUME NEW p
      PROVE  (\E s \in Channels : p \in Q(s)) <=> Queued(c, r, p)
  BY <1>1 DEF Queued
<1>5. ASSUME NEW p
      PROVE  p \in H <=> Gripped(h, r, p)
  BY <1>2 DEF Gripped
<1>6. \A p : p \in U \cup H <=> Queued(c, r, p) \/ Gripped(h, r, p)
  BY <1>3, <1>4, <1>5
<1>. QED  BY <1>6 DEF U, H, Q

\* Every accepted request is in exactly one place until it leaves the
\* pipeline, and in none afterwards (Accounted), whatever stages stop, calls
\* fail, queues overflow or receivers go away, for any number of workers.
THEOREM EveryRequestAccounted == Spec => []Accounted
<1>1. Inv => Accounted
  <2> SUFFICES ASSUME Inv, NEW r \in Requests
               PROVE  /\ fate[r] = "inside" <=> Spots(r) # {}
                      /\ \A p, q \in Spots(r) : p = q
    BY DEF Accounted
  <2>0. r # None
    BY PipelineAssumption
  <2>1. \A p : p \in Spots(r) <=> Queued(chan, r, p) \/ Gripped(held, r, p)
    BY PlacesListed, Zenon DEF Spots
  <2>2. Spots(r) # {} <=> InQueue(chan, r) \/ InHand(held, r)
    <3>1. \A s, i : <<s, i>>[1] = s /\ <<s, i>>[2] = i
      OBVIOUS
    <3>2. (\E p : Queued(chan, r, p)) <=> InQueue(chan, r)
      <4>1. ASSUME NEW p, Queued(chan, r, p) PROVE InQueue(chan, r)
        BY <4>1, Zenon DEF Queued, InQueue
      <4>2. ASSUME NEW s \in Channels, NEW i \in 1..Len(chan[s]), chan[s][i] = r
            PROVE  Queued(chan, r, <<s, i>>)
        BY <3>1, <4>2, Zenon DEF Queued
      <4>. QED  BY <4>1, <4>2, Zenon DEF InQueue
    <3>3. (\E p : Gripped(held, r, p)) <=> InHand(held, r)
      BY <3>1 DEF Gripped, InHand
    <3>. QED  BY <2>1, <3>2, <3>3
  <2>3. \A p, q \in Spots(r) : p = q
    BY <2>0, <2>1
       DEF Queued, Gripped, Inv, Placed, QueuesApart, HandsApart, ApartFromHands
  <2> QED BY <2>2, <2>3 DEF Inv, Placed, InsideIsPlaced
<1> QED BY <1>1, Invariant, PTL

\* The dead-letter queue lists exactly the requests that were refused or shed
\* and neither evicted nor drained since, each once, within its capacity.
THEOREM DeadLetterQueueExact == Spec => []DlqExact
<1>1. Inv => DlqExact
  BY DEF Inv, Ring, DlqExact
<1> QED BY <1>1, Invariant, PTL

\* The pipeline implements Ledger: a request has one fate, and no step gives
\* it a second one.
THEOREM PipelineKeepsLedger == Spec => KeepsLedger
<1>1. Init => L!Init
  BY DEF Init, L!Init
<1>2. Inv /\ [Next]_vars => [L!Next]_fate
  BY StepKept DEF Kept
<1> QED BY <1>1, <1>2, Invariant, PTL DEF Spec, KeepsLedger, L!Spec

-----------------------------------------------------------------------------
\* The types of the rest: the breaker, which the workers share, and what the
\* callers hold.

LEMMA BreakerFields ==
    /\ MaxInterval \in Nat /\ 0 \in Ages /\ NoTime \notin Nat
    /\ BackoffCap \in Nat /\ 0 \in 0..BackoffCap /\ << >> \in Windows
<1>1. BackoffCap \in 0..6 /\ Timeout \in Nat /\ NoTime \notin Nat /\ WindowSize \in Nat
  BY BreakerAssumption
<1>2. Least(BackoffCap, BackoffCap) = BackoffCap
  BY DEF Least
<1>3. BackoffCap + 1 \in 1..7
  BY <1>1
<1>4. BackoffFactor(BackoffCap) \in Nat
  BY <1>2, <1>3 DEF BackoffFactor
<1>5. MaxInterval \in Nat
  BY <1>1, <1>4 DEF MaxInterval
<1>6. << >> \in Windows
  <2>1. << >> \in Seq(BOOLEAN) /\ Len(<< >>) = 0
    OBVIOUS
  <2> QED BY <1>1, <2>1 DEF Windows
<1> QED BY <1>1, <1>5, <1>6 DEF Ages

LEMMA OutcomePushed ==
    ASSUME NEW w \in Windows, NEW r \in BOOLEAN
    PROVE  Pushed(w, r) \in Windows
<1> DEFINE a == Append(w, r)
<1>1. w \in Seq(BOOLEAN) /\ Len(w) <= WindowSize /\ WindowSize \in Nat
  BY BreakerAssumption DEF Windows
<1>2. a \in Seq(BOOLEAN) /\ Len(a) = Len(w) + 1 /\ a # << >>
  BY <1>1
<1>3. Tail(a) \in Seq(BOOLEAN) /\ Len(Tail(a)) = Len(w)
  <2> HIDE DEF a
  <2> QED BY <1>1, <1>2
<1> HIDE DEF a
<1>4. CASE Len(w) + 1 > WindowSize
  BY <1>1, <1>3, <1>4 DEF Pushed, Windows, a
<1>5. CASE ~(Len(w) + 1 > WindowSize)
  BY <1>1, <1>2, <1>5 DEF Pushed, Windows, a
<1> QED BY <1>4, <1>5

\* Whatever a worker records, the breaker stays well-formed.
LEMMA BreakerTyped ==
    ASSUME NEW b \in Breakers
    PROVE  {Aged(b), Admitted(b), Succeeded(b), Failed(b)} \subseteq Breakers
<1>0. {"Closed", "Open", "HalfOpen"} = Statuses
  BY DEF Statuses
<1>1. Aged(b) \in Breakers
  <2>1. \A age \in Ages : Older(age) \in Ages
    BY BreakerFields DEF Ages, Older, Least
  <2>2. Older(NoTime) = NoTime
    BY DEF Older
  <2> QED BY <2>1, <2>2 DEF Aged, Breakers
<1>2. Admitted(b) \in Breakers
  <2>1. [b EXCEPT !.status = "HalfOpen", !.recent_results = << >>,
                  !.failures = 0, !.in_state = 0] \in Breakers
    BY <1>0, BreakerFields DEF Breakers
  <2> QED BY <2>1 DEF Admitted
<1>3. Succeeded(b) \in Breakers
  <2> DEFINE w == Pushed(b.recent_results, TRUE)
  <2>1. w \in Windows
    BY OutcomePushed DEF Breakers
  <2>2. Succeeded(b) \in {[b EXCEPT !.recent_results = w, !.status = "Closed", !.failures = 0,
                                    !.probe_failures = 0, !.in_state = 0],
                          [b EXCEPT !.recent_results = w, !.failures = 0],
                          [b EXCEPT !.recent_results = w]}
    BY Zenon DEF Succeeded
  <2> HIDE DEF w
  <2>3. /\ [b EXCEPT !.recent_results = w, !.status = "Closed", !.failures = 0,
                     !.probe_failures = 0, !.in_state = 0] \in Breakers
        /\ [b EXCEPT !.recent_results = w, !.failures = 0] \in Breakers
        /\ [b EXCEPT !.recent_results = w] \in Breakers
    BY <1>0, <2>1, BreakerFields DEF Breakers
  <2> QED BY <2>2, <2>3, Zenon
<1>4. Failed(b) \in Breakers
  <2> DEFINE w == Pushed(b.recent_results, FALSE)
             f == [b EXCEPT !.recent_results = w, !.failures = @ + 1,
                            !.last_failure = 0]
  <2>1. w \in Windows /\ b.failures + 1 \in Nat
    <3>1. b.recent_results \in Windows /\ b.failures \in Nat
      BY DEF Breakers
    <3>2. Pushed(b.recent_results, FALSE) \in Windows
      BY <3>1, OutcomePushed
    <3>3. b.failures + 1 \in Nat
      BY <3>1
    <3> QED BY <3>2, <3>3, Zenon
  <2>2. f \in Breakers
    <3> HIDE DEF w
    <3> QED BY <2>1, BreakerFields DEF Breakers
  <2>3. Failed(b) \in {[f EXCEPT !.status = "Open", !.in_state = 0],
                       [f EXCEPT !.status = "Open", !.in_state = 0,
                                 !.probe_failures = Least(@ + 1, BackoffCap)], f}
    BY Zenon DEF Failed
  <2> HIDE DEF f
  <2>4. Least(f.probe_failures + 1, BackoffCap) \in 0..BackoffCap
    BY <2>2, BreakerFields DEF Breakers, Least
  <2>5. /\ [f EXCEPT !.status = "Open", !.in_state = 0] \in Breakers
        /\ [f EXCEPT !.status = "Open", !.in_state = 0,
                     !.probe_failures = Least(@ + 1, BackoffCap)] \in Breakers
    BY <1>0, <2>2, <2>4, BreakerFields DEF Breakers
  <2> QED BY <2>2, <2>3, <2>5, Zenon
<1> QED BY <1>1, <1>2, <1>3, <1>4

Others ==
    /\ breaker \in Breakers /\ past \subseteq WithDeadline
    /\ inputOpen \in BOOLEAN /\ outputOpen \in BOOLEAN /\ cancelled \in BOOLEAN
    /\ received \in Seq(Requests)

LEMMA OthersKept == Inv /\ Others /\ [Next]_vars => Others'
<1> SUFFICES ASSUME Inv, Others, [Next]_vars PROVE Others'
  OBVIOUS
<1>1. \/ breaker' = breaker
      \/ breaker' \in {Aged(breaker), Admitted(breaker), Succeeded(breaker), Failed(breaker)}
  BY DEF Next, Step, Receive, Leave, Queue, Shed, Break, Worker, Lock, RefuseExpired,
         RefuseOpen, Call, Answer, CallFails, SkipExpired, Stream, Emit, Discard, SinkFails,
         Environment, Submit, Expire, ReadOutput, DrainDlq, CloseInput, CloseOutput,
         Shutdown, Tick, vars
<1>2. \/ UNCHANGED past
      \/ \E r \in WithDeadline : past' = past \cup {r}
  BY DEF Next, Step, Receive, Leave, Queue, Shed, Break, Worker, Lock, RefuseExpired,
         RefuseOpen, Call, Answer, CallFails, SkipExpired, Stream, Emit, Discard, SinkFails,
         Environment, Submit, Expire, ReadOutput, DrainDlq, CloseInput, CloseOutput,
         Shutdown, Tick, vars
<1>3. /\ inputOpen' \in {inputOpen, FALSE} /\ outputOpen' \in {outputOpen, FALSE}
      /\ cancelled' \in {cancelled, TRUE}
  BY DEF Next, Step, Receive, Leave, Queue, Shed, Break, Worker, Lock, RefuseExpired,
         RefuseOpen, Call, Answer, CallFails, SkipExpired, Stream, Emit, Discard, SinkFails,
         Environment, Submit, Expire, ReadOutput, DrainDlq, CloseInput, CloseOutput,
         Shutdown, Tick, vars
<1>4. \/ UNCHANGED received
      \/ ReadOutput
  BY DEF Next, Step, Receive, Leave, Queue, Shed, Break, Worker, Lock, RefuseExpired,
         RefuseOpen, Call, Answer, CallFails, SkipExpired, Stream, Emit, Discard, SinkFails,
         Environment, Submit, Expire, DrainDlq, CloseInput, CloseOutput,
         Shutdown, Tick, vars
<1>5. received' \in Seq(Requests)
  <2>1. CASE ReadOutput
    <3>1. chan["output"] \in Seq(Requests) /\ chan["output"] # << >>
      BY <2>1 DEF ReadOutput, Inv, Types, Channels
    <3>2. Head(chan["output"]) \in Requests
      BY <3>1
    <3> QED BY <2>1, <3>2 DEF ReadOutput, Others
  <2> QED BY <1>4, <2>1 DEF Others
<1>6. breaker' \in Breakers
  BY <1>1, BreakerTyped DEF Others
<1> QED BY <1>2, <1>3, <1>5, <1>6 DEF Others

LEMMA AlwaysOthers == Spec => []Others
<1>1. Init => Others
  <2>1. NewBreaker \in Breakers
    BY BreakerFields DEF NewBreaker, Breakers, Statuses
  <2>2. ASSUME Init PROVE Others
    <3>1. /\ breaker = NewBreaker /\ past = {} /\ received = << >>
          /\ inputOpen = TRUE /\ outputOpen = TRUE /\ cancelled = FALSE
      BY <2>2 DEF Init
    <3>2. received \in Seq(Requests)
      BY <3>1
    <3> QED BY <2>1, <3>1, <3>2 DEF Others
  <2> QED BY <2>2
<1> QED BY <1>1, OthersKept, Invariant, PTL DEF Spec

\* Type correctness of the pipeline for any number of requests and workers.
THEOREM PipelineTypeCorrect == Spec => []TypeOK
<1>1. Inv /\ Others => TypeOK
  BY DEF Inv, Types, Others, TypeOK
<1> QED BY <1>1, AlwaysOthers, Invariant, PTL

-----------------------------------------------------------------------------
(* Order.  The places of the pipeline are numbered from the caller's end:   *)
(* what was received, the output channel, and then for each stage, from     *)
(* stream back to rag, its hand and its queue.  With one inference worker   *)
(* every step that moves a request moves the head of a place to the end of  *)
(* the place before it, a submission adds a later request at place 12, and  *)
(* every other step only lets requests go.                                  *)

TaskOf(s) == CHOOSE t \in TasksOf(s) : TRUE

HandIn(h, s) == IF h[TaskOf(s)] = None THEN << >> ELSE << h[TaskOf(s)] >>

PlacesOf(c, h, rc) ==
    << rc, c["output"],
       HandIn(h, "stream"), c["stream"],
       HandIn(h, "post"), c["post"],
       HandIn(h, "inference"), c["inference"],
       HandIn(h, "assemble"), c["assemble"],
       HandIn(h, "rag"), c["rag"] >>

Ascending(s) == \A i, j \in 1..Len(s) : i < j => s[i] < s[j]

Below(s, t) == \A i \in 1..Len(s), j \in 1..Len(t) : s[i] < t[j]

Sorted(P) ==
    /\ \A k \in 1..12 : Ascending(P[k])
    /\ \A k, l \in 1..12 : k < l => Below(P[k], P[l])

\* x comes after everything in P.
Ahead(P, x) == \A k \in 1..12 : \A i \in 1..Len(P[k]) : P[k][i] < x

Lines == [1..12 -> Seq(Nat)]

\* The three things a step does to the places.
Moved(P, Q, k) ==
    /\ P[k] # << >>
    /\ Q[k] = Tail(P[k]) /\ Q[k - 1] = Append(P[k - 1], Head(P[k]))
    /\ \A l \in 1..12 \ {k - 1, k} : Q[l] = P[l]

Trailing(p, q) == q = p \/ q = << >> \/ (p # << >> /\ q = Tail(p))

Thinned(P, Q) == \A k \in 1..12 : Trailing(P[k], Q[k])

Joined(P, Q, x) == Q[12] = Append(P[12], x) /\ \A l \in 1..11 : Q[l] = P[l]

LEMMA SequenceEnds ==
    ASSUME NEW p \in Seq(Nat)
    PROVE  /\ Len(p) \in Nat
           /\ p # << >> =>
                /\ Len(p) \in Nat \ {0} /\ 1 \in 1..Len(p) /\ Head(p) = p[1]
                /\ Len(Tail(p)) = Len(p) - 1
                /\ \A i \in 1..Len(Tail(p)) : i + 1 \in 1..Len(p) /\ Tail(p)[i] = p[i + 1]
           /\ \A x : /\ Len(Append(p, x)) = Len(p) + 1 /\ Append(p, x)[Len(p) + 1] = x
                     /\ \A i \in 1..Len(p) : Append(p, x)[i] = p[i]
                     /\ \A i \in 1..Len(Append(p, x)) : i \in 1..Len(p) \/ i = Len(p) + 1
OBVIOUS

\* Each element of q is one of p, and they keep their order.
LEMMA TrailingElements ==
    ASSUME NEW p \in Seq(Nat), NEW q \in Seq(Nat), Trailing(p, q)
    PROVE  \E off \in Nat : /\ Len(q) + off = Len(p) \/ Len(q) = 0
                            /\ \A i \in 1..Len(q) : /\ i + off \in 1..Len(p)
                                                    /\ q[i] = p[i + off]
<1>1. CASE q = p
  <2>1. Len(q) + 0 = Len(p) /\ \A i \in 1..Len(q) : i + 0 = i
    BY <1>1
  <2>2. \A i \in 1..Len(q) : i + 0 \in 1..Len(p) /\ q[i] = p[i + 0]
    BY <1>1, <2>1
  <2>. QED  BY <2>1, <2>2
<1>2. CASE q = << >>
  BY <1>2
<1>3. CASE p # << >> /\ q = Tail(p)
  <2>1. Len(q) + 1 = Len(p) /\ \A i \in 1..Len(q) : i + 1 \in 1..Len(p) /\ q[i] = p[i + 1]
    BY <1>3
  <2>. QED  BY <2>1
<1>. QED  BY <1>1, <1>2, <1>3 DEF Trailing

LEMMA ThinnedSorted ==
    ASSUME NEW P \in Lines, NEW Q \in Lines, Sorted(P), Thinned(P, Q)
    PROVE  Sorted(Q) /\ \A x : Ahead(P, x) => Ahead(Q, x)
<1>1. \A k \in 1..12 : P[k] \in Seq(Nat) /\ Q[k] \in Seq(Nat)
  BY DEF Lines
<1>2. \A k \in 1..12 : \E off \in Nat :
        \A i \in 1..Len(Q[k]) : i + off \in 1..Len(P[k]) /\ Q[k][i] = P[k][i + off]
  BY <1>1, TrailingElements DEF Thinned
<1>3. ASSUME NEW k \in 1..12 PROVE Ascending(Q[k])
  <2>1. PICK off \in Nat :
          \A i \in 1..Len(Q[k]) : i + off \in 1..Len(P[k]) /\ Q[k][i] = P[k][i + off]
    BY <1>2
  <2>2. Ascending(P[k])
    BY DEF Sorted
  <2>. SUFFICES ASSUME NEW i \in 1..Len(Q[k]), NEW j \in 1..Len(Q[k]), i < j
                PROVE  Q[k][i] < Q[k][j]
    BY DEF Ascending
  <2>3. i + off < j + off
    BY <1>1
  <2>. QED  BY <2>1, <2>2, <2>3 DEF Ascending
<1>4. ASSUME NEW k \in 1..12, NEW l \in 1..12, k < l PROVE Below(Q[k], Q[l])
  <2>1. \A i \in 1..Len(Q[k]) : \E m \in 1..Len(P[k]) : Q[k][i] = P[k][m]
    BY <1>2
  <2>2. \A i \in 1..Len(Q[l]) : \E m \in 1..Len(P[l]) : Q[l][i] = P[l][m]
    BY <1>2
  <2>3. \A i \in 1..Len(P[k]), j \in 1..Len(P[l]) : P[k][i] < P[l][j]
    BY <1>4 DEF Sorted, Below
  <2>. QED  BY <2>1, <2>2, <2>3 DEF Below
<1>5. ASSUME NEW x, Ahead(P, x) PROVE Ahead(Q, x)
  BY <1>2, <1>5 DEF Ahead
<1>. QED  BY <1>3, <1>4, <1>5 DEF Sorted

LEMMA MovedSorted ==
    ASSUME NEW P \in Lines, NEW Q \in Lines, NEW k \in 2..12, Sorted(P), Moved(P, Q, k)
    PROVE  Sorted(Q) /\ \A x : Ahead(P, x) => Ahead(Q, x)
<1>. DEFINE n == Len(P[k - 1])
<1>1. k \in 1..12 /\ k - 1 \in 1..12 /\ k - 1 < k
  OBVIOUS
<1>2. \A l \in 1..12 : P[l] \in Seq(Nat)
  BY DEF Lines
<1>3. n \in Nat /\ Len(P[k]) \in Nat \ {0} /\ Head(P[k]) = P[k][1] /\ 1 \in 1..Len(P[k])
  <2>1. P[k] # << >> /\ P[k] \in Seq(Nat) /\ P[k - 1] \in Seq(Nat)
    BY <1>1, <1>2 DEF Moved
  <2>. QED  BY <2>1, SequenceEnds
<1>4. /\ Len(Q[k]) = Len(P[k]) - 1
      /\ \A i \in 1..Len(Q[k]) : i + 1 \in 1..Len(P[k]) /\ Q[k][i] = P[k][i + 1]
  <2>1. Q[k] = Tail(P[k]) /\ P[k] # << >> /\ P[k] \in Seq(Nat)
    BY <1>1, <1>2 DEF Moved
  <2>. QED  BY <2>1, SequenceEnds
<1>5. /\ Len(Q[k - 1]) = n + 1 /\ Q[k - 1][n + 1] = P[k][1]
      /\ \A i \in 1..n : Q[k - 1][i] = P[k - 1][i]
      /\ \A i \in 1..Len(Q[k - 1]) : i \in 1..n \/ i = n + 1
  <2>1. Q[k - 1] = Append(P[k - 1], P[k][1]) /\ P[k - 1] \in Seq(Nat)
    BY <1>1, <1>2, <1>3 DEF Moved
  <2>. QED  BY <2>1, SequenceEnds
<1>6. \A l \in 1..12 \ {k - 1, k} : Q[l] = P[l]
  BY DEF Moved
<1>. HIDE DEF n
<1>7. /\ \A l \in 1..12 : \A i, j \in 1..Len(P[l]) : i < j => P[l][i] < P[l][j]
      /\ \A l, m \in 1..12 : l < m =>
           \A i \in 1..Len(P[l]), j \in 1..Len(P[m]) : P[l][i] < P[m][j]
  BY DEF Sorted, Ascending, Below
<1>8. Ascending(Q[k])
  <2>. SUFFICES ASSUME NEW i \in 1..Len(Q[k]), NEW j \in 1..Len(Q[k]), i < j
                PROVE  Q[k][i] < Q[k][j]
    BY DEF Ascending
  <2>1. i + 1 < j + 1
    BY <1>3, <1>4
  <2>. QED  BY <1>1, <1>4, <1>7, <2>1
<1>9. Ascending(Q[k - 1])
  <2>. SUFFICES ASSUME NEW i \in 1..Len(Q[k - 1]), NEW j \in 1..Len(Q[k - 1]), i < j
                PROVE  Q[k - 1][i] < Q[k - 1][j]
    BY DEF Ascending
  <2>1. i \in 1..n
    BY <1>3, <1>5
  <2>2. CASE j \in 1..n
    BY <1>1, <1>5, <1>7, <2>1, <2>2 DEF n
  <2>3. CASE j = n + 1
    <3>1. P[k - 1][i] < P[k][1]
      BY <1>1, <1>3, <1>7, <2>1 DEF n
    <3>. QED  BY <1>5, <2>1, <2>3, <3>1
  <2>. QED  BY <1>5, <2>2, <2>3
\* Where the elements of Q come from: the place itself, or, for the place that
\* was appended to, the head of the next one.
<1>10. ASSUME NEW l \in 1..12, NEW i \in 1..Len(Q[l])
       PROVE  \/ \E m \in 1..Len(P[l]) : Q[l][i] = P[l][m] /\ (l = k => m > 1)
              \/ l = k - 1 /\ Q[l][i] = P[k][1]
  <2>1. CASE l = k
    <3>1. i + 1 \in 1..Len(P[k]) /\ Q[k][i] = P[k][i + 1] /\ i + 1 > 1
      BY <1>4, <2>1
    <3>. QED  BY <2>1, <3>1
  <2>2. CASE l = k - 1
    <3>1. CASE i \in 1..n
      BY <1>1, <1>5, <2>2, <3>1 DEF n
    <3>2. CASE i = n + 1
      BY <1>5, <2>2, <3>2
    <3>. QED  BY <1>5, <2>2, <3>1, <3>2
  <2>3. CASE l \notin {k - 1, k}
    BY <1>6, <2>3
  <2>. QED  BY <2>1, <2>2, <2>3
<1>11. ASSUME NEW l \in 1..12, NEW m \in 1..12, l < m PROVE Below(Q[l], Q[m])
  <2>. SUFFICES ASSUME NEW i \in 1..Len(Q[l]), NEW j \in 1..Len(Q[m])
                PROVE  Q[l][i] < Q[m][j]
    BY DEF Below
  <2>1. \/ \E a \in 1..Len(P[l]) : Q[l][i] = P[l][a]
        \/ l = k - 1 /\ Q[l][i] = P[k][1]
    BY <1>10
  <2>2. \/ \E b \in 1..Len(P[m]) : Q[m][j] = P[m][b] /\ (m = k => b > 1)
        \/ m = k - 1 /\ Q[m][j] = P[k][1]
    BY <1>10
  <2>3. CASE \E a \in 1..Len(P[l]) : Q[l][i] = P[l][a]
    <3>1. l < k \/ m # k - 1
      BY <1>1, <1>11
    <3>. QED  BY <1>1, <1>3, <1>7, <1>11, <2>2, <2>3, <3>1
  <2>4. CASE l = k - 1 /\ Q[l][i] = P[k][1]
    <3>1. m # k - 1 /\ (m = k \/ k < m)
      BY <1>11, <2>4
    <3>2. PICK b \in 1..Len(P[m]) : Q[m][j] = P[m][b] /\ (m = k => b > 1)
      BY <2>2, <3>1
    <3>3. CASE m = k
      BY <1>1, <1>3, <1>7, <2>4, <3>2, <3>3
    <3>4. CASE k < m
      BY <1>1, <1>3, <1>7, <2>4, <3>2, <3>4
    <3>. QED  BY <3>1, <3>3, <3>4
  <2>. QED  BY <2>1, <2>3, <2>4
<1>12. ASSUME NEW l \in 1..12 PROVE Ascending(Q[l])
  <2>1. CASE l \notin {k - 1, k}
    BY <1>6, <2>1 DEF Sorted
  <2>. QED  BY <1>8, <1>9, <2>1
<1>13. ASSUME NEW x, Ahead(P, x) PROVE Ahead(Q, x)
  BY <1>1, <1>3, <1>10, <1>13 DEF Ahead
<1>. QED  BY <1>11, <1>12, <1>13 DEF Sorted

LEMMA JoinedSorted ==
    ASSUME NEW P \in Lines, NEW Q \in Lines, NEW x \in Nat,
           Sorted(P), Ahead(P, x), Joined(P, Q, x)
    PROVE  Sorted(Q) /\ \A y \in Nat : x < y /\ Ahead(P, y) => Ahead(Q, y)
<1>. DEFINE n == Len(P[12])
<1>1. P[12] \in Seq(Nat) /\ n \in Nat
  BY DEF Lines
<1>2. /\ Len(Q[12]) = n + 1 /\ Q[12][n + 1] = x
      /\ \A i \in 1..n : Q[12][i] = P[12][i]
      /\ \A i \in 1..Len(Q[12]) : i \in 1..n \/ i = n + 1
  BY <1>1 DEF Joined
<1>3. \A l \in 1..12 : l = 12 \/ (l \in 1..11 /\ Q[l] = P[l])
  BY DEF Joined
<1>. HIDE DEF n
<1>4. \A l \in 1..12 : \A i \in 1..Len(Q[l]) :
        \/ \E m \in 1..Len(P[l]) : Q[l][i] = P[l][m]
        \/ l = 12 /\ Q[l][i] = x
  BY <1>2, <1>3 DEF n
<1>5. Ascending(Q[12])
  <2>. SUFFICES ASSUME NEW i \in 1..Len(Q[12]), NEW j \in 1..Len(Q[12]), i < j
                PROVE  Q[12][i] < Q[12][j]
    BY DEF Ascending
  <2>1. i \in 1..n
    BY <1>1, <1>2
  <2>2. CASE j \in 1..n
    BY <1>2, <2>1, <2>2 DEF Sorted, Ascending, n
  <2>3. CASE j = n + 1
    <3>1. P[12][i] < x
      BY <2>1 DEF Ahead, n
    <3>. QED  BY <1>2, <2>1, <2>3, <3>1
  <2>. QED  BY <1>2, <2>2, <2>3
<1>6. ASSUME NEW l \in 1..12 PROVE Ascending(Q[l])
  BY <1>3, <1>5 DEF Sorted
<1>7. ASSUME NEW l \in 1..12, NEW m \in 1..12, l < m PROVE Below(Q[l], Q[m])
  <2>1. Q[l] = P[l]
    BY <1>3, <1>7
  <2>2. Below(P[l], P[m]) /\ \A i \in 1..Len(P[l]) : P[l][i] < x
    BY <1>7 DEF Sorted, Ahead
  <2>. QED  BY <1>4, <2>1, <2>2 DEF Below
<1>8. ASSUME NEW y \in Nat, x < y, Ahead(P, y) PROVE Ahead(Q, y)
  BY <1>4, <1>8 DEF Ahead
<1>. QED  BY <1>6, <1>7, <1>8 DEF Sorted

\* The concatenation of sorted places is in order.
LEMMA JoinNext ==
    ASSUME NEW P \in Lines, Sorted(P), NEW k \in 1..11, NEW M \in Seq(Nat),
           Ascending(M), \A l \in (k + 1)..12 : Below(M, P[l])
    PROVE  /\ M \o P[k + 1] \in Seq(Nat)
           /\ Ascending(M \o P[k + 1])
           /\ \A l \in (k + 2)..12 : Below(M \o P[k + 1], P[l])
<1>. DEFINE p == P[k + 1]
            N == M \o p
            m == Len(M)
<1>0. k + 1 \in 1..12 /\ k + 1 \in (k + 1)..12
  OBVIOUS
<1>1. k + 1 \in 1..12 /\ k + 1 \in (k + 1)..12 /\ p \in Seq(Nat)
  <2>1. \A l \in 1..12 : P[l] \in Seq(Nat)
    BY DEF Lines
  <2>. QED  BY <1>0, <2>1
<1>2. Ascending(p) /\ Below(M, p)
  BY <1>1 DEF Sorted
<1>3. m \in Nat /\ Len(p) \in Nat
  BY <1>1
<1>. HIDE DEF p
<1>4. /\ N \in Seq(Nat) /\ Len(N) = m + Len(p)
      /\ \A i \in 1..m : N[i] = M[i]
      /\ \A i \in (m + 1)..(m + Len(p)) : i - m \in 1..Len(p) /\ N[i] = p[i - m]
  BY <1>1
<1>5. \A i \in 1..Len(N) : i \in 1..m \/ i \in (m + 1)..(m + Len(p))
  BY <1>3, <1>4
<1>. HIDE DEF N, m
<1>6. Ascending(N)
  <2>. SUFFICES ASSUME NEW i \in 1..Len(N), NEW j \in 1..Len(N), i < j
                PROVE  N[i] < N[j]
    BY DEF Ascending
  <2>1. CASE j \in 1..m
    <3>1. i \in 1..m
      BY <1>3, <1>5, <2>1
    <3>. QED  BY <1>2, <1>4, <2>1, <3>1 DEF Ascending, m
  <2>2. CASE i \in 1..m /\ j \in (m + 1)..(m + Len(p))
    BY <1>2, <1>4, <2>2 DEF Below, m
  <2>3. CASE i \in (m + 1)..(m + Len(p)) /\ j \in (m + 1)..(m + Len(p))
    <3>1. i - m < j - m /\ i - m \in 1..Len(p) /\ j - m \in 1..Len(p)
      BY <1>3, <1>4, <2>3
    <3>. QED  BY <1>2, <1>4, <2>3, <3>1 DEF Ascending
  <2>. QED  BY <1>5, <2>1, <2>2, <2>3
<1>7. ASSUME NEW l \in (k + 2)..12 PROVE Below(N, P[l])
  <2>1. l \in 1..12 /\ l \in (k + 1)..12 /\ k + 1 < l
    BY <1>7
  <2>2. Below(M, P[l]) /\ Below(p, P[l])
    BY <1>1, <2>1 DEF Sorted, p
  <2>3. \A i \in 1..Len(N) : \/ \E a \in 1..Len(M) : N[i] = M[a]
                             \/ \E a \in 1..Len(p) : N[i] = p[a]
    BY <1>4, <1>5 DEF m
  <2>. QED  BY <2>2, <2>3 DEF Below
<1>. QED  BY <1>4, <1>6, <1>7 DEF N, p

LEMMA LineSorted ==
    ASSUME NEW P \in Lines, Sorted(P)
    PROVE  Ascending(P[1] \o P[2] \o P[3] \o P[4] \o P[5] \o P[6]
                       \o P[7] \o P[8] \o P[9] \o P[10] \o P[11] \o P[12])
<1>. DEFINE Prefix(k, M) == /\ M \in Seq(Nat) /\ Ascending(M)
                            /\ \A l \in (k + 1)..12 : Below(M, P[l])
<1>1. ASSUME NEW k \in 1..11, NEW M, Prefix(k, M) PROVE Prefix(k + 1, M \o P[k + 1])
  <2>1. (k + 1) + 1 = k + 2
    OBVIOUS
  <2>. QED  BY <1>1, <2>1, JoinNext
<1>2. Prefix(1, P[1])
  BY DEF Sorted, Lines
<1>. HIDE DEF Prefix
<1>3. Prefix(2, P[1] \o P[2])
  BY <1>1, <1>2
<1>4. Prefix(3, P[1] \o P[2] \o P[3])
  BY <1>1, <1>3
<1>5. Prefix(4, P[1] \o P[2] \o P[3] \o P[4])
  BY <1>1, <1>4
<1>6. Prefix(5, P[1] \o P[2] \o P[3] \o P[4] \o P[5])
  BY <1>1, <1>5
<1>7. Prefix(6, P[1] \o P[2] \o P[3] \o P[4] \o P[5] \o P[6])
  BY <1>1, <1>6
<1>8. Prefix(7, P[1] \o P[2] \o P[3] \o P[4] \o P[5] \o P[6] \o P[7])
  BY <1>1, <1>7
<1>9. Prefix(8, P[1] \o P[2] \o P[3] \o P[4] \o P[5] \o P[6] \o P[7] \o P[8])
  BY <1>1, <1>8
<1>10. Prefix(9, P[1] \o P[2] \o P[3] \o P[4] \o P[5] \o P[6] \o P[7] \o P[8] \o P[9])
  BY <1>1, <1>9
<1>11. Prefix(10, P[1] \o P[2] \o P[3] \o P[4] \o P[5] \o P[6]
                    \o P[7] \o P[8] \o P[9] \o P[10])
  BY <1>1, <1>10
<1>12. Prefix(11, P[1] \o P[2] \o P[3] \o P[4] \o P[5] \o P[6]
                    \o P[7] \o P[8] \o P[9] \o P[10] \o P[11])
  BY <1>1, <1>11
<1>13. Prefix(12, P[1] \o P[2] \o P[3] \o P[4] \o P[5] \o P[6]
                    \o P[7] \o P[8] \o P[9] \o P[10] \o P[11] \o P[12])
  BY <1>1, <1>12
<1>. QED  BY <1>13 DEF Prefix

-----------------------------------------------------------------------------
\* The steps of the pipeline as steps of its places.

\* The place of a stage's queue; the one before it is the place of its hand.
Place == [ output |-> 2, stream |-> 4, post |-> 6, inference |-> 8,
           assemble |-> 10, rag |-> 12 ]

LEMMA PlaceValues ==
    ASSUME NEW c, NEW h, NEW rc
    PROVE  /\ PlacesOf(c, h, rc)[1] = rc /\ PlacesOf(c, h, rc)[2] = c["output"]
           /\ \A s \in Stages : /\ PlacesOf(c, h, rc)[Place[s] - 1] = HandIn(h, s)
                                /\ PlacesOf(c, h, rc)[Place[s]] = c[s]
<1>. DEFINE P == PlacesOf(c, h, rc)
<1>1. /\ P[1] = rc /\ P[2] = c["output"]
      /\ P[3] = HandIn(h, "stream") /\ P[4] = c["stream"]
      /\ P[5] = HandIn(h, "post") /\ P[6] = c["post"]
      /\ P[7] = HandIn(h, "inference") /\ P[8] = c["inference"]
      /\ P[9] = HandIn(h, "assemble") /\ P[10] = c["assemble"]
      /\ P[11] = HandIn(h, "rag") /\ P[12] = c["rag"]
  BY DEF PlacesOf
<1>2. \A s \in Stages : s \in {"stream", "post", "inference", "assemble", "rag"}
  BY DEF Stages
<1>. HIDE DEF P
<1>3. /\ Place["stream"] - 1 = 3 /\ Place["post"] - 1 = 5 /\ Place["inference"] - 1 = 7
      /\ Place["assemble"] - 1 = 9 /\ Place["rag"] - 1 = 11
      /\ Place["stream"] = 4 /\ Place["post"] = 6 /\ Place["inference"] = 8
      /\ Place["assemble"] = 10 /\ Place["rag"] = 12
  BY DEF Place
<1>4. \A s \in Stages : P[Place[s] - 1] = HandIn(h, s) /\ P[Place[s]] = c[s]
  BY <1>1, <1>2, <1>3
<1>. QED  BY <1>1, <1>4 DEF P

LEMMA PlaceNumbers ==
    /\ \A s \in Stages :
         /\ Place[s] \in 4..12 /\ Place[s] - 1 \in 3..11
         /\ Following[s] \in Channels /\ Place[Following[s]] = Place[s] - 2
    /\ \A s, u \in Channels : s # u => Place[s] # Place[u] /\ Place[s] - 1 # Place[u]
                                       /\ Place[s] - 1 # Place[u] - 1
    /\ Place["output"] = 2 /\ Place["rag"] = 12
    /\ \A k \in 1..12 : k = 1 \/ k = 2 \/ \E s \in Stages : k = Place[s] \/ k = Place[s] - 1
    /\ \A s \in Channels : s = "output" \/ s \in Stages
<1>. USE DEF Place, Stages, Channels, Following
<1>1. \A s \in Stages :
         /\ Place[s] \in 4..12 /\ Place[s] - 1 \in 3..11
         /\ Following[s] \in Channels /\ Place[Following[s]] = Place[s] - 2
  OBVIOUS
<1>2. \A s, u \in Channels : s # u => Place[s] # Place[u] /\ Place[s] - 1 # Place[u]
                                       /\ Place[s] - 1 # Place[u] - 1
  OBVIOUS
<1>3. \A k \in 1..12 : k = 1 \/ k = 2 \/ \E s \in Stages : k = Place[s] \/ k = Place[s] - 1
  <2>. SUFFICES ASSUME NEW k \in 1..12, k # 1, k # 2
                PROVE  \E s \in Stages : k = Place[s] \/ k = Place[s] - 1
    OBVIOUS
  <2>1. k \in {3, 4, 5, 6, 7, 8, 9, 10, 11, 12}
    OBVIOUS
  <2>. QED  BY <2>1
<1>. QED  BY <1>1, <1>2, <1>3

\* With one worker each stage has one task, and its hand is what that holds.
LEMMA OneTaskPerStage ==
    ASSUME Cardinality(Workers) = 1
    PROVE  /\ \A s \in Stages : \E t \in Tasks : StageOf(t) = s
           /\ \A t, u \in Tasks : StageOf(t) = StageOf(u) => t = u
           /\ \A t \in Tasks : TasksOf(StageOf(t)) = {t}
<1>1. PICK w : Workers = {w}
  BY PipelineAssumption, FS_Singleton
<1>2. w \notin Single
  BY <1>1, PipelineAssumption
<1>3. \A t \in Tasks : \/ t = w /\ StageOf(t) = "inference"
                       \/ t \in Single /\ t # w /\ StageOf(t) = t /\ t # "inference"
  BY <1>1, <1>2 DEF Tasks, StageOf, Single
<1>4. \A s \in Stages : \E t \in Tasks : StageOf(t) = s
  <2>. SUFFICES ASSUME NEW s \in Stages PROVE \E t \in Tasks : StageOf(t) = s
    OBVIOUS
  <2>1. CASE s = "inference"
    BY <1>1, <2>1 DEF Tasks, StageOf
  <2>2. CASE s # "inference"
    BY <1>1, <1>2, <2>2 DEF Tasks, StageOf, Single
  <2>. QED  BY <2>1, <2>2
<1>. QED  BY <1>1, <1>3, <1>4 DEF TasksOf

LEMMA HandOfTask ==
    ASSUME Cardinality(Workers) = 1, NEW h, NEW t \in Tasks
    PROVE  HandIn(h, StageOf(t)) = IF h[t] = None THEN << >> ELSE << h[t] >>
<1>1. TasksOf(StageOf(t)) = {t}
  BY OneTaskPerStage
<1>2. TaskOf(StageOf(t)) = t
  BY <1>1 DEF TaskOf
<1>. QED  BY <1>2 DEF HandIn

LEMMA PlacesType ==
    ASSUME Cardinality(Workers) = 1, NEW c \in Queues, NEW h \in Grips,
           NEW rc \in Seq(Requests)
    PROVE  PlacesOf(c, h, rc) \in Lines
<1>. DEFINE P == PlacesOf(c, h, rc)
<1>0. Requests \subseteq Nat
  BY PipelineAssumption DEF Requests
<1>1. \A q \in Seq(Requests) : q \in Seq(Nat)
  <2>. SUFFICES ASSUME NEW q \in Seq(Requests) PROVE q \in Seq(Nat)
    OBVIOUS
  <2>1. Len(q) \in Nat /\ q \in [1..Len(q) -> Requests]
    BY LenProperties
  <2>2. q \in [1..Len(q) -> Nat]
    BY <1>0, <2>1
  <2>. QED  BY <2>1, <2>2, SeqDef
<1>2. \A s \in Stages : HandIn(h, s) \in Seq(Nat)
  <2>. SUFFICES ASSUME NEW s \in Stages PROVE HandIn(h, s) \in Seq(Nat)
    OBVIOUS
  <2>1. PICK t \in Tasks : StageOf(t) = s
    BY OneTaskPerStage
  <2>2. HandIn(h, s) = IF h[t] = None THEN << >> ELSE << h[t] >>
    BY <2>1, HandOfTask
  <2>3. h[t] \in Requests \cup {None}
    BY DEF Grips
  <2>4. CASE h[t] = None
    BY <2>2, <2>4
  <2>5. CASE h[t] # None
    <3>1. h[t] \in Nat /\ HandIn(h, s) = << h[t] >>
      BY <1>0, <2>2, <2>3, <2>5
    <3>. QED  BY <3>1
  <2>. QED  BY <2>4, <2>5
<1>3. \A s \in Channels : c[s] \in Seq(Nat)
  BY <1>1 DEF Queues
<1>4. rc \in Seq(Nat)
  BY <1>1
<1>5. /\ "stream" \in Stages /\ "post" \in Stages /\ "inference" \in Stages
      /\ "assemble" \in Stages /\ "rag" \in Stages /\ Stages \subseteq Channels
      /\ "output" \in Channels
  BY DEF Stages, Channels
<1>6. \A a1, a2, a3, a4, a5, a6, a7, a8, a9, a10, a11, a12 \in Seq(Nat) :
        << a1, a2, a3, a4, a5, a6, a7, a8, a9, a10, a11, a12 >> \in Lines
  BY DEF Lines
<1>. QED  BY <1>2, <1>3, <1>4, <1>5, <1>6, Zenon DEF PlacesOf

\* A stage takes the head of its queue in hand.
LEMMA TakeMoves ==
    ASSUME NEW c \in Queues, NEW d \in Queues, NEW h, NEW g, NEW rc, NEW s \in Stages,
           c[s] # << >>, d[s] = Tail(c[s]), \A u \in Channels \ {s} : d[u] = c[u],
           HandIn(h, s) = << >>, HandIn(g, s) = << Head(c[s]) >>,
           \A u \in Stages \ {s} : HandIn(g, u) = HandIn(h, u)
    PROVE  Moved(PlacesOf(c, h, rc), PlacesOf(d, g, rc), Place[s])
<1>. DEFINE P == PlacesOf(c, h, rc)
            Q == PlacesOf(d, g, rc)
            k == Place[s]
<1>1. /\ P[1] = rc /\ P[2] = c["output"]
      /\ \A u \in Stages : P[Place[u] - 1] = HandIn(h, u) /\ P[Place[u]] = c[u]
      /\ Q[1] = rc /\ Q[2] = d["output"]
      /\ \A u \in Stages : Q[Place[u] - 1] = HandIn(g, u) /\ Q[Place[u]] = d[u]
  BY PlaceValues
<1>. HIDE DEF P, Q
<1>2. P[k] # << >> /\ Q[k] = Tail(P[k])
  BY <1>1
<1>3. Append(<< >>, Head(c[s])) = << Head(c[s]) >>
  OBVIOUS
<1>4. Q[k - 1] = Append(P[k - 1], Head(P[k]))
  BY <1>1, <1>3
<1>5. d["output"] = c["output"] /\ \A u \in Stages \ {s} : d[u] = c[u]
  BY DEF Stages, Channels
<1>6. ASSUME NEW l \in 1..12 \ {k - 1, k} PROVE Q[l] = P[l]
  <2>1. ASSUME NEW u \in Stages, l = Place[u] - 1 \/ l = Place[u] PROVE Q[l] = P[l]
    <3>1. u \in Stages \ {s}
      BY <2>1
    <3>2. Q[Place[u] - 1] = P[Place[u] - 1] /\ Q[Place[u]] = P[Place[u]]
      BY <1>1, <1>5, <3>1
    <3>. QED  BY <2>1, <3>2
  <2>2. l = 1 \/ l = 2 \/ \E u \in Stages : l = Place[u] \/ l = Place[u] - 1
    BY PlaceNumbers
  <2>. QED  BY <1>1, <1>5, <2>1, <2>2
<1>. QED  BY <1>2, <1>4, <1>6 DEF Moved, P, Q

\* A stage puts what it has in hand at the end of the next queue.
LEMMA PutMoves ==
    ASSUME NEW c \in Queues, NEW d \in Queues, NEW h, NEW g, NEW rc, NEW s \in Stages, NEW x,
           d[Following[s]] = Append(c[Following[s]], x),
           \A u \in Channels \ {Following[s]} : d[u] = c[u],
           HandIn(h, s) = << x >>, HandIn(g, s) = << >>,
           \A u \in Stages \ {s} : HandIn(g, u) = HandIn(h, u)
    PROVE  Moved(PlacesOf(c, h, rc), PlacesOf(d, g, rc), Place[s] - 1)
<1>. DEFINE P == PlacesOf(c, h, rc)
            Q == PlacesOf(d, g, rc)
            k == Place[s] - 1
            n == Following[s]
<1>1. /\ P[1] = rc /\ P[2] = c["output"]
      /\ \A u \in Stages : P[Place[u] - 1] = HandIn(h, u) /\ P[Place[u]] = c[u]
      /\ Q[1] = rc /\ Q[2] = d["output"]
      /\ \A u \in Stages : Q[Place[u] - 1] = HandIn(g, u) /\ Q[Place[u]] = d[u]
  BY PlaceValues
<1>. HIDE DEF P, Q
<1>2. << x >> # << >> /\ Tail(<< x >>) = << >> /\ Head(<< x >>) = x
  OBVIOUS
<1>3. P[k] # << >> /\ Q[k] = Tail(P[k]) /\ Head(P[k]) = x
  BY <1>1, <1>2
<1>4. n \in Channels /\ Place[n] = k - 1
  <2>1. Place[s] \in 4..12 /\ n \in Channels /\ Place[n] = Place[s] - 2
    BY PlaceNumbers
  <2>. QED  BY <2>1
<1>5. P[k - 1] = c[n] /\ Q[k - 1] = d[n]
  <2>1. n = "output" \/ n \in Stages
    BY <1>4, PlaceNumbers
  <2>2. Place["output"] = 2
    BY PlaceNumbers
  <2>. QED  BY <1>1, <1>4, <2>1, <2>2
<1>6. ASSUME NEW l \in 1..12 \ {k - 1, k} PROVE Q[l] = P[l]
  <2>1. CASE l = 1
    BY <1>1, <2>1
  <2>2. CASE l = 2
    <3>1. n # "output"
      BY <1>4, <2>2, PlaceNumbers
    <3>. QED  BY <1>1, <2>2, <3>1 DEF Channels
  <2>3. ASSUME NEW u \in Stages, l = Place[u] - 1 PROVE Q[l] = P[l]
    <3>1. u # s
      BY <2>3
    <3>. QED  BY <1>1, <2>3, <3>1
  <2>4. ASSUME NEW u \in Stages, l = Place[u] PROVE Q[l] = P[l]
    <3>1. u # n /\ u \in Channels
      BY <1>4, <2>4, PlaceNumbers DEF Channels
    <3>. QED  BY <1>1, <2>4, <3>1
  <2>. QED  BY <2>1, <2>2, <2>3, <2>4, PlaceNumbers
<1>. QED  BY <1>3, <1>5, <1>6 DEF Moved, P, Q

\* The caller reads the head of the output channel.
LEMMA ReadMoves ==
    ASSUME NEW c \in Queues, NEW h, NEW rc, c["output"] # << >>
    PROVE  Moved(PlacesOf(c, h, rc),
                 PlacesOf([c EXCEPT !["output"] = Tail(@)], h, Append(rc, Head(c["output"]))), 2)
<1>. DEFINE d == [c EXCEPT !["output"] = Tail(@)]
            P == PlacesOf(c, h, rc)
            Q == PlacesOf(d, h, Append(rc, Head(c["output"])))
<1>0. d["output"] = Tail(c["output"]) /\ \A u \in Stages : d[u] = c[u]
  BY DEF Queues, Channels, Stages
<1>. HIDE DEF d
<1>1. /\ P[1] = rc /\ P[2] = c["output"]
      /\ \A u \in Stages : P[Place[u] - 1] = HandIn(h, u) /\ P[Place[u]] = c[u]
      /\ Q[1] = Append(rc, Head(c["output"])) /\ Q[2] = d["output"]
      /\ \A u \in Stages : Q[Place[u] - 1] = HandIn(h, u) /\ Q[Place[u]] = d[u]
  <2>1. /\ P[1] = rc /\ P[2] = c["output"]
        /\ \A u \in Stages : P[Place[u] - 1] = HandIn(h, u) /\ P[Place[u]] = c[u]
    BY PlaceValues
  <2>. DEFINE rd == Append(rc, Head(c["output"]))
  <2>. HIDE DEF rd
  <2>2. /\ PlacesOf(d, h, rd)[1] = rd /\ PlacesOf(d, h, rd)[2] = d["output"]
        /\ \A u \in Stages : /\ PlacesOf(d, h, rd)[Place[u] - 1] = HandIn(h, u)
                             /\ PlacesOf(d, h, rd)[Place[u]] = d[u]
    BY PlaceValues
  <2>. QED  BY <2>1, <2>2 DEF rd
<1>. HIDE DEF P, Q
<1>2. P[2] # << >> /\ Q[2] = Tail(P[2]) /\ Q[1] = Append(P[1], Head(P[2]))
  BY <1>0, <1>1
<1>3. ASSUME NEW l \in 1..12 \ {1, 2} PROVE Q[l] = P[l]
  <2>1. \E u \in Stages : l = Place[u] \/ l = Place[u] - 1
    BY PlaceNumbers
  <2>2. \A u \in Stages : Q[Place[u] - 1] = P[Place[u] - 1] /\ Q[Place[u]] = P[Place[u]]
    BY <1>0, <1>1
  <2>. QED  BY <2>1, <2>2
<1>4. 2 - 1 = 1
  OBVIOUS
<1>. QED  BY <1>2, <1>3, <1>4 DEF Moved, P, Q, d

\* A submission joins the last place.
LEMMA SubmitJoins ==
    ASSUME NEW c \in Queues, NEW h, NEW rc, NEW x
    PROVE  Joined(PlacesOf(c, h, rc), PlacesOf([c EXCEPT !["rag"] = Append(@, x)], h, rc), x)
<1>. DEFINE d == [c EXCEPT !["rag"] = Append(@, x)]
            P == PlacesOf(c, h, rc)
            Q == PlacesOf(d, h, rc)
<1>0. d["rag"] = Append(c["rag"], x) /\ \A u \in Channels \ {"rag"} : d[u] = c[u]
  BY DEF Queues, Channels, Stages
<1>. HIDE DEF d
<1>1. /\ P[1] = rc /\ P[2] = c["output"]
      /\ \A u \in Stages : P[Place[u] - 1] = HandIn(h, u) /\ P[Place[u]] = c[u]
      /\ Q[1] = rc /\ Q[2] = d["output"]
      /\ \A u \in Stages : Q[Place[u] - 1] = HandIn(h, u) /\ Q[Place[u]] = d[u]
  BY PlaceValues
<1>. HIDE DEF P, Q
<1>2. Q[12] = Append(P[12], x)
  BY <1>0, <1>1, PlaceNumbers DEF Stages
<1>3. d["output"] = c["output"] /\ \A u \in Stages \ {"rag"} : d[u] = c[u]
  BY <1>0 DEF Channels, Stages
<1>4. ASSUME NEW l \in 1..11 PROVE Q[l] = P[l]
  BY <1>1, <1>3, PlaceNumbers
<1>. QED  BY <1>2, <1>4 DEF Joined, P, Q, d

\* Queues and hands that only lose requests.
LEMMA LossThins ==
    ASSUME NEW c, NEW d, NEW h, NEW g, NEW rc,
           \A s \in Channels : Trailing(c[s], d[s]),
           \A s \in Stages : Trailing(HandIn(h, s), HandIn(g, s))
    PROVE  Thinned(PlacesOf(c, h, rc), PlacesOf(d, g, rc))
<1>. DEFINE P == PlacesOf(c, h, rc)
            Q == PlacesOf(d, g, rc)
<1>1. /\ P[1] = rc /\ P[2] = c["output"]
      /\ \A u \in Stages : P[Place[u] - 1] = HandIn(h, u) /\ P[Place[u]] = c[u]
      /\ Q[1] = rc /\ Q[2] = d["output"]
      /\ \A u \in Stages : Q[Place[u] - 1] = HandIn(g, u) /\ Q[Place[u]] = d[u]
  BY PlaceValues
<1>. HIDE DEF P, Q
<1>2. Trailing(rc, rc) /\ "output" \in Channels /\ Stages \subseteq Channels
  BY DEF Trailing, Channels
<1>3. ASSUME NEW l \in 1..12 PROVE Trailing(P[l], Q[l])
  BY <1>1, <1>2, PlaceNumbers
<1>. QED  BY <1>3 DEF Thinned, P, Q

\* What task t holds changes only the hand of its own stage.
LEMMA HandChange ==
    ASSUME Cardinality(Workers) = 1, NEW h \in Grips, NEW t \in Tasks, NEW v
    PROVE  /\ HandIn([h EXCEPT ![t] = v], StageOf(t)) = IF v = None THEN << >> ELSE << v >>
           /\ \A s \in Stages \ {StageOf(t)} : HandIn([h EXCEPT ![t] = v], s) = HandIn(h, s)
<1>. DEFINE g == [h EXCEPT ![t] = v]
<1>1. g[t] = v /\ \A u \in Tasks \ {t} : g[u] = h[u]
  BY DEF Grips
<1>. HIDE DEF g
<1>2. ASSUME NEW s \in Stages \ {StageOf(t)} PROVE HandIn(g, s) = HandIn(h, s)
  <2>1. PICK u \in Tasks : StageOf(u) = s
    BY OneTaskPerStage
  <2>2. g[u] = h[u]
    BY <1>1, <1>2, <2>1
  <2>. QED  BY <2>1, <2>2, HandOfTask
<1>3. HandIn(g, StageOf(t)) = IF v = None THEN << >> ELSE << v >>
  BY <1>1, HandOfTask
<1>. QED  BY <1>2, <1>3 DEF g

LEMMA LosingThins ==
    ASSUME Cardinality(Workers) = 1, NEW c \in Queues, NEW d, NEW h \in Grips, NEW g, NEW rc,
           NEW s \in Channels, NEW t \in Tasks,
           \/ d = c
           \/ d = [c EXCEPT ![s] = << >>]
           \/ c[s] # << >> /\ d = [c EXCEPT ![s] = Tail(@)],
           g = h \/ g = [h EXCEPT ![t] = None]
    PROVE  Thinned(PlacesOf(c, h, rc), PlacesOf(d, g, rc))
<1>1. \A u \in Channels : Trailing(c[u], d[u])
  BY DEF Queues, Trailing
<1>2. ASSUME NEW u \in Stages PROVE Trailing(HandIn(h, u), HandIn(g, u))
  <2>1. CASE g = h
    BY <2>1 DEF Trailing
  <2>2. CASE g = [h EXCEPT ![t] = None]
    <3>0. /\ HandIn([h EXCEPT ![t] = None], StageOf(t)) = << >>
          /\ \A s1 \in Stages \ {StageOf(t)} :
               HandIn([h EXCEPT ![t] = None], s1) = HandIn(h, s1)
      BY HandChange
    <3>1. HandIn(g, u) = HandIn(h, u) \/ HandIn(g, u) = << >>
      BY <2>2, <3>0
    <3>. QED  BY <3>1 DEF Trailing
  <2>. QED  BY <2>1, <2>2
<1>. QED  BY <1>1, <1>2, LossThins

\* Every step moves the head of one place to the one before it, or submits, or
\* lets requests go.
Passage ==
    LET P == PlacesOf(chan, held, received)
        Q == PlacesOf(chan', held', received')
    IN  \/ \E k \in 2..12 : Moved(P, Q, k)
        \/ \E r \in Requests : Submit(r) /\ Joined(P, Q, r)
        \/ Thinned(P, Q)

LEMMA StepPassage ==
    ASSUME Cardinality(Workers) = 1, Inv, [Next]_vars
    PROVE  Passage
<1>. USE DEF Passage
<1>0. chan \in Queues /\ held \in Grips
  BY DEF Inv, Types, Queues, Grips
<1>a. /\ \A t \in Tasks : StageOf(t) \in Stages /\ StageOf(t) \in Channels
      /\ "stream" \in Tasks /\ StageOf("stream") = "stream"
      /\ "rag" \in Tasks /\ StageOf("rag") = "rag"
      /\ \A w \in Workers : w \in Tasks
      /\ "output" \in Channels /\ "rag" \in Channels
  BY StagesOfTasks DEF Channels, Stages, Single, Tasks
<1>1. ASSUME NEW t \in Tasks, Receive(t) PROVE Passage
  <2>. DEFINE u == StageOf(t)
  <2>1. /\ chan' = [chan EXCEPT ![u] = Tail(@)] /\ chan[u] # << >>
        /\ held' = [held EXCEPT ![t] = Head(chan[u])]
        /\ received' = received /\ at[t] = "idle"
    BY <1>1 DEF Receive, CanReceive, Incoming, Rest
  <2>2. held[t] = None /\ Head(chan[u]) # None /\ Head(chan[u]) \in Requests
    BY <1>a, <2>1, InsideFacts, PipelineAssumption DEF Inv, Hands
  <2>3. HandIn(held, u) = << >>
    BY <2>2, HandOfTask
  <2>4. /\ HandIn(held', u) = << Head(chan[u]) >>
        /\ \A s \in Stages \ {u} : HandIn(held', s) = HandIn(held, s)
    <3>. DEFINE v == Head(chan[u])
    <3>1. held' = [held EXCEPT ![t] = v] /\ v # None
      BY <2>1, <2>2
    <3>. HIDE DEF v
    <3>2. /\ HandIn([held EXCEPT ![t] = v], u) = IF v = None THEN << >> ELSE << v >>
          /\ \A s \in Stages \ {u} : HandIn([held EXCEPT ![t] = v], s) = HandIn(held, s)
      BY <1>0, HandChange
    <3>3. HandIn(held', u) = << v >>
      BY <3>1, <3>2
    <3>. QED  BY <3>1, <3>2, <3>3 DEF v
  <2>5. chan' \in Queues /\ chan'[u] = Tail(chan[u])
        /\ \A s \in Channels \ {u} : chan'[s] = chan[s]
    BY <1>0, <1>a, <2>1 DEF Queues
  <2>6. Moved(PlacesOf(chan, held, received), PlacesOf(chan', held', received), Place[u])
    BY <1>0, <1>a, <2>1, <2>3, <2>4, <2>5, TakeMoves
  <2>7. Place[u] \in 2..12
    <3>1. Place[u] \in 4..12
      BY <1>a, PlaceNumbers
    <3>. QED  BY <3>1
  <2>. QED  BY <2>1, <2>6, <2>7
<1>2. ASSUME NEW t \in Tasks,
             chan' = [chan EXCEPT ![Following[StageOf(t)]] = Append(@, held[t])],
             held[t] # None, held' = [held EXCEPT ![t] = None], received' = received
      PROVE  Passage
  <2>. DEFINE u == StageOf(t)
  <2>1. HandIn(held, u) = << held[t] >>
    BY <1>2, HandOfTask
  <2>2. /\ HandIn(held', u) = << >>
        /\ \A s \in Stages \ {u} : HandIn(held', s) = HandIn(held, s)
    BY <1>0, <1>2, HandChange
  <2>3. u \in Stages /\ Following[u] \in Channels
    BY <1>a, PlaceNumbers
  <2>4. held[t] \in Requests
    BY <1>0, <1>2 DEF Grips
  <2>5. /\ chan' \in Queues /\ chan'[Following[u]] = Append(chan[Following[u]], held[t])
        /\ \A s \in Channels \ {Following[u]} : chan'[s] = chan[s]
    BY <1>0, <1>2, <2>3, <2>4 DEF Queues
  <2>6. Moved(PlacesOf(chan, held, received), PlacesOf(chan', held', received), Place[u] - 1)
    BY <1>0, <2>1, <2>2, <2>3, <2>5, PutMoves
  <2>7. Place[u] - 1 \in 2..12
    <3>1. Place[u] \in 4..12
      BY <2>3, PlaceNumbers
    <3>. QED  BY <3>1
  <2>. QED  BY <1>2, <2>6, <2>7
<1>3. ASSUME NEW t \in Tasks, Queue(t) PROVE Passage
  <2>1. held[t] # None
    BY <1>3 DEF Queue, Sends, Inv, Hands
  <2>. QED  BY <1>2, <1>3, <2>1 DEF Queue, Enqueued, Target, Release
<1>4. CASE Emit
  <2>1. held["stream"] # None
    BY <1>a, <1>4 DEF Emit, Emits, Inv, Hands
  <2>2. Following[StageOf("stream")] = "output"
    BY <1>a DEF Following
  <2>. QED  BY <1>2, <1>4, <1>a, <2>1, <2>2 DEF Emit, Enqueued, Release
<1>5. CASE ReadOutput
  <2>1. /\ chan["output"] # << >> /\ chan' = [chan EXCEPT !["output"] = Tail(@)]
        /\ received' = Append(received, Head(chan["output"])) /\ held' = held
    BY <1>5 DEF ReadOutput
  <2>2. Moved(PlacesOf(chan, held, received), PlacesOf(chan', held', received'), 2)
    BY <1>0, <2>1, ReadMoves
  <2>. QED  BY <2>2
<1>6. ASSUME NEW r \in Requests, Submit(r) PROVE Passage
  <2>1. /\ chan' = [chan EXCEPT !["rag"] = Append(@, r)]
        /\ received' = received /\ held' = held
    BY <1>6 DEF Submit, Enqueued
  <2>2. Joined(PlacesOf(chan, held, received), PlacesOf(chan', held', received'), r)
    BY <1>0, <2>1, SubmitJoins
  <2>. QED  BY <1>6, <2>2
<1>7. ASSUME NEW s \in Channels, NEW t \in Tasks, received' = received,
             \/ chan' = chan
             \/ chan' = [chan EXCEPT ![s] = << >>]
             \/ chan[s] # << >> /\ chan' = [chan EXCEPT ![s] = Tail(@)],
             held' = held \/ held' = [held EXCEPT ![t] = None]
      PROVE  Passage
  BY <1>0, <1>7, LosingThins
<1>8. ASSUME NEW t \in Tasks, Leave(t) \/ Break(t) PROVE Passage
  BY <1>7, <1>8, <1>a DEF Leave, Break, Stop
<1>9. CASE SinkFails
  BY <1>7, <1>9, <1>a DEF SinkFails, Stop
<1>10. ASSUME NEW t \in Tasks, Shed(t) PROVE Passage
  BY <1>7, <1>10, <1>a DEF Shed, Release
<1>11. CASE SkipExpired
  BY <1>7, <1>11, <1>a DEF SkipExpired, CanReceive, Rest
<1>12. ASSUME NEW w \in Workers, RefuseExpired(w) PROVE Passage
  <2>1. StageOf(w) = "inference" /\ w \in Tasks /\ "inference" \in Channels
    BY <1>a, StagesOfTasks
  <2>. QED  BY <1>7, <1>12, <2>1 DEF RefuseExpired, CanReceive, Rest, Release
<1>13. ASSUME NEW w \in Workers, RefuseOpen(w) \/ CallFails(w) PROVE Passage
  BY <1>7, <1>13, <1>a DEF RefuseOpen, CallFails, Release
<1>14. CASE Discard
  BY <1>7, <1>14, <1>a DEF Discard, Release
<1>15. CASE CloseOutput
  BY <1>7, <1>15, <1>a DEF CloseOutput
<1>16. CASE UNCHANGED <<chan, held, received>>
  BY <1>7, <1>16, <1>a
<1>17. ASSUME NEW w \in Workers, Lock(w) \/ Call(w) \/ Answer(w) PROVE Passage
  BY <1>16, <1>17 DEF Lock, Call, Answer
<1>18. CASE DrainDlq \/ CloseInput \/ Shutdown \/ Tick \/ UNCHANGED vars
            \/ \E r \in Requests : Expire(r)
  BY <1>16, <1>18 DEF DrainDlq, CloseInput, Shutdown, Tick, Expire, vars
<1>. HIDE DEF Passage
<1>. QED
  BY <1>1, <1>3, <1>4, <1>5, <1>6, <1>8, <1>9, <1>10, <1>11, <1>12, <1>13, <1>14,
     <1>15, <1>17, <1>18
     DEF Next, Step, Worker, Stream, Environment

-----------------------------------------------------------------------------
\* What is in the pipeline is sorted, and comes before whatever is still to be
\* submitted.
Ordered ==
    /\ Sorted(PlacesOf(chan, held, received))
    /\ \A r \in Requests : fate[r] = "new" => Ahead(PlacesOf(chan, held, received), r)

LEMMA InitOrdered == ASSUME Cardinality(Workers) = 1 PROVE Init => Ordered
<1>. SUFFICES ASSUME Init PROVE Ordered
  OBVIOUS
<1>. DEFINE P == PlacesOf(chan, held, received)
<1>1. /\ \A s \in Channels : chan[s] = << >>
      /\ \A t \in Tasks : held[t] = None
      /\ received = << >>
  BY DEF Init
<1>2. \A s \in Stages : HandIn(held, s) = << >>
  BY <1>1, HandOfTask, OneTaskPerStage
<1>3. "output" \in Channels /\ Stages \subseteq Channels
  BY DEF Channels
<1>4. /\ P[1] = received /\ P[2] = chan["output"]
      /\ \A s \in Stages : P[Place[s] - 1] = HandIn(held, s) /\ P[Place[s]] = chan[s]
  BY PlaceValues
<1>. HIDE DEF P
<1>5. \A k \in 1..12 : P[k] = << >>
  <2>1. P[1] = << >> /\ P[2] = << >>
    BY <1>1, <1>3, <1>4
  <2>2. \A s \in Stages : P[Place[s] - 1] = << >> /\ P[Place[s]] = << >>
    BY <1>1, <1>2, <1>3, <1>4
  <2>3. \A k \in 1..12 : k = 1 \/ k = 2 \/ \E s \in Stages : k = Place[s] \/ k = Place[s] - 1
    BY PlaceNumbers
  <2>. QED  BY <2>1, <2>2, <2>3, Zenon
<1>6. Len(<< >>) = 0
  OBVIOUS
<1>7. \A k \in 1..12 : 1..Len(P[k]) = {}
  BY <1>5, <1>6
<1>. QED  BY <1>7, Zenon DEF Ordered, Sorted, Ascending, Below, Ahead, P

LEMMA NextOrdered ==
    ASSUME Cardinality(Workers) = 1
    PROVE  Inv /\ Inv' /\ Others /\ Others' /\ Ordered /\ [Next]_vars => Ordered'
<1>. SUFFICES ASSUME Inv, Inv', Others, Others', Ordered, [Next]_vars PROVE Ordered'
  OBVIOUS
<1>. DEFINE P == PlacesOf(chan, held, received)
            Q == PlacesOf(chan', held', received')
<1>1. P \in Lines /\ Q \in Lines
  BY PlacesType DEF Inv, Types, Others, Queues, Grips
<1>2. Sorted(P) /\ \A r \in Requests : fate[r] = "new" => Ahead(P, r)
  BY DEF Ordered
<1>3. Requests \subseteq Nat
  BY PipelineAssumption DEF Requests
<1>4. \A r \in Requests : fate'[r] = "new" => fate[r] = "new"
  BY StepKept DEF Kept, L!Next, L!Accept, L!Deliver, L!DeadLetter, L!Lose, L!Drain, L!Move,
     L!Lost, Inv, Types
<1>5. \/ \E k \in 2..12 : Moved(P, Q, k)
      \/ \E r \in Requests : Submit(r) /\ Joined(P, Q, r)
      \/ Thinned(P, Q)
  BY StepPassage DEF Passage
<1>. HIDE DEF P, Q
<1>6. Sorted(Q) /\ \A r \in Requests : fate'[r] = "new" => Ahead(Q, r)
  <2>1. CASE \E k \in 2..12 : Moved(P, Q, k)
    BY <1>1, <1>2, <1>4, <2>1, MovedSorted
  <2>2. CASE Thinned(P, Q)
    BY <1>1, <1>2, <1>4, <2>2, ThinnedSorted
  <2>3. ASSUME NEW r \in Requests, Submit(r), Joined(P, Q, r)
        PROVE  Sorted(Q) /\ \A x \in Requests : fate'[x] = "new" => Ahead(Q, x)
    <3>1. fate[r] = "new" /\ (\A x \in Requests : x < r => fate[x] # "new")
          /\ fate' = WithFate({r}, "inside")
      BY <2>3 DEF Submit
    <3>2. fate'[r] # "new"
      BY <3>1 DEF WithFate
    <3>3. \A x \in Requests : fate'[x] = "new" => r < x
      BY <1>3, <1>4, <3>1, <3>2
    <3>. QED  BY <1>1, <1>2, <1>3, <1>4, <2>3, <3>1, <3>3, JoinedSorted
  <2>. QED  BY <1>5, <2>1, <2>2, <2>3
<1>. QED  BY <1>6 DEF Ordered, Q

\* The requests on their way, the one that is furthest first.
HeldIn(s) ==
    LET t == CHOOSE t \in TasksOf(s) : TRUE
    IN  IF held[t] = None THEN << >> ELSE << held[t] >>

Line == received \o chan["output"]
        \o HeldIn("stream") \o chan["stream"]
        \o HeldIn("post") \o chan["post"]
        \o HeldIn("inference") \o chan["inference"]
        \o HeldIn("assemble") \o chan["assemble"]
        \o HeldIn("rag") \o chan["rag"]

InOrder ==
    Cardinality(Workers) = 1 =>
        \A i, j \in 1..Len(Line) : i < j => Line[i] < Line[j]

\* With one inference worker, and for any number of requests and any channel
\* sizes, the pipeline never reorders: answers come out in the order in which
\* the input channel accepted the requests, whichever of them expire, fail, are
\* shed, or are dropped by a stage that stops.
THEOREM OrderKept == Spec => []InOrder
<1>1. CASE Cardinality(Workers) = 1
  <2>1. Ordered /\ Inv /\ Others => InOrder
    <3>. SUFFICES ASSUME Ordered, Inv, Others PROVE InOrder
      OBVIOUS
    <3>. DEFINE P == PlacesOf(chan, held, received)
    <3>1. P \in Lines
      BY <1>1, PlacesType DEF Inv, Types, Others, Queues, Grips
    <3>2. Sorted(P)
      BY DEF Ordered
    <3>3. Line = P[1] \o P[2] \o P[3] \o P[4] \o P[5] \o P[6]
                   \o P[7] \o P[8] \o P[9] \o P[10] \o P[11] \o P[12]
      <4>1. \A s \in Stages : HeldIn(s) = HandIn(held, s)
        BY Zenon DEF HeldIn, HandIn, TaskOf
      <4>2. /\ P[1] = received /\ P[2] = chan["output"]
            /\ P[3] = HandIn(held, "stream") /\ P[4] = chan["stream"]
            /\ P[5] = HandIn(held, "post") /\ P[6] = chan["post"]
            /\ P[7] = HandIn(held, "inference") /\ P[8] = chan["inference"]
            /\ P[9] = HandIn(held, "assemble") /\ P[10] = chan["assemble"]
            /\ P[11] = HandIn(held, "rag") /\ P[12] = chan["rag"]
        BY DEF PlacesOf
      <4>3. /\ "stream" \in Stages /\ "post" \in Stages /\ "inference" \in Stages
            /\ "assemble" \in Stages /\ "rag" \in Stages
        BY DEF Stages
      <4>. HIDE DEF P
      <4>. QED  BY <4>1, <4>2, <4>3, Zenon DEF Line
    <3>. HIDE DEF P
    <3>4. Ascending(Line)
      BY <3>1, <3>2, <3>3, LineSorted
    <3>. QED  BY <3>4 DEF Ascending, InOrder
  <2>2. Init => Ordered
    BY <1>1, InitOrdered
  <2>3. Inv /\ Inv' /\ Others /\ Others' /\ Ordered /\ [Next]_vars => Ordered'
    BY <1>1, NextOrdered
  <2>. QED  BY <2>1, <2>2, <2>3, AlwaysOthers, Invariant, PTL DEF Spec
<1>2. CASE Cardinality(Workers) # 1
  <2>1. InOrder
    BY <1>2 DEF InOrder
  <2>. QED  BY <2>1, PTL
<1>. QED  BY <1>1, <1>2

-----------------------------------------------------------------------------
\* With any number of workers: a step takes each place a request has then to
\* one it had before, and keeps the order of two places unless workers hold
\* both.

LEMMA DepthFacts ==
    /\ \A s \in Channels : Depth[s] \in Nat /\ Depth["rag"] <= Depth[s]
    /\ \A s, u \in Channels : Depth[s] = Depth[u] => s = u
    /\ \A s \in Stages : /\ s \in Channels /\ Following[s] \in Channels
                         /\ Depth[Following[s]] = Depth[s] + 1
BY DEF Depth, Following, Channels, Stages

At(c, h, r, p) == Queued(c, r, p) \/ Gripped(h, r, p)

Precedes(c, h, i, j) == \E p, q : At(c, h, i, p) /\ At(c, h, j, q) /\ Further(p, q)

LEMMA LeadsPrecedes ==
    ASSUME NEW i, NEW j
    PROVE  /\ Leads(i, j) <=> Precedes(chan, held, i, j)
           /\ Leads(i, j)' <=> Precedes(chan', held', i, j)
<1>1. \A p : /\ p \in Spots(i) <=> At(chan, held, i, p)
             /\ p \in Spots(j) <=> At(chan, held, j, p)
  BY PlacesListed, Zenon DEF Spots, At
<1>2. \A p : /\ p \in Spots(i)' <=> At(chan', held', i, p)
             /\ p \in Spots(j)' <=> At(chan', held', j, p)
  BY PlacesListed, Zenon DEF Spots, At
<1>. QED  BY <1>1, <1>2, Zenon DEF Leads, Precedes

LEMMA PlaceDepth ==
    ASSUME NEW c \in Queues, NEW h \in Grips, NEW r, NEW p
    PROVE  /\ Queued(c, r, p) => /\ p[2] \in Nat \ {0} /\ p[1] \in Channels
                                 /\ DepthOf(p) = Depth[p[1]] /\ DepthOf(p) \in Nat
           /\ Gripped(h, r, p) => /\ p[2] = 0 /\ StageOf(p[1]) \in Channels
                                  /\ DepthOf(p) = Depth[StageOf(p[1])] /\ DepthOf(p) \in Nat
<1>1. ASSUME Queued(c, r, p)
      PROVE  /\ p[2] \in Nat \ {0} /\ p[1] \in Channels
             /\ DepthOf(p) = Depth[p[1]] /\ DepthOf(p) \in Nat
  <2>1. p[2] \in Nat \ {0} /\ p[1] \in Channels
    BY <1>1 DEF Queued, Queues
  <2>. QED  BY <2>1, DepthFacts DEF DepthOf
<1>2. ASSUME Gripped(h, r, p)
      PROVE  /\ p[2] = 0 /\ StageOf(p[1]) \in Channels
             /\ DepthOf(p) = Depth[StageOf(p[1])] /\ DepthOf(p) \in Nat
  <2>1. p[2] = 0 /\ p[1] \in Tasks
    BY <1>2 DEF Gripped
  <2>2. StageOf(p[1]) \in Channels
    BY <2>1, StagesOfTasks, DepthFacts
  <2>. QED  BY <2>1, <2>2, DepthFacts DEF DepthOf
<1>. QED  BY <1>1, <1>2

\* Requests leave at the heads of queues and from the hands of tasks.
LEMMA LosingKeepsOrder ==
    ASSUME NEW c \in Queues, NEW d \in Queues, NEW h \in Grips, NEW g \in Grips,
           \A s \in Channels : Trailing(c[s], d[s]),
           \A t \in Tasks : g[t] \in {h[t], None},
           NEW i \in Requests, NEW j \in Requests, Precedes(d, g, i, j)
    PROVE  Precedes(c, h, i, j)
<1>0. i # None /\ j # None
  BY PipelineAssumption
<1>. DEFINE off == [s \in Channels |-> IF d[s] = c[s] THEN 0 ELSE 1]
            Back(p) == IF p[2] = 0 THEN p ELSE << p[1], p[2] + off[p[1]] >>
<1>1. \A s \in Channels :
        /\ off[s] \in {0, 1}
        /\ \A k \in 1..Len(d[s]) : k + off[s] \in 1..Len(c[s]) /\ d[s][k] = c[s][k + off[s]]
  <2>. SUFFICES ASSUME NEW s \in Channels
                PROVE  /\ off[s] \in {0, 1}
                       /\ \A k \in 1..Len(d[s]) : /\ k + off[s] \in 1..Len(c[s])
                                                 /\ d[s][k] = c[s][k + off[s]]
    OBVIOUS
  <2>1. off[s] = IF d[s] = c[s] THEN 0 ELSE 1
    OBVIOUS
  <2>2. c[s] \in Seq(Requests) /\ d[s] \in Seq(Requests) /\ Trailing(c[s], d[s])
    BY DEF Queues
  <2>. HIDE DEF off
  <2>3. CASE d[s] = c[s]
    BY <2>1, <2>2, <2>3
  <2>4. CASE d[s] # c[s] /\ d[s] = << >>
    BY <2>1, <2>2, <2>4
  <2>5. CASE d[s] # c[s] /\ c[s] # << >> /\ d[s] = Tail(c[s])
    BY <2>1, <2>2, <2>5
  <2>. QED  BY <2>2, <2>3, <2>4, <2>5 DEF Trailing
<1>. HIDE DEF off
<1>2. ASSUME NEW r \in Requests, r # None, NEW p, At(d, g, r, p)
      PROVE  /\ At(c, h, r, Back(p)) /\ DepthOf(Back(p)) = DepthOf(p)
             /\ Back(p)[2] = 0 <=> p[2] = 0
  <2>1. CASE Queued(d, r, p)
    <3>1. p[1] \in Channels /\ p[2] \in 1..Len(d[p[1]]) /\ p[2] # 0
      BY <2>1, PlaceDepth DEF Queued
    <3>2. Back(p) = << p[1], p[2] + off[p[1]] >>
      BY <3>1
    <3>3. Queued(c, r, Back(p))
      BY <1>1, <2>1, <3>1, <3>2 DEF Queued
    <3>4. Back(p)[1] = p[1]
      BY <3>2
    <3>. QED  BY <2>1, <3>1, <3>3, <3>4, PlaceDepth DEF At
  <2>2. CASE Gripped(g, r, p)
    <3>1. Back(p) = p
      BY <2>2, PlaceDepth
    <3>2. Gripped(h, r, p)
      BY <1>2, <2>2 DEF Gripped
    <3>. QED  BY <3>1, <3>2 DEF At
  <2>. QED  BY <1>2, <2>1, <2>2 DEF At
<1>3. PICK p, q : At(d, g, i, p) /\ At(d, g, j, q) /\ Further(p, q)
  BY DEF Precedes
<1>4. Further(Back(p), Back(q))
  <2>1. CASE DepthOf(p) > DepthOf(q)
    BY <1>0, <1>2, <1>3, <2>1 DEF Further
  <2>2. CASE DepthOf(p) = DepthOf(q) /\ p[2] < q[2]
    <3>1. p[2] \in Nat /\ q[2] \in Nat
      BY <1>3, PlaceDepth DEF At
    <3>2. Queued(d, j, q)
      BY <1>3, <2>2, <3>1, PlaceDepth DEF At
    <3>3. q[1] \in Channels /\ Back(q) = << q[1], q[2] + off[q[1]] >>
      BY <2>2, <3>1, <3>2, PlaceDepth
    <3>4. CASE Queued(d, i, p)
      <4>1. p[1] = q[1] /\ p[2] # 0
        BY <2>2, <3>2, <3>4, DepthFacts, PlaceDepth
      <4>2. Back(p) = << p[1], p[2] + off[p[1]] >>
        BY <4>1
      <4>3. Back(p)[2] < Back(q)[2]
        BY <1>1, <2>2, <3>1, <3>3, <4>1, <4>2
      <4>. QED  BY <1>0, <1>2, <1>3, <2>2, <4>3 DEF Further
    <3>5. CASE Gripped(g, i, p)
      <4>1. Back(p)[2] = 0 /\ Back(q)[2] > 0
        BY <1>1, <2>2, <3>1, <3>3, <3>5, PlaceDepth
      <4>. QED  BY <1>0, <1>2, <1>3, <2>2, <4>1 DEF Further
    <3>. QED  BY <1>3, <3>4, <3>5 DEF At
  <2>. QED  BY <1>3, <2>1, <2>2 DEF Further
<1>. QED  BY <1>0, <1>2, <1>3, <1>4 DEF Precedes

\* Task t takes the head of its queue.
Taken(c, d, h, g, t) ==
    /\ c[StageOf(t)] # << >>
    /\ d = [c EXCEPT ![StageOf(t)] = Tail(@)]
    /\ g = [h EXCEPT ![t] = Head(c[StageOf(t)])]

LEMMA TakingKeepsOrder ==
    ASSUME NEW c \in Queues, NEW d \in Queues, NEW h \in Grips, NEW g \in Grips,
           NEW t \in Tasks, Taken(c, d, h, g, t),
           NEW i \in Requests, NEW j \in Requests, Precedes(d, g, i, j)
    PROVE  Precedes(c, h, i, j)
<1>. DEFINE s == StageOf(t)
            Back(p) == IF p = << t, 0 >> THEN << s, 1 >>
                       ELSE IF p[2] # 0 /\ p[1] = s THEN << s, p[2] + 1 >>
                       ELSE p
<1>1. /\ s \in Channels /\ c[s] \in Seq(Requests) /\ c[s] # << >> /\ d[s] = Tail(c[s])
      /\ \A u \in Channels \ {s} : d[u] = c[u]
      /\ g[t] = c[s][1] /\ \A v \in Tasks \ {t} : g[v] = h[v]
  <2>1. s \in Channels
    BY StagesOfTasks, DepthFacts
  <2>. QED  BY <2>1 DEF Taken, Queues, Grips
<1>s. s = StageOf(t)
  OBVIOUS
<1>. HIDE DEF s
<1>2. /\ 1 \in 1..Len(c[s])
      /\ \A k \in 1..Len(d[s]) : k + 1 \in 1..Len(c[s]) /\ d[s][k] = c[s][k + 1]
  <2>. DEFINE q == c[s]
  <2>1. q \in Seq(Requests) /\ q # << >> /\ d[s] = Tail(q)
    BY <1>1
  <2>. HIDE DEF q
  <2>2. /\ 1 \in 1..Len(q)
        /\ \A k \in 1..Len(Tail(q)) : k + 1 \in 1..Len(q) /\ Tail(q)[k] = q[k + 1]
    BY <2>1
  <2>3. /\ 1 \in 1..Len(q)
        /\ \A k \in 1..Len(d[s]) : k + 1 \in 1..Len(q) /\ d[s][k] = q[k + 1]
    BY <2>1, <2>2, Zenon
  <2>. QED  BY <2>3 DEF q
<1>3. ASSUME NEW r, NEW p, Queued(d, r, p)
      PROVE  /\ p # << t, 0 >> /\ p[1] \in Channels /\ p[2] \in Nat \ {0}
             /\ Queued(c, r, Back(p)) /\ Back(p)[1] = p[1]
             /\ Back(p)[2] \in Nat \ {0}
             /\ p[1] = s => Back(p)[2] = p[2] + 1
             /\ p[1] # s => Back(p)[2] = p[2]
  <2>1. /\ p = << p[1], p[2] >> /\ p[1] \in Channels
        /\ p[2] \in 1..Len(d[p[1]]) /\ d[p[1]][p[2]] = r
    BY <1>3 DEF Queued
  <2>2. p[2] \in Nat \ {0} /\ p # << t, 0 >>
    BY <1>3, PlaceDepth
  <2>3. CASE p[1] = s
    <3>1. Back(p) = << s, p[2] + 1 >>
      BY <2>2, <2>3
    <3>2. Back(p)[1] = s /\ Back(p)[2] = p[2] + 1
      BY <3>1
    <3>3. p[2] \in 1..Len(d[s]) /\ d[s][p[2]] = r
      BY <2>1, <2>3
    <3>4. p[2] + 1 \in 1..Len(c[s]) /\ c[s][p[2] + 1] = r
      BY <1>2, <3>3
    <3>5. p[2] + 1 \in Nat \ {0}
      BY <2>2
    <3>. QED  BY <1>1, <2>1, <2>2, <2>3, <3>1, <3>2, <3>4, <3>5 DEF Queued
  <2>4. CASE p[1] # s
    <3>1. Back(p) = p
      BY <2>2, <2>4
    <3>. QED  BY <1>1, <2>1, <2>2, <2>4, <3>1 DEF Queued
  <2>. QED  BY <2>3, <2>4
<1>4. ASSUME NEW r, NEW p, Gripped(g, r, p), p # << t, 0 >>
      PROVE  Gripped(h, r, p) /\ Back(p) = p
  <2>1. p = << p[1], 0 >> /\ p[1] \in Tasks \ {t} /\ p[2] = 0 /\ g[p[1]] = r
    BY <1>4, PlaceDepth DEF Gripped
  <2>2. Back(p) = p
    BY <1>4, <2>1
  <2>. QED  BY <1>1, <2>1, <2>2 DEF Gripped
<1>5. ASSUME NEW r, Gripped(g, r, << t, 0 >>)
      PROVE  /\ Queued(c, r, << s, 1 >>) /\ DepthOf(<< s, 1 >>) = Depth[s]
             /\ DepthOf(<< t, 0 >>) = Depth[s]
  <2>1. Queued(c, r, << s, 1 >>)
    BY <1>1, <1>2, <1>5 DEF Queued, Gripped
  <2>. QED  BY <2>1, <1>s DEF DepthOf
<1>6. Back(<< t, 0 >>) = << s, 1 >>
  OBVIOUS
<1>. HIDE DEF Back
<1>7. PICK p, q : At(d, g, i, p) /\ At(d, g, j, q) /\ Further(p, q)
  BY DEF Precedes
<1>8. ASSUME NEW r, NEW x, At(d, g, r, x)
      PROVE  /\ At(c, h, r, Back(x)) /\ DepthOf(Back(x)) = DepthOf(x)
             /\ DepthOf(x) \in Nat /\ Back(x)[2] \in Nat
  <2>1. CASE Queued(d, r, x)
    <3>1. /\ Queued(c, r, Back(x)) /\ Back(x)[1] = x[1] /\ Back(x)[2] \in Nat
      BY <1>3, <2>1
    <3>2. DepthOf(x) = Depth[x[1]] /\ DepthOf(x) \in Nat
      BY <2>1, PlaceDepth
    <3>3. DepthOf(Back(x)) = Depth[Back(x)[1]]
      BY <3>1, PlaceDepth
    <3>. QED  BY <3>1, <3>2, <3>3 DEF At
  <2>2. CASE Gripped(g, r, x) /\ x # << t, 0 >>
    <3>1. Gripped(h, r, x) /\ Back(x) = x
      BY <1>4, <2>2
    <3>2. x[2] = 0 /\ DepthOf(x) \in Nat
      BY <2>2, PlaceDepth
    <3>. QED  BY <3>1, <3>2 DEF At
  <2>3. CASE x = << t, 0 >> /\ Gripped(g, r, x)
    <3>1. /\ Queued(c, r, << s, 1 >>) /\ DepthOf(<< s, 1 >>) = DepthOf(x)
          /\ Back(x) = << s, 1 >>
      BY <1>5, <1>6, <2>3
    <3>2. DepthOf(x) \in Nat
      BY <2>3, PlaceDepth
    <3>. QED  BY <3>1, <3>2 DEF At
  <2>. QED  BY <1>8, <2>1, <2>2, <2>3 DEF At
<1>9. Further(Back(p), Back(q))
  <2>1. CASE DepthOf(p) > DepthOf(q)
    <3>1. DepthOf(Back(p)) = DepthOf(p) /\ DepthOf(Back(q)) = DepthOf(q)
      BY <1>7, <1>8
    <3>. QED  BY <2>1, <3>1 DEF Further
  <2>2. CASE DepthOf(p) = DepthOf(q) /\ p[2] < q[2]
    <3>1. Queued(d, j, q)
      BY <1>7, <2>2, PlaceDepth DEF At
    <3>2. /\ q[1] \in Channels /\ DepthOf(q) = Depth[q[1]] /\ q[2] \in Nat \ {0}
          /\ Back(q)[2] \in Nat \ {0}
          /\ q[1] = s => Back(q)[2] = q[2] + 1
          /\ q[1] # s => Back(q)[2] = q[2]
      BY <1>3, <3>1, PlaceDepth
    <3>3. CASE Queued(d, i, p)
      <4>1. p[1] = q[1] /\ p[2] \in Nat
        BY <2>2, <3>2, <3>3, DepthFacts, PlaceDepth
      <4>2. /\ p[1] = s => Back(p)[2] = p[2] + 1
            /\ p[1] # s => Back(p)[2] = p[2]
        BY <1>3, <3>3
      <4>3. Back(p)[2] < Back(q)[2]
        BY <2>2, <3>2, <4>1, <4>2
      <4>. QED  BY <1>7, <1>8, <2>2, <4>3 DEF Further
    <3>4. CASE Gripped(g, i, p) /\ p # << t, 0 >>
      <4>1. Back(p)[2] = 0
        BY <1>4, <3>4, PlaceDepth
      <4>2. Back(p)[2] < Back(q)[2]
        BY <3>2, <4>1
      <4>. QED  BY <1>7, <1>8, <2>2, <4>2 DEF Further
    <3>5. CASE Gripped(g, i, p) /\ p = << t, 0 >>
      <4>1. q[1] = s
        <5>1. DepthOf(p) = Depth[s]
          BY <1>5, <3>5
        <5>2. Depth[q[1]] = Depth[s]
          BY <2>2, <3>2, <5>1
        <5>. QED  BY <1>1, <3>2, <5>2, DepthFacts
      <4>2. Back(p)[2] < Back(q)[2]
        BY <1>6, <3>2, <3>5, <4>1
      <4>. QED  BY <1>7, <1>8, <2>2, <4>2 DEF Further
    <3>. QED  BY <1>7, <3>3, <3>4, <3>5 DEF At
  <2>. QED  BY <1>7, <2>1, <2>2 DEF Further
<1>. QED  BY <1>7, <1>8, <1>9 DEF Precedes

HeldByWorkers(h, i, j) == (\E w \in Workers : h[w] = i) /\ (\E w \in Workers : h[w] = j)

\* A task puts its request at the end of the next queue.  It passes nothing
\* but what the other tasks of its stage hold.
LEMMA PuttingKeepsOrder ==
    ASSUME NEW c \in Queues, NEW d \in Queues, NEW h \in Grips, NEW g \in Grips,
           NEW t \in Tasks, h[t] # None,
           d = [c EXCEPT ![Following[StageOf(t)]] = Append(@, h[t])],
           g = [h EXCEPT ![t] = None],
           NEW i \in Requests, NEW j \in Requests, Precedes(d, g, i, j)
    PROVE  Precedes(c, h, i, j) \/ HeldByWorkers(h, i, j)
<1>. DEFINE s == StageOf(t)
            u == Following[s]
            n == Len(c[u]) + 1
<1>0. None \notin Requests
  BY PipelineAssumption
<1>1. /\ s \in Stages /\ s \in Channels /\ u \in Channels
      /\ Depth[s] \in Nat /\ Depth[u] = Depth[s] + 1
  BY StagesOfTasks, DepthFacts
<1>2. /\ c[u] \in Seq(Requests) /\ n \in Nat \ {0} /\ Len(d[u]) = n /\ d[u][n] = h[t]
      /\ \A k \in 1..Len(d[u]) : k # n => k \in 1..Len(c[u]) /\ d[u][k] = c[u][k]
      /\ \A x \in Channels \ {u} : d[x] = c[x]
      /\ g[t] = None /\ \A v \in Tasks \ {t} : g[v] = h[v]
  <2>1. c[u] \in Seq(Requests) /\ h[t] \in Requests
    BY <1>1 DEF Queues, Grips
  <2>2. d[u] = Append(c[u], h[t]) /\ \A x \in Channels \ {u} : d[x] = c[x]
    BY <1>1 DEF Queues
  <2>3. g[t] = None /\ \A v \in Tasks \ {t} : g[v] = h[v]
    BY DEF Grips
  <2>. HIDE DEF u
  <2>. QED  BY <2>1, <2>2, <2>3
<1>3. DepthOf(<< t, 0 >>) = Depth[s]
  BY DEF DepthOf
<1>. HIDE DEF s, u, n
<1>4. ASSUME NEW r, NEW p, Queued(d, r, p), p # << u, n >>
      PROVE  Queued(c, r, p)
  BY <1>2, <1>4 DEF Queued
<1>5. ASSUME NEW r \in Requests, NEW p, Gripped(g, r, p)
      PROVE  Gripped(h, r, p) /\ p # << t, 0 >>
  BY <1>0, <1>2, <1>5 DEF Gripped
<1>6. ASSUME NEW r, Queued(d, r, << u, n >>)
      PROVE  /\ Gripped(h, r, << t, 0 >>) /\ h[t] = r
             /\ DepthOf(<< u, n >>) = Depth[s] + 1
  <2>1. DepthOf(<< u, n >>) = Depth[s] + 1
    BY <1>1, <1>6, PlaceDepth
  <2>. QED  BY <1>2, <1>6, <2>1 DEF Queued, Gripped
<1>7. PICK p, q : At(d, g, i, p) /\ At(d, g, j, q) /\ Further(p, q)
  BY DEF Precedes
<1>8. DepthOf(p) \in Nat /\ DepthOf(q) \in Nat /\ p[2] \in Nat /\ q[2] \in Nat
  BY <1>7, PlaceDepth DEF At
<1>9. CASE p # << u, n >> /\ q # << u, n >>
  BY <1>4, <1>5, <1>7, <1>9 DEF At, Precedes
<1>10. CASE p # << u, n >> /\ q = << u, n >>
  <2>1. Queued(d, j, q)
    BY <1>2, <1>7, <1>10, PlaceDepth DEF At
  <2>2. At(c, h, i, p) /\ At(c, h, j, << t, 0 >>)
    BY <1>4, <1>5, <1>6, <1>7, <1>10, <2>1 DEF At
  <2>3. DepthOf(p) > DepthOf(<< t, 0 >>)
    <3>1. DepthOf(q) = Depth[s] + 1
      BY <1>6, <1>10, <2>1
    <3>2. DepthOf(p) >= DepthOf(q)
      BY <1>7, <1>8 DEF Further
    <3>. QED  BY <1>1, <1>3, <1>8, <3>1, <3>2
  <2>. QED  BY <2>2, <2>3 DEF Precedes, Further
<1>11. CASE p = << u, n >>
  <2>1. Queued(d, i, p)
    BY <1>2, <1>7, <1>11, PlaceDepth DEF At
  <2>2. Gripped(h, i, << t, 0 >>) /\ h[t] = i /\ DepthOf(p) = Depth[s] + 1 /\ p[2] = n
    BY <1>6, <1>11, <2>1
  <2>3. DepthOf(q) <= Depth[s]
    <3>1. CASE DepthOf(p) > DepthOf(q)
      BY <1>1, <1>8, <2>2, <3>1
    <3>2. CASE DepthOf(p) = DepthOf(q) /\ p[2] < q[2]
      <4>1. Queued(d, j, q)
        BY <1>2, <1>7, <1>8, <2>2, <3>2, PlaceDepth DEF At
      <4>2. q[1] = u
        BY <1>1, <2>2, <3>2, <4>1, DepthFacts, PlaceDepth
      <4>. QED  BY <1>2, <1>8, <2>2, <3>2, <4>1, <4>2 DEF Queued
    <3>. QED  BY <1>7, <3>1, <3>2 DEF Further
  <2>4. q # << u, n >>
    BY <1>1, <1>8, <2>2, <2>3, <1>11
  <2>5. At(c, h, j, q)
    BY <1>4, <1>5, <1>7, <2>4 DEF At
  <2>6. CASE DepthOf(q) < Depth[s]
    BY <1>1, <1>3, <1>8, <2>2, <2>5, <2>6 DEF Precedes, Further, At
  <2>7. CASE DepthOf(q) = Depth[s] /\ Queued(d, j, q)
    <3>1. << t, 0 >>[2] < q[2]
      BY <2>7, PlaceDepth
    <3>. QED  BY <1>3, <2>2, <2>5, <2>7, <3>1 DEF Precedes, Further, At
  <2>8. CASE DepthOf(q) = Depth[s] /\ Gripped(g, j, q)
    <3>1. q[1] \in Tasks \ {t} /\ h[q[1]] = j
      BY <1>5, <2>8 DEF Gripped
    <3>2. StageOf(q[1]) = StageOf(t)
      BY <1>1, <2>8, DepthFacts, PlaceDepth DEF s
    <3>3. q[1] \in Workers /\ t \in Workers
      BY <3>1, <3>2, StagesOfTasks, PipelineAssumption DEF Tasks, Single, StageOf
    <3>. QED  BY <2>2, <3>1, <3>3 DEF HeldByWorkers
  <2>. QED  BY <1>1, <1>7, <1>8, <2>3, <2>6, <2>7, <2>8 DEF At
<1>. QED  BY <1>9, <1>10, <1>11

\* A request is submitted behind all others.
LEMMA SubmittingKeepsOrder ==
    ASSUME NEW c \in Queues, NEW d \in Queues, NEW h \in Grips, NEW r \in Requests,
           d = [c EXCEPT !["rag"] = Append(@, r)],
           NEW i \in Requests, NEW j \in Requests, j # r, Precedes(d, h, i, j)
    PROVE  Precedes(c, h, i, j)
<1>. DEFINE n == Len(c["rag"]) + 1
<1>1. "rag" \in Channels
  BY DEF Channels, Stages
<1>2. /\ n \in Nat \ {0} /\ Len(d["rag"]) = n /\ d["rag"][n] = r
      /\ \A k \in 1..Len(d["rag"]) : k # n => k \in 1..Len(c["rag"]) /\ d["rag"][k] = c["rag"][k]
      /\ \A x \in Channels \ {"rag"} : d[x] = c[x]
  <2>1. c["rag"] \in Seq(Requests)
    BY <1>1 DEF Queues
  <2>2. d["rag"] = Append(c["rag"], r) /\ \A x \in Channels \ {"rag"} : d[x] = c[x]
    BY <1>1 DEF Queues
  <2>. QED  BY <2>1, <2>2
<1>. HIDE DEF n
<1>3. ASSUME NEW x, NEW p, At(d, h, x, p), p # << "rag", n >>
      PROVE  At(c, h, x, p)
  BY <1>2, <1>3 DEF At, Queued
<1>4. PICK p, q : At(d, h, i, p) /\ At(d, h, j, q) /\ Further(p, q)
  BY DEF Precedes
<1>5. q # << "rag", n >>
  <2>1. ~Queued(d, j, << "rag", n >>)
    BY <1>2 DEF Queued
  <2>2. ~Gripped(h, j, << "rag", n >>)
    BY <1>2, PlaceDepth
  <2>. QED  BY <1>4, <2>1, <2>2 DEF At
<1>6. p # << "rag", n >>
  <2>. SUFFICES ASSUME p = << "rag", n >> PROVE FALSE
    OBVIOUS
  <2>1. DepthOf(p) = Depth["rag"] /\ p[2] = n
    BY <1>2 DEF DepthOf
  <2>2. DepthOf(q) \in Nat /\ DepthOf(q) >= Depth["rag"]
    BY <1>4, DepthFacts, PlaceDepth DEF At
  <2>3. DepthOf(q) = Depth["rag"] /\ n < q[2]
    BY <1>1, <1>4, <2>1, <2>2, DepthFacts DEF Further
  <2>4. Queued(d, j, q)
    BY <1>2, <1>4, <2>3, PlaceDepth DEF At
  <2>5. q[1] = "rag"
    BY <1>1, <2>3, <2>4, DepthFacts, PlaceDepth
  <2>. QED  BY <1>2, <2>3, <2>4, <2>5 DEF Queued
<1>. QED  BY <1>3, <1>4, <1>5, <1>6 DEF Precedes

LEMMA StepKeepsOrder ==
    ASSUME Inv, Inv', [Next]_vars,
           NEW i \in Requests, NEW j \in Requests, Precedes(chan', held', i, j)
    PROVE  Precedes(chan, held, i, j) \/ fate[j] = "new" \/ (WithWorker(i) /\ WithWorker(j))
<1>. DEFINE Goal == Precedes(chan, held, i, j) \/ fate[j] = "new"
                      \/ (WithWorker(i) /\ WithWorker(j))
<1>. SUFFICES Goal
  OBVIOUS
<1>0. chan \in Queues /\ held \in Grips /\ chan' \in Queues /\ held' \in Grips
  BY DEF Inv, Types, Queues, Grips
<1>a. /\ \A t \in Tasks : StageOf(t) \in Channels
      /\ "stream" \in Tasks /\ StageOf("stream") = "stream"
      /\ "rag" \in Tasks /\ StageOf("rag") = "rag"
      /\ \A w \in Workers : w \in Tasks /\ StageOf(w) = "inference"
      /\ "output" \in Channels
  BY StagesOfTasks DEF Channels, Stages, Single, Tasks
<1>1. ASSUME NEW t \in Tasks, Receive(t) PROVE Goal
  <2>1. Taken(chan, chan', held, held', t)
    BY <1>1 DEF Taken, Receive, CanReceive, Incoming, Rest
  <2>2. Precedes(chan, held, i, j)
    BY <1>0, <2>1, TakingKeepsOrder
  <2>. QED  BY <2>2
<1>2. ASSUME NEW t \in Tasks, held[t] # None,
             chan' = [chan EXCEPT ![Following[StageOf(t)]] = Append(@, held[t])],
             held' = [held EXCEPT ![t] = None]
      PROVE  Goal
  <2>1. Precedes(chan, held, i, j) \/ HeldByWorkers(held, i, j)
    BY <1>0, <1>2, PuttingKeepsOrder
  <2>. QED  BY <2>1 DEF HeldByWorkers, WithWorker
<1>3. ASSUME NEW t \in Tasks, Queue(t) PROVE Goal
  <2>1. held[t] # None
    BY <1>3 DEF Queue, Sends, Inv, Hands
  <2>. QED  BY <1>2, <1>3, <2>1 DEF Queue, Enqueued, Target, Release
<1>4. CASE Emit
  <2>1. held["stream"] # None
    BY <1>a, <1>4 DEF Emit, Emits, Inv, Hands
  <2>2. Following[StageOf("stream")] = "output"
    BY <1>a DEF Following
  <2>. QED  BY <1>2, <1>4, <1>a, <2>1, <2>2 DEF Emit, Enqueued, Release
<1>5. ASSUME NEW r \in Requests, Submit(r) PROVE Goal
  <2>1. chan' = [chan EXCEPT !["rag"] = Append(@, r)] /\ held' = held /\ fate[r] = "new"
    BY <1>5 DEF Submit, Enqueued
  <2>. QED  BY <1>0, <2>1, SubmittingKeepsOrder
\* Every other step takes heads of queues and requests in hand out of the pipeline.
<1>6. ASSUME NEW s \in Channels, NEW t \in Tasks,
             \/ chan' = chan
             \/ chan' = [chan EXCEPT ![s] = << >>]
             \/ chan[s] # << >> /\ chan' = [chan EXCEPT ![s] = Tail(@)],
             held' = held \/ held' = [held EXCEPT ![t] = None]
      PROVE  Goal
  <2>1. \A u \in Channels : Trailing(chan[u], chan'[u])
    BY <1>0, <1>6 DEF Queues, Trailing
  <2>2. \A v \in Tasks : held'[v] \in {held[v], None}
    BY <1>0, <1>6 DEF Grips
  <2>. QED  BY <1>0, <2>1, <2>2, LosingKeepsOrder
<1>7. ASSUME NEW t \in Tasks, Leave(t) \/ Break(t) \/ Shed(t) PROVE Goal
  BY <1>6, <1>7, <1>a DEF Leave, Break, Shed, Stop, Release
<1>8. CASE Discard \/ SinkFails
  BY <1>6, <1>8, <1>a DEF Discard, SinkFails, Stop, Release
<1>9. CASE SkipExpired
  BY <1>6, <1>9, <1>a DEF SkipExpired, CanReceive, Rest
<1>10. ASSUME NEW w \in Workers, RefuseExpired(w) PROVE Goal
  BY <1>6, <1>10, <1>a DEF RefuseExpired, CanReceive, Rest, Release
<1>11. ASSUME NEW w \in Workers, RefuseOpen(w) \/ CallFails(w) PROVE Goal
  BY <1>6, <1>11, <1>a DEF RefuseOpen, CallFails, Release
<1>12. CASE ReadOutput \/ CloseOutput
  BY <1>6, <1>12, <1>a DEF ReadOutput, CloseOutput
<1>13. CASE UNCHANGED <<chan, held>>
  BY <1>6, <1>13, <1>a
<1>14. ASSUME NEW w \in Workers, Lock(w) \/ Call(w) \/ Answer(w) PROVE Goal
  BY <1>13, <1>14 DEF Lock, Call, Answer
<1>15. CASE DrainDlq \/ CloseInput \/ Shutdown \/ Tick \/ UNCHANGED vars
            \/ \E r \in Requests : Expire(r)
  BY <1>13, <1>15 DEF DrainDlq, CloseInput, Shutdown, Tick, Expire, vars
<1>. HIDE DEF Goal
<1>. QED
  <2>1. CASE \E t \in Tasks : Step(t)
    BY <1>1, <1>3, <1>7, <2>1 DEF Step
  <2>2. CASE \E w \in Workers : Worker(w)
    BY <1>10, <1>11, <1>14, <2>2 DEF Worker
  <2>3. CASE SkipExpired \/ Stream
    BY <1>4, <1>8, <1>9, <2>3 DEF Stream
  <2>4. CASE Environment \/ UNCHANGED vars
    BY <1>5, <1>12, <1>15, <2>4 DEF Environment
  <2>. QED  BY <2>1, <2>2, <2>3, <2>4 DEF Next

\* A request passes another only while inference workers hold both
\* (NoOvertaking), for any number of workers and requests and any channel sizes.
THEOREM OvertakingOnlyByWorkers == Spec => NoOvertaking
<1>. DEFINE Orderly == \A i, j \in Moving' : i # j /\ Leads(i, j)' =>
                         Leads(i, j) \/ fate[j] = "new" \/ (WithWorker(i) /\ WithWorker(j))
<1>1. Inv /\ Inv' /\ [Next]_vars => Orderly
  <2>. SUFFICES ASSUME Inv, Inv', [Next]_vars, NEW i \in Moving', NEW j \in Moving',
                       Leads(i, j)'
                PROVE  Leads(i, j) \/ fate[j] = "new" \/ (WithWorker(i) /\ WithWorker(j))
    OBVIOUS
  <2>1. i \in Requests /\ j \in Requests
    BY DEF Moving
  <2>2. Precedes(chan', held', i, j)
    BY LeadsPrecedes
  <2>. QED  BY <2>1, <2>2, StepKeepsOrder, LeadsPrecedes
<1>2. Inv /\ Inv' /\ [Next]_vars => [Orderly]_vars
  BY <1>1
<1>. HIDE DEF Orderly
<1>3. Spec => [][Orderly]_vars
  BY <1>2, Invariant, PTL DEF Spec
<1>. QED  BY <1>3 DEF Orderly, NoOvertaking

-----------------------------------------------------------------------------
(* Shutdown by closing the input.  Nothing is abandoned because no stage    *)
(* stops before the one that feeds it: a stopped task has no sender left.   *)

Undisturbed == ~cancelled /\ ~SinkMayFail /\ outputOpen

NoneAbandoned == \A r \in Requests : fate[r] # "abandoned"

StopsInTurn == \A t \in Tasks : at[t] = "stopped" => SendersGone(StageOf(t))

Draining == Undisturbed => NoneAbandoned /\ StopsInTurn

\* Tasks stay stopped and the input stays closed, so senders stay gone.
LEMMA SendersStayGone ==
    ASSUME \A t \in Tasks : at[t] = "stopped" => at'[t] = "stopped",
           ~inputOpen => ~inputOpen',
           NEW s \in Channels, SendersGone(s)
    PROVE  SendersGone(s)'
<1>1. \A p \in Stages : TasksOf(p) \subseteq Tasks
  BY DEF TasksOf, Tasks, Single, Stages
<1>2. \A p \in Stages : Stopped(p) => Stopped(p)'
  BY <1>1 DEF Stopped
<1>. QED  BY <1>2 DEF SendersGone

\* A stage that cannot send because its receiver is gone was left without
\* senders before: it would be stopped itself.
LEMMA NoBreak ==
    ASSUME StopsInTurn, outputOpen, NEW t \in Tasks
    PROVE  ~Break(t)
<1>. SUFFICES ASSUME Break(t) PROVE FALSE
  OBVIOUS
<1>. DEFINE p == StageOf(t)
            n == Following[p]
<1>1. t # "stream" /\ at[t] \in {"busy", "answered"} /\ ReceiverGone(n)
  BY DEF Break, Sends, Target
<1>2. p \in Stages /\ p # "stream" /\ t \in TasksOf(p)
  BY <1>1, StagesOfTasks, PipelineAssumption DEF StageOf, TasksOf, Tasks, Single
<1>3. n \in Stages /\ n # "output" /\ n # "rag"
  BY <1>2 DEF Following, Stages
<1>4. Stopped(n)
  BY <1>1, <1>3 DEF ReceiverGone
<1>5. PICK u \in TasksOf(n) : u \in Tasks /\ StageOf(u) = n
  <2>1. CASE n = "inference"
    BY <2>1, PipelineAssumption DEF TasksOf, Tasks, StageOf
  <2>2. CASE n # "inference"
    BY <1>3, <2>2, PipelineAssumption DEF TasksOf, Tasks, StageOf, Single
  <2>. QED  BY <2>1, <2>2
<1>6. SendersGone(n)
  BY <1>4, <1>5 DEF Stopped, StopsInTurn
<1>7. Stopped(p)
  BY <1>2, <1>3, <1>6 DEF SendersGone
<1>. QED  BY <1>1, <1>2, <1>7 DEF Stopped

LEMMA NextDraining == Inv /\ Draining /\ [Next]_vars => Draining'
<1>. SUFFICES ASSUME Inv, Draining, [Next]_vars, Undisturbed'
              PROVE  NoneAbandoned' /\ StopsInTurn'
  BY DEF Draining
<1>0. at \in [Tasks -> Phases] /\ fate \in [Requests -> L!Fates]
  BY DEF Inv, Types
<1>. USE <1>0
<1>1. Undisturbed /\ ~CloseOutput /\ ~SinkFails /\ (~inputOpen => ~inputOpen')
  <2>1. /\ inputOpen' = inputOpen \/ inputOpen' = FALSE
        /\ outputOpen' = outputOpen \/ outputOpen' = FALSE
        /\ cancelled' = cancelled \/ cancelled' = TRUE
    BY DEF Next, Step, Receive, Leave, Queue, Shed, Break, Worker, Lock, RefuseExpired,
           RefuseOpen, Call, Answer, CallFails, SkipExpired, Stream, Emit, Discard, SinkFails,
           Environment, Submit, Expire, ReadOutput, DrainDlq, CloseInput, CloseOutput,
           Shutdown, Tick, vars
  <2>2. ~cancelled' /\ ~SinkMayFail /\ outputOpen'
    BY DEF Undisturbed
  <2>3. outputOpen /\ ~cancelled /\ (~inputOpen => ~inputOpen')
    <3>1. outputOpen
      BY <2>1, <2>2
    <3>2. ~cancelled
      BY <2>1, <2>2
    <3>3. ~inputOpen => ~inputOpen'
      BY <2>1
    <3>. QED  BY <3>1, <3>2, <3>3
  <2>4. ~CloseOutput /\ ~SinkFails
    BY <2>2, Zenon DEF CloseOutput, SinkFails
  <2>. QED  BY <2>2, <2>3, <2>4, Zenon DEF Undisturbed
<1>2. NoneAbandoned /\ StopsInTurn /\ outputOpen /\ ~cancelled
  BY <1>1 DEF Draining, Undisturbed
<1>3. \A t \in Tasks : ~Break(t)
  BY <1>2, NoBreak
\* A step that stops no task and abandons no request.
<1>4. ASSUME \A t \in Tasks : at'[t] = "stopped" <=> at[t] = "stopped",
             \A r \in Requests : fate'[r] = "abandoned" => fate[r] = "abandoned"
      PROVE  NoneAbandoned' /\ StopsInTurn'
  <2>1. \A t \in Tasks : StageOf(t) \in Channels
    BY StagesOfTasks DEF Channels
  <2>. QED  BY <1>1, <1>2, <1>4, <2>1, SendersStayGone DEF NoneAbandoned, StopsInTurn
<1>5. ASSUME NEW t \in Tasks, Leave(t) PROVE NoneAbandoned' /\ StopsInTurn'
  <2>1. /\ chan[StageOf(t)] = << >> /\ SendersGone(StageOf(t))
        /\ at' = [at EXCEPT ![t] = "stopped"]
        /\ fate' = WithFate({} \cup QueuedFor(t), "abandoned")
    BY <1>2, <1>5 DEF Leave, MustLeave, Stop
  <2>2. QueuedFor(t) = {}
    <3>1. Range(<< >>) = {}
      BY DEF Range
    <3>. QED  BY <2>1, <3>1 DEF QueuedFor
  <2>3. fate' = fate
    BY <2>1, <2>2 DEF WithFate
  <2>4. \A u \in Tasks : SendersGone(StageOf(u)) => SendersGone(StageOf(u))'
    <3>1. \A u \in Tasks : StageOf(u) \in Channels
      BY StagesOfTasks DEF Channels
    <3>2. \A u \in Tasks : at[u] = "stopped" => at'[u] = "stopped"
      BY <2>1
    <3>. QED  BY <1>1, <3>1, <3>2, SendersStayGone
  <2>5. \A u \in Tasks : at'[u] = "stopped" => u = t \/ at[u] = "stopped"
    BY <2>1
  <2>. QED  BY <1>2, <2>1, <2>3, <2>4, <2>5 DEF NoneAbandoned, StopsInTurn
<1>6. \A t \in Tasks : Waiting(t) # "stopped"
  BY DEF Waiting
<1>7. ASSUME NEW t \in Tasks, Release(t), at[t] # "stopped"
      PROVE  \A u \in Tasks : at'[u] = "stopped" <=> at[u] = "stopped"
  BY <1>6, <1>7 DEF Release
<1>8. ASSUME NEW r, DeadLetter(r)
      PROVE  \A x \in Requests : fate'[x] = "abandoned" => fate[x] = "abandoned"
  BY <1>8 DEF DeadLetter
<1>9. ASSUME NEW S, NEW f, f # "abandoned", fate' = WithFate(S, f)
      PROVE  \A x \in Requests : fate'[x] = "abandoned" => fate[x] = "abandoned"
  BY <1>9 DEF WithFate
<1>10. ASSUME NEW t \in Tasks, Receive(t) \/ Queue(t) \/ Shed(t)
       PROVE  NoneAbandoned' /\ StopsInTurn'
  <2>1. CASE Receive(t)
    BY <1>4, <2>1 DEF Receive, CanReceive
  <2>2. CASE Queue(t)
    BY <1>4, <1>7, <2>2 DEF Queue, Sends
  <2>3. CASE Shed(t)
    BY <1>4, <1>7, <1>8, <2>3 DEF Shed, Sends
  <2>. QED  BY <1>10, <2>1, <2>2, <2>3
<1>11. ASSUME NEW w \in Workers, Worker(w) PROVE NoneAbandoned' /\ StopsInTurn'
  <2>0. w \in Tasks
    BY DEF Tasks
  <2>1. CASE Lock(w) \/ Call(w) \/ Answer(w)
    BY <1>4, <2>0, <2>1 DEF Lock, Call, Answer
  <2>2. CASE RefuseExpired(w)
    BY <1>4, <1>7, <1>8, <2>0, <2>2 DEF RefuseExpired, CanReceive
  <2>3. CASE RefuseOpen(w) \/ CallFails(w)
    BY <1>4, <1>7, <1>8, <2>0, <2>3 DEF RefuseOpen, CallFails
  <2>. QED  BY <1>11, <2>1, <2>2, <2>3 DEF Worker
<1>12. CASE SkipExpired
  BY <1>4, <1>9, <1>12 DEF SkipExpired
<1>13. CASE Emit \/ Discard
  <2>0. "stream" \in Tasks
    BY DEF Tasks, Single, Stages
  <2>1. CASE Emit
    BY <1>4, <1>7, <2>0, <2>1 DEF Emit, Emits
  <2>2. CASE Discard
    BY <1>4, <1>7, <1>9, <2>0, <2>2 DEF Discard, Emits
  <2>. QED  BY <1>13, <2>1, <2>2
<1>14. CASE ReadOutput \/ DrainDlq \/ \E r \in Requests : Submit(r)
  BY <1>4, <1>9, <1>14 DEF ReadOutput, DrainDlq, Submit
<1>15. CASE CloseInput \/ Shutdown \/ Tick \/ UNCHANGED vars
            \/ \E r \in Requests : Expire(r)
  BY <1>4, <1>15 DEF CloseInput, Shutdown, Tick, Expire, vars
<1>. QED
  BY <1>1, <1>3, <1>5, <1>10, <1>11, <1>12, <1>13, <1>14, <1>15
     DEF Next, Step, Stream, Environment

\* While the pipeline is not cancelled, its sink works and its output is kept,
\* no accepted request is lost with a stage that stops, for any number of
\* requests and workers: closing the input drains the pipeline.
THEOREM NothingAbandoned == Spec => []ClosingDrains
<1>1. Init => Draining
  <2>. SUFFICES ASSUME Init PROVE NoneAbandoned /\ StopsInTurn
    BY DEF Draining
  <2>1. NoneAbandoned
    BY DEF Init, NoneAbandoned
  <2>2. \A t \in Tasks : at[t] # "stopped"
    BY DEF Init, Waiting
  <2>. QED  BY <2>1, <2>2 DEF StopsInTurn
<1>2. Draining => ClosingDrains
  BY DEF Draining, Undisturbed, NoneAbandoned, ClosingDrains
<1>. QED  BY <1>1, <1>2, NextDraining, Invariant, PTL DEF Spec

-----------------------------------------------------------------------------
(* The breaker inside the pipeline.  The inference workers are callers of   *)
(* CircuitBreaker, so what is proved there for any callers holds here.      *)

InCall == {w \in Workers : at[w] = "calling"}

Circuit == INSTANCE CircuitBreakerProofs WITH Callers <- Workers, running <- InCall

\* Both modules take the transitions of the breaker from BreakerOps.
LEMMA SameTransitions ==
    ASSUME NEW b
    PROVE  /\ Circuit!Aged(b) = Aged(b) /\ Circuit!Admitted(b) = Admitted(b)
           /\ Circuit!Succeeded(b) = Succeeded(b) /\ Circuit!Failed(b) = Failed(b)
           /\ (Circuit!Rejects(b) <=> Rejects(b))
<1>1. \A m, n : Circuit!Least(m, n) = Least(m, n)
  BY Zenon DEF Circuit!Least, Least
<1>2. \A p : Circuit!BackoffFactor(p) = BackoffFactor(p)
  BY <1>1, Zenon DEF Circuit!BackoffFactor, BackoffFactor
<1>3. Circuit!ProbeInterval(b) = ProbeInterval(b) /\ Circuit!MaxInterval = MaxInterval
  BY <1>2 DEF Circuit!ProbeInterval, ProbeInterval, Circuit!MaxInterval, MaxInterval
<1>4. Circuit!ProbeDue(b) <=> ProbeDue(b)
  BY <1>3 DEF Circuit!ProbeDue, ProbeDue
<1>5. Circuit!Rejects(b) <=> Rejects(b)
  BY <1>4 DEF Circuit!Rejects, Rejects
<1>6. Circuit!Admitted(b) = Admitted(b)
  BY <1>4 DEF Circuit!Admitted, Admitted
<1>7. \A a : Circuit!Older(a) = Older(a)
  BY <1>1, <1>3, Zenon DEF Circuit!Older, Older
<1>8. Circuit!Aged(b) = Aged(b)
  BY <1>7 DEF Circuit!Aged, Aged
<1>9. \A w, r : Circuit!Pushed(w, r) = Pushed(w, r)
  BY DEF Circuit!Pushed, Pushed
<1>10. \A w : Circuit!RateReached(w) <=> RateReached(w)
  <2>1. \A S : Circuit!Cardinality(S) = Cardinality(S)
    BY DEF Circuit!Cardinality, Cardinality
  <2>. QED
    BY <2>1 DEF Circuit!RateReached, RateReached, Circuit!SuccessCount, SuccessCount
<1>11. Circuit!Succeeded(b) = Succeeded(b)
  BY <1>9, <1>10 DEF Circuit!Succeeded, Succeeded
<1>12. Circuit!Failed(b) = Failed(b)
  BY <1>1, <1>9
     DEF Circuit!Failed, Failed, Circuit!ThresholdReached, ThresholdReached
<1>. QED  BY <1>5, <1>6, <1>8, <1>11, <1>12

LEMMA CircuitAssumptions == Circuit!BreakerAssumption /\ Circuit!CallersAssumption
BY BreakerAssumption, PipelineAssumption
   DEF Circuit!BreakerAssumption, Circuit!CallersAssumption, Circuit!IsFiniteSet, IsFiniteSet

\* A step of the pipeline enters the breaker, leaves it, lets time pass, or
\* leaves it and its callers alone.
LEMMA StepIsCircuit == Inv /\ [Next]_vars => [Circuit!Next]_(Circuit!vars)
<1>. SUFFICES ASSUME Inv, [Next]_vars PROVE [Circuit!Next]_(Circuit!vars)
  OBVIOUS
<1>0. at \in [Tasks -> Phases] /\ Workers \subseteq Tasks
  BY DEF Inv, Types, Tasks
<1>1. \A t \in Tasks : Waiting(t) # "calling"
  BY DEF Waiting
\* A task that is not in a call goes somewhere else.
<1>2. ASSUME NEW t \in Tasks, at[t] # "calling", NEW p, p # "calling",
             at' = [at EXCEPT ![t] = p]
      PROVE  InCall' = InCall
  BY <1>0, <1>2 DEF InCall
<1>3. ASSUME breaker' = breaker, InCall' = InCall
      PROVE  UNCHANGED Circuit!vars
  BY <1>3 DEF Circuit!vars
<1>4. ASSUME NEW t \in Tasks, Receive(t) \/ Leave(t) \/ Queue(t) \/ Shed(t) \/ Break(t)
      PROVE  UNCHANGED Circuit!vars
  <2>1. breaker' = breaker
    BY <1>4 DEF Receive, Leave, Queue, Shed, Break
  <2>2. at[t] # "calling"
    BY <1>4 DEF Receive, CanReceive, Leave, Queue, Shed, Break, Sends
  <2>3. \E p : p # "calling" /\ at' = [at EXCEPT ![t] = p]
    <3>1. CASE Receive(t)
      BY <3>1 DEF Receive
    <3>2. CASE Leave(t) \/ Break(t)
      BY <3>2 DEF Leave, Break, Stop
    <3>3. CASE Queue(t) \/ Shed(t)
      BY <1>1, <3>3 DEF Queue, Shed, Release
    <3>. QED  BY <1>4, <3>1, <3>2, <3>3
  <2>. QED  BY <1>2, <1>3, <2>1, <2>2, <2>3
<1>5. ASSUME NEW w \in Workers, Lock(w) \/ RefuseExpired(w) \/ RefuseOpen(w)
      PROVE  UNCHANGED Circuit!vars
  <2>1. breaker' = breaker /\ at[w] # "calling" /\ w \in Tasks
    BY <1>0, <1>5 DEF Lock, RefuseExpired, CanReceive, RefuseOpen
  <2>2. \E p : p # "calling" /\ at' = [at EXCEPT ![w] = p]
    BY <1>1, <1>5, <2>1 DEF Lock, RefuseExpired, RefuseOpen, Release
  <2>. QED  BY <1>2, <1>3, <2>1, <2>2
<1>6. ASSUME NEW w \in Workers, Call(w) PROVE Circuit!Admit(w)
  <2>1. InCall' = InCall \cup {w} /\ w \notin InCall
    BY <1>0, <1>6 DEF Call, InCall
  <2>. QED  BY <1>6, <2>1, SameTransitions DEF Call, Circuit!Admit
<1>7. ASSUME NEW w \in Workers, Answer(w) PROVE Circuit!Succeed(w)
  <2>1. InCall' = InCall \ {w} /\ w \in InCall
    BY <1>0, <1>7 DEF Answer, InCall
  <2>. QED  BY <1>7, <2>1, SameTransitions DEF Answer, Circuit!Succeed
<1>8. ASSUME NEW w \in Workers, CallFails(w) PROVE Circuit!Fail(w)
  <2>1. InCall' = InCall \ {w} /\ w \in InCall
    BY <1>0, <1>1, <1>8 DEF CallFails, Release, InCall
  <2>. QED  BY <1>8, <2>1, SameTransitions DEF CallFails, Circuit!Fail
<1>9. CASE Stream
  <2>1. "stream" \in Tasks /\ at["stream"] # "calling" /\ breaker' = breaker
    BY <1>9 DEF Stream, Emit, Discard, SinkFails, Emits, Tasks, Single, Stages
  <2>2. \E p : p # "calling" /\ at' = [at EXCEPT !["stream"] = p]
    BY <1>1, <1>9, <2>1 DEF Stream, Emit, Discard, SinkFails, Release, Stop
  <2>. QED  BY <1>2, <1>3, <2>1, <2>2
<1>10. CASE Tick
  <2>1. InCall' = InCall
    BY <1>10 DEF Tick, InCall
  <2>. QED  BY <1>10, <2>1, SameTransitions DEF Tick, Circuit!Tick, Circuit!Next
<1>11. CASE SkipExpired \/ UNCHANGED vars \/ (Environment /\ ~Tick)
  <2>1. breaker' = breaker /\ at' = at
    BY <1>11 DEF SkipExpired, vars, Environment, Submit, Expire, ReadOutput, DrainDlq,
                 CloseInput, CloseOutput, Shutdown
  <2>. QED  BY <1>3, <2>1 DEF InCall
<1>. QED
  BY <1>4, <1>5, <1>6, <1>7, <1>8, <1>9, <1>10, <1>11
     DEF Next, Step, Worker, Circuit!Next

\* The pipeline is an environment of the circuit breaker that the model of the
\* breaker allows for, with the inference workers as callers.
THEOREM WorkersUseBreaker == Spec => Circuit!Spec
<1>1. Init => Circuit!Init
  <2>. SUFFICES ASSUME Init PROVE Circuit!Init
    OBVIOUS
  <2>1. breaker = Circuit!NewBreaker
    BY DEF Init, NewBreaker, Circuit!NewBreaker
  <2>2. InCall = {}
    BY DEF Init, InCall, Waiting, Tasks
  <2>. QED  BY <2>1, <2>2 DEF Circuit!Init
<1>. QED  BY <1>1, StepIsCircuit, Invariant, PTL DEF Spec, Circuit!Spec

\* So the breaker of the pipeline is sound however its workers' calls overlap:
\* its status fits its record, an open circuit admits no inference before the
\* timeout, and the announced wait is honest.
THEOREM PipelineBreakerSound ==
    Spec => []Circuit!StatusSound /\ Circuit!OpenLastsTimeout /\ Circuit!RetryAfterHonest
<1>1. Circuit!Spec => []Circuit!StatusSound
  BY CircuitAssumptions, Circuit!StatusFitsRecord
<1>2. Circuit!Spec => Circuit!OpenLastsTimeout
  BY CircuitAssumptions, Circuit!OpenPeriod
<1>3. Circuit!Spec => Circuit!RetryAfterHonest
  BY CircuitAssumptions, Circuit!AnnouncedWaitHonest
<1>. QED  BY <1>1, <1>2, <1>3, WorkersUseBreaker, PTL
=============================================================================
