--------------------------- MODULE JitQueueLemmas ---------------------------
(***************************************************************************)
(* Lemmas about the operators of JitQueueOps, for every queue and every    *)
(* value of the constants: what jit_enqueue, jit_dequeue and jit_peek keep *)
(* of a sound queue. JitQueueProofs and DownlinkProofs rest on them.       *)
(***************************************************************************)
EXTENDS JitQueueOps, FunctionTheorems, FiniteSetTheorems, WellFoundedInduction, TLAPS

Queues == [nodes : Seq(Node), num_beacon : Int]

(* Two queued packets keep their distance on the circle of the counter,     *)
(* each after the other: what jit_enqueue establishes at the weakest, when  *)
(* the beacon guard is ignored.                                             *)
Clear(a, b) ==
  /\ Minus(a.count_us, b.count_us) > TX_START_DELAY + b.post_delay + TX_MARGIN_DELAY
  /\ Minus(b.count_us, a.count_us) > TX_START_DELAY + a.post_delay + TX_MARGIN_DELAY

Spaced(nodes) ==
  \A i, j \in DOMAIN nodes : i # j => Clear(nodes[i], nodes[j])

(* Every node reserves at least the start delay before its count.           *)
Reserved(nodes) ==
  \A i \in DOMAIN nodes : nodes[i].pre_delay >= TX_START_DELAY

(* num_beacon and the capacity of the array.                                *)
Counted(q) ==
  /\ q.num_beacon = Cardinality(Beacons(q.nodes, DOMAIN q.nodes))
  /\ Len(q.nodes) <= JIT_QUEUE_MAX

SoundQueue(q) == q \in Queues /\ Spaced(q.nodes) /\ Reserved(q.nodes) /\ Counted(q)

-----------------------------------------------------------------------------
(* Counter arithmetic *)

(* Minus and Plus stay on the counter. *)
LEMMA MinusType == ASSUME NEW a \in Time, NEW b \in Time PROVE Minus(a, b) \in Time
BY CounterAssumption DEF Minus, Time

(* Plus stays on the counter.                                              *)
LEMMA PlusType == ASSUME NEW a \in Time, NEW b \in Delay PROVE Plus(a, b) \in Time
BY CounterAssumption DEF Plus, Time, Delay

-----------------------------------------------------------------------------
(* The sorted arrangements *)

(* The positions of a sequence of length n are n in number. *)
LEMMA IntervalCard ==
  ASSUME NEW n \in Nat
  PROVE  IsFiniteSet(1 .. n) /\ Cardinality(1 .. n) = n
BY FS_Interval

(* A sorted arrangement of the nodes at positions K has each of them once. *)
LEMMA SortedNodes ==
  ASSUME NEW nodes \in Seq(Node), NEW K \in SUBSET DOMAIN nodes,
         NEW s \in Sorted(nodes, K)
  PROVE  /\ s \in Seq(Node)
         /\ Len(s) = Cardinality(K)
         /\ \E f \in [DOMAIN s -> K] :
              /\ \A i, j \in DOMAIN s : f[i] = f[j] => i = j
              /\ \A i \in DOMAIN s : s[i] = nodes[f[i]]
<1>1. Cardinality(K) \in Nat
  <2>1. DOMAIN nodes = 1 .. Len(nodes) /\ Len(nodes) \in Nat
    OBVIOUS
  <2>2. IsFiniteSet(1 .. Len(nodes))
    BY <2>1, FS_Interval
  <2> QED
    BY <2>1, <2>2, FS_Subset, FS_CardinalityType
<1>2. PICK f \in [1 .. Cardinality(K) -> K] :
         /\ \A i, j \in 1 .. Cardinality(K) : f[i] = f[j] => i = j
         /\ s = [k \in 1 .. Cardinality(K) |-> nodes[f[k]]]
  BY DEF Sorted
<1>3. s \in Seq(Node) /\ Len(s) = Cardinality(K) /\ DOMAIN s = 1 .. Cardinality(K)
  BY <1>1, <1>2
<1> QED
  BY <1>2, <1>3

(* Spacing and reservation survive every rearrangement and removal. *)
LEMMA SortedSpaced ==
  ASSUME NEW nodes \in Seq(Node), NEW K \in SUBSET DOMAIN nodes,
         NEW s \in Sorted(nodes, K), Spaced(nodes), Reserved(nodes)
  PROVE  Spaced(s) /\ Reserved(s)
<1>1. PICK f \in [DOMAIN s -> K] :
         /\ \A i, j \in DOMAIN s : f[i] = f[j] => i = j
         /\ \A i \in DOMAIN s : s[i] = nodes[f[i]]
  BY SortedNodes
<1>2. \A i \in DOMAIN s : f[i] \in DOMAIN nodes
  OBVIOUS
<1>3. Spaced(s)
  <2> SUFFICES ASSUME NEW i \in DOMAIN s, NEW j \in DOMAIN s, i # j
               PROVE  Clear(s[i], s[j])
    BY DEF Spaced
  <2> QED
    BY <1>1, <1>2 DEF Spaced
<1>4. Reserved(s)
  BY <1>1, <1>2 DEF Reserved
<1> QED
  BY <1>3, <1>4

(* And every node at those positions is in it.                              *)
LEMMA SortedOnto ==
  ASSUME NEW nodes \in Seq(Node), NEW K \in SUBSET DOMAIN nodes,
         NEW s \in Sorted(nodes, K)
  PROVE  \E f \in Bijection(DOMAIN s, K) : \A i \in DOMAIN s : s[i] = nodes[f[i]]
<1>1. PICK f \in [DOMAIN s -> K] :
         /\ \A i, j \in DOMAIN s : f[i] = f[j] => i = j
         /\ \A i \in DOMAIN s : s[i] = nodes[f[i]]
  BY SortedNodes
<1>2. s \in Seq(Node) /\ Len(s) = Cardinality(K)
  BY SortedNodes
<1>3. DOMAIN s = 1 .. Len(s) /\ Len(s) \in Nat
  BY <1>2
<1>4. IsFiniteSet(DOMAIN s) /\ Cardinality(DOMAIN s) = Len(s)
  BY <1>3, IntervalCard
<1>5. IsFiniteSet(K)
  BY FS_Interval, FS_Subset
<1>6. f \in Injection(DOMAIN s, K)
  BY <1>1 DEF Injection, IsInjective
<1>7. f \in Surjection(DOMAIN s, K)
  BY <1>2, <1>4, <1>5, <1>6, FS_Injection
<1> QED
  BY <1>1, <1>6, <1>7 DEF Bijection

(* The beacons of a queue can be counted. *)
LEMMA BeaconsFinite ==
  ASSUME NEW nodes \in Seq(Node), NEW K \in SUBSET DOMAIN nodes
  PROVE  IsFiniteSet(Beacons(nodes, K)) /\ Cardinality(Beacons(nodes, K)) \in Nat
<1>1. IsFiniteSet(DOMAIN nodes)
  BY FS_Interval
<1>2. Beacons(nodes, K) \in SUBSET DOMAIN nodes
  BY DEF Beacons
<1> QED
  BY <1>1, <1>2, FS_Subset, FS_CardinalityType

(* Sorting keeps the number of beacons.                                     *)
LEMMA SortedBeacons ==
  ASSUME NEW nodes \in Seq(Node), NEW K \in SUBSET DOMAIN nodes,
         NEW s \in Sorted(nodes, K)
  PROVE  Cardinality(Beacons(s, DOMAIN s)) = Cardinality(Beacons(nodes, K))
<1>1. PICK f \in Bijection(DOMAIN s, K) : \A i \in DOMAIN s : s[i] = nodes[f[i]]
  BY SortedOnto
<1>2. /\ f \in [DOMAIN s -> K]
      /\ \A i, j \in DOMAIN s : f[i] = f[j] => i = j
      /\ \A k \in K : \E i \in DOMAIN s : f[i] = k
  BY DEF Bijection, Injection, Surjection, IsInjective
<1> DEFINE B == Beacons(s, DOMAIN s)
           g == [i \in B |-> f[i]]
<1>3. \A i \in DOMAIN s : i \in B <=> f[i] \in Beacons(nodes, K)
  BY <1>1, <1>2 DEF Beacons
<1>4. B \subseteq DOMAIN s /\ Beacons(nodes, K) \subseteq K
  BY DEF Beacons
<1> HIDE DEF B
<1>5. g \in [B -> Beacons(nodes, K)]
  BY <1>3, <1>4
<1>6. \A i, j \in B : g[i] = g[j] => i = j
  BY <1>2, <1>4
<1>7. \A k \in Beacons(nodes, K) : \E i \in B : g[i] = k
  BY <1>2, <1>3, <1>4
<1>8. g \in Bijection(B, Beacons(nodes, K))
  BY <1>5, <1>6, <1>7 DEF Bijection, Injection, Surjection, IsInjective
<1>9. s \in Seq(Node)
  BY SortedNodes
<1>10. IsFiniteSet(B)
  BY <1>9, BeaconsFinite DEF B
<1> QED
  BY <1>8, <1>10, FS_Bijection DEF ExistsBijection, B

-----------------------------------------------------------------------------
(* The order of the sorted queue *)

(* How far after an instant of reference a packet departs.                  *)
Offset(base, node) == Minus(node.count_us, base)

(* All packets depart within a span from the reference. When the span is    *)
(* less than half a turn, compare() orders them by their offsets.           *)
Within(base, span, nodes) ==
  \A i \in DOMAIN nodes : Offset(base, nodes[i]) <= span

Ordered(base, nodes) ==
  \A i, j \in DOMAIN nodes : i < j => Offset(base, nodes[i]) < Offset(base, nodes[j])

(* A set of numbers that is not empty has a least element. The inductions   *)
(* on positions below all take the least position that breaks a claim.      *)
LEMMA LeastNat ==
  ASSUME NEW T, T \subseteq Nat, T # {}
  PROVE  \E x \in T : \A y \in T : x <= y
<1> DEFINE Below == {p \in Nat \X Nat : p[1] < p[2]}
<1>1. IsWellFoundedOn(Below, Nat)
  BY NatLessThanWellFounded, Zenon DEF OpToRel
<1>2. PICK x \in T : \A y \in T : ~(<<y, x>> \in Below)
  BY <1>1, WFMin
<1>3. \A y \in T : ~(y < x)
  BY <1>2
<1> QED
  BY <1>3

(* compare() on two counts of a window shorter than half a turn.            *)
LEMMA CompareIsOrder ==
  ASSUME NEW base \in Time, NEW span \in Nat, 2 * span < M,
         NEW a \in Time, NEW b \in Time, Minus(a, base) <= span, Minus(b, base) <= span
  PROVE  NotAfter(a, b) <=> Minus(a, base) <= Minus(b, base)
BY CounterAssumption DEF NotAfter, Minus, Time

(* Two counts at the same distance from a third are the same.               *)
LEMMA CountsFromBase ==
  ASSUME NEW base \in Time, NEW a \in Time, NEW b \in Time, Minus(a, base) = Minus(b, base)
  PROVE  a = b
<1>1. M \in Nat /\ M > 0 /\ Time = 0 .. (M - 1)
  BY CounterAssumption DEF Time
<1>2. \A x \in Time : Minus(x, base) = IF x >= base THEN x - base ELSE (x - base) + M
  BY <1>1 DEF Minus
<1> QED
  BY <1>1, <1>2

(* Two spaced packets have different offsets.                               *)
LEMMA SpacedApart ==
  ASSUME NEW base \in Time, NEW nodes \in Seq(Node), Spaced(nodes),
         NEW i \in DOMAIN nodes, NEW j \in DOMAIN nodes, i # j
  PROVE  Offset(base, nodes[i]) # Offset(base, nodes[j])
<1> DEFINE a == nodes[i]
           b == nodes[j]
<1>1. a \in Node /\ b \in Node
  OBVIOUS
<1>2. /\ a.count_us \in Time /\ b.count_us \in Time
      /\ b.post_delay \in Nat /\ TX_START_DELAY \in Nat /\ TX_MARGIN_DELAY \in Nat
  BY <1>1, CounterAssumption, DelayAssumption DEF Node, Delay
<1>3. Minus(a.count_us, b.count_us) > TX_START_DELAY + b.post_delay + TX_MARGIN_DELAY
  BY DEF Spaced, Clear
<1> HIDE DEF a, b
<1>4. a.count_us # b.count_us
  BY <1>2, <1>3, CounterAssumption DEF Minus, Time
<1>5. Minus(a.count_us, base) # Minus(b.count_us, base)
  BY <1>2, <1>4, CountsFromBase
<1> QED
  BY <1>5 DEF Offset, a, b

(* Offsets are numbers.                                                     *)
LEMMA OffsetType ==
  ASSUME NEW base \in Time, NEW nodes \in Seq(Node), NEW i \in DOMAIN nodes
  PROVE  nodes[i] \in Node /\ nodes[i].count_us \in Time
         /\ Offset(base, nodes[i]) \in Nat /\ Offset(base, nodes[i]) \in Time
<1>1. nodes[i] \in Node
  OBVIOUS
<1>2. nodes[i].count_us \in Time
  BY <1>1 DEF Node
<1>3. Offset(base, nodes[i]) \in Time
  BY <1>2, MinusType DEF Offset
<1> QED
  BY <1>1, <1>2, <1>3, CounterAssumption DEF Time

(* Neighbours in order, in the sense of compare(), put the whole queue in   *)
(* the order of its offsets.                                                *)
LEMMA AscendingOrdered ==
  ASSUME NEW base \in Time, NEW span \in Nat, 2 * span < M,
         NEW s \in Seq(Node), Ascending(s), Spaced(s), Within(base, span, s)
  PROVE  Ordered(base, s)
<1> SUFFICES ASSUME NEW i \in DOMAIN s
             PROVE  \A j \in DOMAIN s : i < j => Offset(base, s[i]) < Offset(base, s[j])
  BY DEF Ordered
<1>1. DOMAIN s = 1 .. Len(s) /\ Len(s) \in Nat
  OBVIOUS
<1> DEFINE o(k) == Offset(base, s[k])
           T    == {j \in DOMAIN s : i < j /\ ~(o(i) < o(j))}
<1>2. \A k \in DOMAIN s : s[k].count_us \in Time /\ o(k) \in Nat /\ o(k) <= span
  BY OffsetType DEF Within
<1>3. ASSUME NEW k \in DOMAIN s, k + 1 \in DOMAIN s PROVE o(k) < o(k + 1)
  <2>1. NotAfter(s[k].count_us, s[k+1].count_us)
    BY <1>1, <1>3 DEF Ascending
  <2>2. o(k) <= o(k + 1)
    BY <1>2, <1>3, <2>1, CompareIsOrder DEF Offset
  <2>3. o(k) # o(k + 1)
    BY <1>1, <1>3, SpacedApart
  <2> HIDE DEF o
  <2> QED
    BY <1>2, <1>3, <2>2, <2>3
<1>4. SUFFICES ASSUME T # {} PROVE FALSE
  BY DEF T
<1> HIDE DEF o
<1>5. PICK j \in T : \A k \in T : j <= k
  <2>1. T \subseteq Nat
    BY <1>1
  <2> HIDE DEF T
  <2> QED
    BY <1>4, <2>1, LeastNat
<1>6. j - 1 \in DOMAIN s /\ j - 1 \notin T /\ i <= j - 1
  BY <1>1, <1>5
<1>7. o(j - 1) < o(j)
  <2>1. (j - 1) + 1 = j /\ j \in DOMAIN s
    BY <1>1, <1>5
  <2> QED
    BY <1>3, <1>6, <2>1
<1>8. o(i) <= o(j - 1)
  BY <1>1, <1>2, <1>6
<1> QED
  BY <1>1, <1>2, <1>5, <1>6, <1>7, <1>8

(* A sorted arrangement of packets of a window is in the order of offsets.  *)
LEMMA SortedOrdered ==
  ASSUME NEW base \in Time, NEW span \in Nat, 2 * span < M,
         NEW nodes \in Seq(Node), NEW K \in SUBSET DOMAIN nodes, Spaced(nodes), Reserved(nodes),
         \A i \in K : Offset(base, nodes[i]) <= span,
         NEW s \in Sorted(nodes, K)
  PROVE  Within(base, span, s) /\ Ordered(base, s)
<1>1. PICK f \in [DOMAIN s -> K] : \A i \in DOMAIN s : s[i] = nodes[f[i]]
  BY SortedNodes
<1>2. Within(base, span, s)
  BY <1>1 DEF Within
<1>3. s \in Seq(Node) /\ Spaced(s)
  BY SortedNodes, SortedSpaced
<1>4. Ascending(s)
  BY DEF Sorted
<1> QED
  BY <1>2, <1>3, <1>4, AscendingOrdered

(* What precedes all that comes behind it is not moved by sorting.          *)
LEMMA PrefixKept ==
  ASSUME NEW base \in Time, NEW nodes \in Seq(Node), NEW p \in 0 .. Len(nodes),
         \A i \in 1 .. p, j \in DOMAIN nodes : i < j => Offset(base, nodes[i]) < Offset(base, nodes[j]),
         NEW s \in Sorted(nodes, DOMAIN nodes), Ordered(base, s)
  PROVE  /\ s \in Seq(Node) /\ Len(s) = Len(nodes)
         /\ \A k \in 1 .. p : s[k] = nodes[k]
<1>1. DOMAIN nodes = 1 .. Len(nodes) /\ Len(nodes) \in Nat /\ p \in Nat /\ p <= Len(nodes)
  OBVIOUS
<1>2. PICK f \in Bijection(DOMAIN s, DOMAIN nodes) : \A i \in DOMAIN s : s[i] = nodes[f[i]]
  BY SortedOnto
<1>3. s \in Seq(Node) /\ Len(s) = Len(nodes)
  BY <1>1, SortedNodes, IntervalCard
<1>4. DOMAIN s = DOMAIN nodes
  BY <1>1, <1>3
<1>5. /\ f \in [DOMAIN s -> DOMAIN nodes]
      /\ \A i, j \in DOMAIN s : f[i] = f[j] => i = j
      /\ \A k \in DOMAIN nodes : \E i \in DOMAIN s : f[i] = k
  BY <1>2 DEF Bijection, Injection, Surjection, IsInjective
<1> DEFINE T == {k \in 1 .. p : f[k] # k}
<1>6. SUFFICES ASSUME T # {} PROVE FALSE
  BY <1>1, <1>2, <1>3, <1>4
<1>7. PICK k \in T : \A m \in T : k <= m
  <2>1. T \subseteq Nat
    OBVIOUS
  <2> HIDE DEF T
  <2> QED
    BY <1>6, <2>1, LeastNat
<1>8. k \in DOMAIN s /\ k \in 1 .. p /\ f[k] # k /\ f[k] \in DOMAIN nodes
  BY <1>1, <1>4, <1>5, <1>7
<1>9. \A m \in 1 .. k - 1 : f[m] = m /\ m \in DOMAIN s
  BY <1>1, <1>4, <1>7, <1>8
<1>10. f[k] > k
  BY <1>1, <1>5, <1>8, <1>9
<1>11. PICK m \in DOMAIN s : f[m] = k
  BY <1>1, <1>5, <1>8
<1>12. m > k
  BY <1>1, <1>4, <1>8, <1>9, <1>11
<1>13. Offset(base, nodes[f[k]]) < Offset(base, nodes[k])
  BY <1>2, <1>8, <1>11, <1>12 DEF Ordered
<1>14. Offset(base, nodes[k]) < Offset(base, nodes[f[k]])
  BY <1>8, <1>10
<1>15. Offset(base, nodes[k]) \in Nat /\ Offset(base, nodes[f[k]]) \in Nat
  BY <1>4, <1>8, OffsetType
<1> QED
  BY <1>13, <1>14, <1>15

(* Sorting an ordered queue changes nothing.                                *)
LEMMA OrderedKept ==
  ASSUME NEW base \in Time, NEW nodes \in Seq(Node), Ordered(base, nodes),
         NEW s \in Sorted(nodes, DOMAIN nodes), Ordered(base, s)
  PROVE  s = nodes
<1>1. Len(nodes) \in 0 .. Len(nodes) /\ DOMAIN nodes = 1 .. Len(nodes)
  OBVIOUS
<1>2. s \in Seq(Node) /\ Len(s) = Len(nodes) /\ \A k \in 1 .. Len(nodes) : s[k] = nodes[k]
  BY <1>1, PrefixKept DEF Ordered
<1> QED
  BY <1>2

(* The distance of two counts, by their offsets.                            *)
LEMMA MinusByOffset ==
  ASSUME NEW base \in Time, NEW a \in Time, NEW b \in Time
  PROVE  Minus(a, b) = IF Minus(a, base) >= Minus(b, base)
                         THEN Minus(a, base) - Minus(b, base)
                         ELSE M - (Minus(b, base) - Minus(a, base))
BY CounterAssumption DEF Minus, Time

(* How far behind a packet the slot search puts an immediate downlink.      *)
Behind(node) == node.post_delay + TX_START_DELAY + 2 * TX_JIT_DELAY + TX_MARGIN_DELAY

(* The slot behind a packet, unless that goes once round the counter.       *)
LEMMA SlotOffset ==
  ASSUME NEW base \in Time, NEW node \in Node, Offset(base, node) + Behind(node) < M
  PROVE  /\ SlotAfter(node, PreDelay(CLASS_C)) \in Time
         /\ Minus(SlotAfter(node, PreDelay(CLASS_C)), base) = Offset(base, node) + Behind(node)
<1> DEFINE d == TX_START_DELAY + 2 * TX_JIT_DELAY + TX_MARGIN_DELAY
           c == Plus(node.count_us, node.post_delay)
           o == Minus(node.count_us, base)
<1>1. node.count_us \in Time /\ node.post_delay \in Delay
  BY DEF Node
<1>2. d \in Delay
  BY DelayAssumption, CounterAssumption DEF Delay
<1>3. SlotAfter(node, PreDelay(CLASS_C)) = Plus(c, d)
  <2>1. PreDelay(CLASS_C) + TX_JIT_DELAY + TX_MARGIN_DELAY = d
    BY DelayAssumption DEF PreDelay, CLASS_C, BEACON
  <2> QED
    BY <2>1 DEF SlotAfter
<1>o. o \in Time
  BY <1>1, MinusType
<1>n. node.post_delay \in Nat /\ o \in Nat /\ d \in Nat
  BY <1>1, <1>2, <1>o, CounterAssumption DEF Delay, Time
<1>4. o + node.post_delay + d < M /\ Behind(node) = node.post_delay + d
  BY <1>n, DelayAssumption DEF Offset, Behind
<1> HIDE DEF d
<1>5. c \in Time /\ Minus(c, base) = o + node.post_delay
  BY <1>1, <1>2, <1>4, CounterAssumption DEF Minus, Plus, Time, Delay
<1> HIDE DEF c
<1>6. Plus(c, d) \in Time /\ Minus(Plus(c, d), base) = Minus(c, base) + d
  <2>1. Minus(c, base) + d < M
    BY <1>4, <1>5
  <2> QED
    BY <1>2, <1>5, <2>1, CounterAssumption DEF Minus, Plus, Time, Delay
<1>7. Minus(Plus(c, d), base) = o + Behind(node)
  BY <1>n, <1>4, <1>5, <1>6
<1> QED
  BY <1>3, <1>6, <1>7 DEF Offset

(* A product grows by its factor with each step.                            *)
LEMMA TimesStep ==
  ASSUME NEW k \in Nat
  PROVE  /\ 0 * k = 0
         /\ \A m \in Nat : m * k \in Nat /\ (m + 1) * k = m * k + k
         /\ \A m, n \in Nat : m <= n => m * k <= n * k
<1>1. \A m \in Nat : m * k \in Nat /\ (m + 1) * k = m * k + k
  OBVIOUS
<1>2. ASSUME NEW m \in Nat, NEW n \in Nat, m <= n PROVE m * k <= n * k
  <2>1. n - m \in Nat /\ n * k = m * k + (n - m) * k
    BY <1>2
  <2>2. (n - m) * k \in Nat /\ m * k \in Nat
    BY <2>1
  <2> QED
    BY <2>1, <2>2
<1> QED
  BY <1>1, <1>2

-----------------------------------------------------------------------------
(* What the calls return *)

(* Removing nodes, by jit_dequeue or by the purge of jit_peek. *)
LEMMA KeepingSound ==
  ASSUME NEW q, SoundQueue(q), NEW K \in SUBSET DOMAIN q.nodes, NEW r \in Keeping(q, K)
  PROVE  SoundQueue(r) /\ Len(r.nodes) = Cardinality(K)
<1>1. q.nodes \in Seq(Node) /\ q.num_beacon \in Int /\ Spaced(q.nodes) /\ Reserved(q.nodes)
  BY DEF SoundQueue, Queues
<1> DEFINE nodes   == q.nodes
           All     == Beacons(nodes, DOMAIN nodes)
           Dropped == Beacons(nodes, DOMAIN nodes \ K)
<1>2. PICK s \in Sorted(nodes, K) :
        r = [nodes |-> s, num_beacon |-> q.num_beacon - Cardinality(Dropped)]
  BY DEF Keeping
<1>3. s \in Seq(Node) /\ Spaced(s) /\ Reserved(s) /\ Len(s) = Cardinality(K)
  BY <1>1, SortedNodes, SortedSpaced
<1>4. /\ IsFiniteSet(All) /\ Cardinality(All) \in Nat
      /\ Cardinality(Dropped) \in Nat
  BY <1>1, BeaconsFinite
<1>5. Cardinality(Beacons(nodes, K)) = Cardinality(All) - Cardinality(Dropped)
  <2>1. Beacons(nodes, K) = All \ Dropped /\ All \cap Dropped = Dropped
    BY DEF Beacons
  <2>2. Cardinality(All \ Dropped) = Cardinality(All) - Cardinality(All \cap Dropped)
    <3>1. IsFiniteSet(Dropped)
      BY <1>1, BeaconsFinite
    <3> HIDE DEF All, Dropped
    <3> QED
      BY <1>4, <3>1, FS_Difference
  <2> QED
    BY <2>1, <2>2
<1>6. r.num_beacon = Cardinality(Beacons(s, DOMAIN s))
  BY <1>1, <1>2, <1>5, SortedBeacons DEF SoundQueue, Counted
<1>7. Len(s) <= JIT_QUEUE_MAX
  <2>1. DOMAIN nodes = 1 .. Len(nodes) /\ Len(nodes) \in Nat /\ Len(nodes) <= JIT_QUEUE_MAX
    BY <1>1 DEF SoundQueue, Counted
  <2>2. IsFiniteSet(DOMAIN nodes) /\ Cardinality(DOMAIN nodes) = Len(nodes)
    BY <2>1, IntervalCard
  <2>3. Cardinality(K) <= Len(nodes) /\ Cardinality(K) \in Nat
    BY <2>2, FS_Subset, FS_CardinalityType
  <2> QED
    BY <1>3, <2>1, <2>3, QueueAssumption
<1>8. r.num_beacon \in Int
  BY <1>1, <1>2, <1>4
<1> QED
  BY <1>2, <1>3, <1>6, <1>7, <1>8 DEF SoundQueue, Queues, Counted

(* The node a request becomes. *)
LEMMA NodeOfType ==
  ASSUME NEW p, p.pkt \in Payload, p.pkt_type \in PktTypes, p.toa \in TimeOnAir,
         NEW count \in Time
  PROVE  NodeOf(p, count) \in Node /\ NodeOf(p, count).pre_delay >= TX_START_DELAY
<1>1. PostDelay(p) \in TimeOnAir \cup {BEACON_RESERVED}
  BY DEF PostDelay
<1>2. PostDelay(p) \in Delay
  <2>1. /\ PostDelay(p) \in Nat
        /\ TX_START_DELAY + BEACON_GUARD + TX_JIT_DELAY + PostDelay(p) + TX_MARGIN_DELAY < M
    BY <1>1, DelayAssumption
  <2> QED
    BY <2>1, DelayAssumption, CounterAssumption DEF Delay
<1>3. PreDelay(p.pkt_type) \in Delay /\ PreDelay(p.pkt_type) >= TX_START_DELAY
  BY <1>1, DelayAssumption, CounterAssumption DEF Delay, PreDelay
<1> QED
  BY <1>2, <1>3 DEF NodeOf, Node

(* Every departure instant jit_enqueue considers is a counter value. *)
LEMMA DeparturesType ==
  ASSUME NEW q \in Queues, NEW time \in Time, NEW p, p.count_us \in Time
  PROVE  Departures(q, time, p) \subseteq Time
<1>1. AsapCounts(time) \subseteq Time
  <2>1. Plus(time, ASAP_DELAY) \in Time /\ M - 1 \in Time
    BY DelayAssumption, PlusType, CounterAssumption DEF Time
  <2>2. time + ASAP_DELAY < M => time + ASAP_DELAY \in Time
    BY DelayAssumption, CounterAssumption DEF Time, Delay
  <2> QED
    BY <2>1, <2>2 DEF AsapCounts
<1>2. ASSUME NEW i \in DOMAIN q.nodes, p.pkt_type = CLASS_C
      PROVE  SlotAfter(q.nodes[i], PreDelay(p.pkt_type)) \in Time
  <2>1. q.nodes[i] \in Node
    BY DEF Queues
  <2>2. Plus(q.nodes[i].count_us, q.nodes[i].post_delay) \in Time
    BY <2>1, PlusType DEF Node
  <2>3. PreDelay(p.pkt_type) + TX_JIT_DELAY + TX_MARGIN_DELAY \in Delay
    BY <1>2, DelayAssumption, CounterAssumption DEF PreDelay, Delay, CLASS_C, BEACON
  <2> QED
    BY <2>2, <2>3, PlusType DEF SlotAfter
<1>3. ASSUME NEW asap \in AsapCounts(time), p.pkt_type = CLASS_C
      PROVE  ClassCSlots(q.nodes, p, asap) \subseteq Time
  BY <1>1, <1>2, <1>3 DEF ClassCSlots, Gaps
<1> QED
  BY <1>3 DEF Departures

(* A packet that jit_enqueue accepts is clear of every queued packet.       *)
LEMMA AcceptedClear ==
  ASSUME NEW q, SoundQueue(q), NEW time, NEW new \in Node,
         new.pre_delay >= TX_START_DELAY, JitVerdict(q, time, new) = "OK",
         NEW i \in DOMAIN q.nodes
  PROVE  Clear(new, q.nodes[i]) /\ Clear(q.nodes[i], new)
<1> DEFINE node == q.nodes[i]
<1>1. ~Collides(new, node)
  BY DEF JitVerdict
<1>2. node \in Node /\ node.pre_delay >= TX_START_DELAY
  BY DEF SoundQueue, Queues, Reserved
<1>3. /\ new.count_us \in Time /\ node.count_us \in Time
      /\ new.pre_delay \in Nat /\ node.pre_delay \in Nat
      /\ new.post_delay \in Nat /\ node.post_delay \in Nat
  BY <1>2, CounterAssumption DEF Node, Delay
<1>4. /\ TargetPreDelay(new.pkt_type, node) \in Nat
      /\ TargetPreDelay(new.pkt_type, node) >= TX_START_DELAY
  BY <1>2, <1>3, DelayAssumption DEF TargetPreDelay
<1>5. /\ ~(Minus(new.count_us, node.count_us)
            <= new.pre_delay + node.post_delay + TX_MARGIN_DELAY)
      /\ ~(Minus(node.count_us, new.count_us)
            <= TargetPreDelay(new.pkt_type, node) + new.post_delay + TX_MARGIN_DELAY)
  BY <1>1 DEF Collides, jit_collision_test
<1>6. Minus(new.count_us, node.count_us) \in Int /\ Minus(node.count_us, new.count_us) \in Int
  BY <1>3, CounterAssumption DEF Minus, Time
<1> HIDE DEF node
<1>7. Clear(new, node) /\ Clear(node, new)
  BY <1>3, <1>4, <1>5, <1>6, DelayAssumption DEF Clear
<1> QED
  BY <1>7 DEF node

(* Inserting an accepted packet keeps the queue sound.                      *)
LEMMA InsertedSound ==
  ASSUME NEW q, SoundQueue(q), NEW time, NEW new \in Node,
         new.pre_delay >= TX_START_DELAY, JitVerdict(q, time, new) = "OK",
         NEW r \in Inserted(q, new)
  PROVE  SoundQueue(r) /\ Len(r.nodes) = Len(q.nodes) + 1
<1> DEFINE nodes == Append(q.nodes, new)
           n     == Len(q.nodes)
<1>1. /\ q.nodes \in Seq(Node) /\ q.num_beacon \in Int
      /\ n \in Nat /\ DOMAIN q.nodes = 1 .. n
      /\ Spaced(q.nodes) /\ Reserved(q.nodes)
  BY DEF SoundQueue, Queues
<1>2. /\ nodes \in Seq(Node) /\ DOMAIN nodes = 1 .. n + 1
      /\ nodes[n + 1] = new
      /\ \A i \in 1 .. n : nodes[i] = q.nodes[i]
  BY <1>1
<1>3. Spaced(nodes)
  <2> SUFFICES ASSUME NEW i \in 1 .. n + 1, NEW j \in 1 .. n + 1, i # j
               PROVE  Clear(nodes[i], nodes[j])
    BY <1>2 DEF Spaced
  <2>1. CASE i \in 1 .. n /\ j \in 1 .. n
    BY <1>1, <1>2, <2>1 DEF Spaced
  <2>2. CASE i = n + 1
    <3>1. j \in 1 .. n
      BY <1>1, <2>2
    <3> QED
      BY <1>1, <1>2, <2>2, <3>1, AcceptedClear
  <2>3. CASE j = n + 1
    <3>1. i \in 1 .. n
      BY <1>1, <2>3
    <3> QED
      BY <1>1, <1>2, <2>3, <3>1, AcceptedClear
  <2> QED
    BY <1>1, <2>1, <2>2, <2>3
<1>4. Reserved(nodes)
  BY <1>1, <1>2 DEF Reserved
<1>5. PICK s \in Sorted(nodes, 1 .. n + 1) :
        r = [nodes |-> s,
             num_beacon |-> IF new.pkt_type = BEACON THEN q.num_beacon + 1
                                                     ELSE q.num_beacon]
  BY DEF Inserted
<1> DEFINE Old == Beacons(q.nodes, 1 .. n)
<1>6. Cardinality(Beacons(nodes, 1 .. n + 1))
        = IF new.pkt_type = BEACON THEN Cardinality(Old) + 1 ELSE Cardinality(Old)
  <2>1. Beacons(nodes, 1 .. n + 1) = IF new.pkt_type = BEACON THEN Old \cup {n + 1} ELSE Old
    BY <1>1, <1>2 DEF Beacons
  <2>2. IsFiniteSet(Old) /\ n + 1 \notin Old
    <3>1. Old \subseteq 1 .. n
      BY DEF Beacons
    <3>2. IsFiniteSet(Old)
      BY <1>1, BeaconsFinite
    <3> QED
      BY <1>1, <3>1, <3>2
  <2> HIDE DEF Old
  <2> QED
    BY <2>1, <2>2, FS_AddElement
<1> HIDE DEF nodes
<1>7. /\ s \in Seq(Node) /\ Spaced(s) /\ Reserved(s)
      /\ Cardinality(Beacons(s, DOMAIN s)) = Cardinality(Beacons(nodes, 1 .. n + 1))
  BY <1>2, <1>3, <1>4, SortedNodes, SortedSpaced, SortedBeacons
<1>8. Len(s) = n + 1
  BY <1>1, <1>2, SortedNodes, IntervalCard
<1>9. n + 1 <= JIT_QUEUE_MAX
  BY <1>1, QueueAssumption DEF SoundQueue, Counted, JitVerdict
<1>10. r.num_beacon = Cardinality(Beacons(s, DOMAIN s)) /\ r.num_beacon \in Int
  <2>1. q.num_beacon = Cardinality(Old)
    BY <1>1 DEF SoundQueue, Counted
  <2> QED
    BY <1>1, <1>5, <1>6, <1>7, <2>1
<1> QED
  BY <1>5, <1>7, <1>8, <1>9, <1>10 DEF SoundQueue, Queues, Counted

(* A call of jit_enqueue: the queue stays sound, and is one packet longer   *)
(* exactly when the caller is told so.                                      *)
LEMMA EnqueueSound ==
  ASSUME NEW q, SoundQueue(q), NEW time \in Time,
         NEW p, p.pkt \in Payload, p.count_us \in Time, p.pkt_type \in PktTypes,
         p.toa \in TimeOnAir, NEW r \in JitEnqueue(q, time, p)
  PROVE  /\ SoundQueue(r.queue)
         /\ Len(r.queue.nodes) = IF r.err = "OK" THEN Len(q.nodes) + 1 ELSE Len(q.nodes)
<1>1. PICK count \in Departures(q, time, p) :
         /\ r.err = JitVerdict(q, time, NodeOf(p, count))
         /\ r.queue \in IF JitVerdict(q, time, NodeOf(p, count)) = "OK"
                          THEN Inserted(q, NodeOf(p, count)) ELSE {q}
  BY DEF JitEnqueue
<1>2. count \in Time
  BY DeparturesType DEF SoundQueue
<1>3. NodeOf(p, count) \in Node /\ NodeOf(p, count).pre_delay >= TX_START_DELAY
  BY <1>2, NodeOfType
<1>4. CASE r.err = "OK"
  BY <1>1, <1>3, <1>4, InsertedSound
<1>5. CASE r.err # "OK"
  BY <1>1, <1>5
<1> QED
  BY <1>4, <1>5

(* A call of jit_peek: packets may be dropped, and the index is 0 or that of*)
(* a packet that is left.                                                   *)
LEMMA PeekSound ==
  ASSUME NEW q, SoundQueue(q), NEW time, NEW r \in JitPeek(q, time)
  PROVE  /\ SoundQueue(r.queue) /\ r.index \in {0} \cup DOMAIN r.queue.nodes
         /\ Len(r.queue.nodes) <= Len(q.nodes)
<1>1. PICK k \in Keeping(q, PeekKept(q.nodes, time)) :
         /\ r.queue = k
         /\ r.index = PeekIndex(k.nodes, IF HeadDropped(q.nodes, time) THEN 2 ELSE 1, time)
  BY DEF JitPeek
<1>2. PeekKept(q.nodes, time) \in SUBSET DOMAIN q.nodes
  BY DEF PeekKept
<1>3. SoundQueue(k) /\ Len(k.nodes) <= Len(q.nodes)
  <2>1. q.nodes \in Seq(Node)
    BY DEF SoundQueue, Queues
  <2>2. IsFiniteSet(DOMAIN q.nodes) /\ Cardinality(DOMAIN q.nodes) = Len(q.nodes)
    BY <2>1, IntervalCard
  <2> QED
    BY <1>2, <2>2, KeepingSound, FS_Subset
<1>4. r.index \in {0} \cup DOMAIN k.nodes
  BY <1>1 DEF PeekIndex
<1> QED
  BY <1>1, <1>3, <1>4

(* A call of jit_dequeue takes one packet out.                              *)
LEMMA DequeueSound ==
  ASSUME NEW q, SoundQueue(q), NEW index \in DOMAIN q.nodes, NEW r \in JitDequeue(q, index)
  PROVE  SoundQueue(r) /\ Len(r.nodes) = Len(q.nodes) - 1
<1>1. q.nodes \in Seq(Node)
  BY DEF SoundQueue, Queues
<1>2. IsFiniteSet(DOMAIN q.nodes) /\ Cardinality(DOMAIN q.nodes) = Len(q.nodes)
  BY <1>1, IntervalCard
<1>3. Cardinality(DOMAIN q.nodes \ {index}) = Len(q.nodes) - 1
  BY <1>2, FS_RemoveElement
<1>4. r \in Keeping(q, DOMAIN q.nodes \ {index})
  BY DEF JitDequeue
<1> QED
  BY <1>3, <1>4, KeepingSound

(* The queue that jit_queue_init leaves is sound. *)
LEMMA EmptySound == SoundQueue(EmptyQueue)
<1>1. Beacons(<< >>, {}) = {}
  BY DEF Beacons
<1> QED
  BY <1>1, FS_EmptySet, QueueAssumption
     DEF SoundQueue, Queues, EmptyQueue, Spaced, Reserved, Counted

-----------------------------------------------------------------------------
(* Planned queues *)

(* Every packet reserves what jit_enqueue computed for its type.            *)
Planned(nodes) ==
  \A i \in DOMAIN nodes :
    /\ nodes[i].pre_delay = PreDelay(nodes[i].pkt_type)
    /\ nodes[i].post_delay = BEACON_RESERVED \/ nodes[i].post_delay \in TimeOnAir
    /\ nodes[i].pkt_type = BEACON => nodes[i].post_delay = BEACON_RESERVED

(* Any two packets are as far apart as an immediate downlink must be: the   *)
(* whole pre-delay, except that of a beacon.                                *)
Apart(nodes) ==
  \A i, j \in DOMAIN nodes : i # j =>
    Minus(nodes[i].count_us, nodes[j].count_us)
      > TargetPreDelay(CLASS_C, nodes[i]) + nodes[j].post_delay + TX_MARGIN_DELAY

(* Both survive every rearrangement and removal.                            *)
LEMMA SortedPlanned ==
  ASSUME NEW nodes \in Seq(Node), NEW K \in SUBSET DOMAIN nodes,
         NEW s \in Sorted(nodes, K), Planned(nodes), Apart(nodes)
  PROVE  Planned(s) /\ Apart(s)
<1>1. PICK f \in [DOMAIN s -> K] :
         /\ \A i, j \in DOMAIN s : f[i] = f[j] => i = j
         /\ \A i \in DOMAIN s : s[i] = nodes[f[i]]
  BY SortedNodes
<1>2. \A i \in DOMAIN s : f[i] \in DOMAIN nodes
  OBVIOUS
<1>3. Planned(s)
  BY <1>1, <1>2 DEF Planned
<1>4. Apart(s)
  <2> SUFFICES ASSUME NEW i \in DOMAIN s, NEW j \in DOMAIN s, i # j
               PROVE  Minus(s[i].count_us, s[j].count_us)
                        > TargetPreDelay(CLASS_C, s[i]) + s[j].post_delay + TX_MARGIN_DELAY
    BY DEF Apart
  <2> QED
    BY <1>1, <1>2 DEF Apart
<1> QED
  BY <1>3, <1>4

(* And the insertion of an accepted packet.                                 *)
LEMMA AppendPlanned ==
  ASSUME NEW q, SoundQueue(q), Planned(q.nodes), Apart(q.nodes), NEW time,
         NEW p, p.pkt \in Payload, p.pkt_type \in PktTypes, p.toa \in TimeOnAir,
         NEW count \in Time, JitVerdict(q, time, NodeOf(p, count)) = "OK"
  PROVE  Planned(Append(q.nodes, NodeOf(p, count))) /\ Apart(Append(q.nodes, NodeOf(p, count)))
<1> DEFINE new   == NodeOf(p, count)
           n     == Len(q.nodes)
           nodes == Append(q.nodes, new)
<1>1. new \in Node /\ new.pre_delay >= TX_START_DELAY
  BY NodeOfType
<1>2. /\ new.pre_delay = PreDelay(new.pkt_type)
      /\ new.post_delay = BEACON_RESERVED \/ new.post_delay \in TimeOnAir
      /\ new.pkt_type = BEACON => new.post_delay = BEACON_RESERVED
  BY DEF NodeOf, PostDelay
<1>3. \A i \in DOMAIN q.nodes : ~Collides(new, q.nodes[i])
  BY DEF JitVerdict
<1> HIDE DEF new
<1>4. /\ DOMAIN q.nodes = 1 .. n /\ n \in Nat /\ DOMAIN nodes = 1 .. n + 1
      /\ nodes[n + 1] = new /\ \A i \in 1 .. n : nodes[i] = q.nodes[i]
  BY <1>1 DEF SoundQueue, Queues
<1> HIDE DEF nodes
<1>5. Planned(nodes)
  <2> SUFFICES ASSUME NEW i \in 1 .. n + 1
               PROVE  /\ nodes[i].pre_delay = PreDelay(nodes[i].pkt_type)
                      /\ nodes[i].post_delay = BEACON_RESERVED \/ nodes[i].post_delay \in TimeOnAir
                      /\ nodes[i].pkt_type = BEACON => nodes[i].post_delay = BEACON_RESERVED
    BY <1>4 DEF Planned
  <2>1. CASE i \in 1 .. n
    BY <1>4, <2>1 DEF Planned
  <2>2. CASE i = n + 1
    BY <1>2, <1>4, <2>2
  <2> QED
    BY <1>4, <2>1, <2>2
<1>6. ASSUME NEW i \in 1 .. n
      PROVE  /\ Minus(new.count_us, q.nodes[i].count_us)
                  > TargetPreDelay(CLASS_C, new) + q.nodes[i].post_delay + TX_MARGIN_DELAY
             /\ Minus(q.nodes[i].count_us, new.count_us)
                  > TargetPreDelay(CLASS_C, q.nodes[i]) + new.post_delay + TX_MARGIN_DELAY
  <2> DEFINE node == q.nodes[i]
  <2>1. node \in Node /\ node.pre_delay >= TX_START_DELAY
    BY <1>4 DEF SoundQueue, Queues, Reserved
  <2>2. /\ ~(Minus(new.count_us, node.count_us)
              <= new.pre_delay + node.post_delay + TX_MARGIN_DELAY)
        /\ ~(Minus(node.count_us, new.count_us)
              <= TargetPreDelay(new.pkt_type, node) + new.post_delay + TX_MARGIN_DELAY)
    BY <1>3, <1>4 DEF Collides, jit_collision_test
  <2> HIDE DEF node
  <2>3. /\ new.count_us \in Time /\ node.count_us \in Time
        /\ new.pre_delay \in Nat /\ node.pre_delay \in Nat
        /\ new.post_delay \in Nat /\ node.post_delay \in Nat
    BY <1>1, <2>1, CounterAssumption DEF Node, Delay
  <2>4. /\ TargetPreDelay(CLASS_C, new) \in Nat /\ TargetPreDelay(CLASS_C, new) <= new.pre_delay
        /\ TargetPreDelay(CLASS_C, node) \in Nat
        /\ TargetPreDelay(new.pkt_type, node) \in Nat
        /\ TargetPreDelay(CLASS_C, node) <= TargetPreDelay(new.pkt_type, node)
    BY <1>1, <2>1, <2>3, DelayAssumption DEF TargetPreDelay
  <2>5. Minus(new.count_us, node.count_us) \in Time /\ Minus(node.count_us, new.count_us) \in Time
    BY <2>3, MinusType
  <2>6. \A x \in Time, a, b, c, d \in Nat : ~(x <= a + c + d) /\ b <= a => x > b + c + d
    BY CounterAssumption DEF Time
  <2>7. /\ Minus(new.count_us, node.count_us)
              > TargetPreDelay(CLASS_C, new) + node.post_delay + TX_MARGIN_DELAY
        /\ Minus(node.count_us, new.count_us)
              > TargetPreDelay(CLASS_C, node) + new.post_delay + TX_MARGIN_DELAY
    BY <2>2, <2>3, <2>4, <2>5, <2>6, DelayAssumption
  <2> QED
    BY <2>7 DEF node
<1>7. Apart(nodes)
  <2> SUFFICES ASSUME NEW i \in 1 .. n + 1, NEW j \in 1 .. n + 1, i # j
               PROVE  Minus(nodes[i].count_us, nodes[j].count_us)
                        > TargetPreDelay(CLASS_C, nodes[i]) + nodes[j].post_delay + TX_MARGIN_DELAY
    BY <1>4 DEF Apart
  <2>1. CASE i \in 1 .. n /\ j \in 1 .. n
    BY <1>4, <2>1 DEF Apart
  <2>2. CASE i = n + 1
    <3>1. j \in 1 .. n
      BY <1>4, <2>2
    <3> QED
      BY <1>4, <1>6, <2>2, <3>1
  <2>3. CASE j = n + 1
    <3>1. i \in 1 .. n
      BY <1>4, <2>3
    <3> QED
      BY <1>4, <1>6, <2>3, <3>1
  <2> QED
    BY <1>4, <2>1, <2>2, <2>3
<1> QED
  BY <1>5, <1>7 DEF new, nodes

=============================================================================
