--------------------------- MODULE JitQueueProofs ---------------------------
(***************************************************************************)
(* What is proved about the just-in-time queue for every modulus, delay,   *)
(* capacity and set of requests: its type, that the radio is never booked  *)
(* twice, and that its counters are right; and, where the packets lie      *)
(* within half a turn of the counter, that it is in the order of departure,*)
(* that jit_peek finds what is due, and that an immediate packet fits.     *)
(***************************************************************************)
EXTENDS JitQueue, JitQueueLemmas

IInv == SoundQueue(queue) /\ now \in Time /\ peeked \in Nat

(* Two spaced packets never keep the radio busy at the same instant. *)
LEMMA ClearImpliesDisjoint ==
  ASSUME NEW a \in Node, NEW b \in Node, Clear(a, b)
  PROVE  Airtime(a) \cap Airtime(b) = {}
<1> SUFFICES ASSUME NEW t \in Airtime(a), t \in Airtime(b) PROVE FALSE
  OBVIOUS
<1>1. /\ a.count_us \in Time /\ b.count_us \in Time /\ TX_START_DELAY \in Time
      /\ a.post_delay \in Nat /\ b.post_delay \in Nat
      /\ TX_START_DELAY \in Nat /\ TX_MARGIN_DELAY \in Nat
  <2>1. a.count_us \in Time /\ b.count_us \in Time
    BY DEF Node
  <2>2. a.post_delay \in Nat /\ b.post_delay \in Nat
    BY CounterAssumption DEF Node, Delay
  <2>3. BEACON_RESERVED \in TimeOnAir \cup {BEACON_RESERVED}
    OBVIOUS
  <2>4. TX_START_DELAY \in Time
    BY <2>3, DelayAssumption, CounterAssumption DEF Time
  <2> QED
    BY <2>1, <2>2, <2>4, DelayAssumption
<1>2. PICK x \in 0 .. TX_START_DELAY + a.post_delay :
         t = Plus(Minus(a.count_us, TX_START_DELAY), x)
  BY DEF Airtime
<1>3. PICK y \in 0 .. TX_START_DELAY + b.post_delay :
         t = Plus(Minus(b.count_us, TX_START_DELAY), y)
  BY DEF Airtime
<1>4. /\ y >= x => Minus(a.count_us, b.count_us) = y - x
      /\ x >= y => Minus(b.count_us, a.count_us) = x - y
  <2>1. TX_START_DELAY + a.post_delay < M /\ TX_START_DELAY + b.post_delay < M
    <3>1. Minus(a.count_us, b.count_us) \in Time /\ Minus(b.count_us, a.count_us) \in Time
      BY <1>1, MinusType
    <3> QED
      BY <1>1, <3>1, CounterAssumption DEF Clear, Time
  <2> QED
    BY <1>1, <1>2, <1>3, <2>1, CounterAssumption DEF Plus, Minus, Time, Delay
<1>5. CASE y >= x
  <2>1. Minus(a.count_us, b.count_us) = y - x
    BY <1>4, <1>5
  <2>2. Minus(a.count_us, b.count_us) > TX_START_DELAY + b.post_delay + TX_MARGIN_DELAY
    BY DEF Clear
  <2> QED
    BY <1>1, <1>2, <1>3, <2>1, <2>2
<1>6. CASE ~(y >= x)
  <2>1. Minus(b.count_us, a.count_us) = x - y
    BY <1>1, <1>2, <1>3, <1>4, <1>6
  <2>2. Minus(b.count_us, a.count_us) > TX_START_DELAY + a.post_delay + TX_MARGIN_DELAY
    BY DEF Clear
  <2> QED
    BY <1>1, <1>2, <1>3, <2>1, <2>2
<1> QED
  BY <1>5, <1>6

-----------------------------------------------------------------------------
(* IInv is inductive: a call of each function, and the moving counter, keep *)
(* the queue sound.                                                         *)
LEMMA Inductive == IInv /\ [Next]_vars => IInv'
<1> SUFFICES ASSUME IInv, [Next]_vars PROVE IInv'
  OBVIOUS
<1> USE DEF IInv
<1>1. ASSUME NEW p \in Requests, Enqueue(p) PROVE IInv'
  <2>1. PICK id \in Payload, lead \in Leads, type \in PktTypes, toa \in TimeOnAir :
           p = [pkt |-> id, count_us |-> Plus(now, lead), pkt_type |-> type, toa |-> toa]
    BY <1>1 DEF Requests
  <2>2. Plus(now, lead) \in Time
    BY PlusType, InputAssumption
  <2>3. PICK r \in JitEnqueue(queue, now, p) : queue' = r.queue
    BY <1>1 DEF Enqueue
  <2>4. SoundQueue(r.queue)
    BY <2>1, <2>2, EnqueueSound
  <2> QED
    BY <1>1, <2>3, <2>4 DEF Enqueue
<1>2. CASE Peek
  <2>1. PICK r \in JitPeek(queue, now) : queue' = r.queue /\ peeked' = r.index
    BY <1>2 DEF Peek
  <2>2. SoundQueue(r.queue) /\ r.index \in {0} \cup DOMAIN r.queue.nodes
    BY PeekSound
  <2>3. r.index \in Nat
    <3>1. r.queue.nodes \in Seq(Node)
      BY <2>2 DEF SoundQueue, Queues
    <3> QED
      BY <2>2, <3>1
  <2> QED
    BY <1>2, <2>1, <2>2, <2>3 DEF Peek
<1>3. CASE Dequeue
  BY <1>3, DequeueSound DEF Dequeue
<1>4. ASSUME NEW d \in Steps, Tick(d) PROVE IInv'
  <2>1. Plus(now, d) \in Time
    BY PlusType, InputAssumption
  <2> QED
    BY <1>4, <2>1 DEF Tick
<1>5. CASE UNCHANGED vars
  BY <1>5 DEF vars
<1> QED
  BY <1>1, <1>2, <1>3, <1>4, <1>5 DEF Next

(* The initial, empty queue satisfies IInv. *)
LEMMA Initially == Init => IInv
BY EmptySound DEF Init, IInv

(* The queue, the counter and the held index keep their types. *)
THEOREM TypeCorrect == Spec => []TypeOK
<1>1. IInv => TypeOK
  BY DEF IInv, SoundQueue, Queues, TypeOK
<1> QED
  BY <1>1, Initially, Inductive, PTL DEF Spec

(* No instant of the counter is ever booked by two queued packets. *)
THEOREM NeverDoubleBooked == Spec => []RadioNeverDoubleBooked
<1>1. IInv => RadioNeverDoubleBooked
  <2> SUFFICES ASSUME IInv,
                      NEW i \in DOMAIN queue.nodes, NEW j \in DOMAIN queue.nodes, i # j
               PROVE  Airtime(queue.nodes[i]) \cap Airtime(queue.nodes[j]) = {}
    BY DEF RadioNeverDoubleBooked
  <2>1. queue.nodes[i] \in Node /\ queue.nodes[j] \in Node
    BY DEF IInv, SoundQueue, Queues
  <2>2. Clear(queue.nodes[i], queue.nodes[j])
    BY DEF IInv, SoundQueue, Spaced
  <2> QED
    BY <2>1, <2>2, ClearImpliesDisjoint
<1> QED
  BY <1>1, Initially, Inductive, PTL DEF Spec

(* num_beacon is the number of queued beacons and the queue fits its array, *)
(* after any sequence of calls.                                             *)
THEOREM CountersRight == Spec => []CountersMatch
<1>1. IInv => CountersMatch
  BY DEF IInv, SoundQueue, Counted, CountersMatch
<1> QED
  BY <1>1, Initially, Inductive, PTL DEF Spec

-----------------------------------------------------------------------------
(* The order of departure *)

(* The window in which every queued packet departs, late ones included.     *)
Base == Minus(now, MAX_LATE)
Span == MAX_LATE + HORIZON

Placed(nodes) ==
  /\ Planned(nodes) /\ Apart(nodes)
  /\ Within(Base, Span, nodes)
  /\ Ordered(Base, nodes)

(* The held index designates a packet that departs before those that are    *)
(* not due yet.                                                             *)
HeldEarly ==
  peeked # 0 => /\ peeked \in DOMAIN queue.nodes
                /\ Offset(Base, queue.nodes[peeked]) < MAX_LATE + TX_JIT_DELAY

OInv == IInv /\ Placed(queue.nodes) /\ HeldEarly

(* The orders of magnitude that the assumptions fix.                        *)
LEMMA Magnitudes ==
  /\ MAX_LATE \in Nat /\ MAX_LATE \in Delay /\ HORIZON \in Nat /\ LONGEST \in Nat
  /\ Span \in Nat /\ 2 * Span < M /\ M \in Nat
  /\ TX_START_DELAY \in Nat /\ TX_MARGIN_DELAY \in Nat /\ TX_JIT_DELAY \in Nat
  /\ TX_MAX_ADVANCE_DELAY \in Nat /\ BEACON_GUARD \in Nat /\ ASAP_DELAY \in Nat
  /\ JIT_QUEUE_MAX \in Nat /\ JIT_QUEUE_MAX > 0
  /\ WideGap \in Nat
  /\ ASAP_DELAY + (JIT_QUEUE_MAX - 1) * WideGap <= HORIZON
  /\ ASAP_DELAY <= HORIZON
  /\ JIT_QUEUE_MAX > 1 => WideGap <= HORIZON
  /\ TX_START_DELAY + TX_MARGIN_DELAY + TX_JIT_DELAY < HORIZON
<1>1. /\ TX_START_DELAY \in Nat /\ TX_MARGIN_DELAY \in Nat /\ TX_JIT_DELAY \in Nat
      /\ TX_MAX_ADVANCE_DELAY \in Nat /\ BEACON_GUARD \in Nat /\ ASAP_DELAY \in Nat
      /\ LONGEST \in Nat /\ HORIZON \in Nat /\ MAX_LATE \in Nat /\ M \in Nat
  BY DelayAssumption, CounterAssumption, SpanAssumption, InputAssumption DEF Delay
<1>2. Span \in Nat /\ 2 * Span < M /\ MAX_LATE \in Delay
  BY <1>1, SpanAssumption DEF Span, Delay
<1>3. JIT_QUEUE_MAX \in Nat /\ JIT_QUEUE_MAX > 0
  BY QueueAssumption
<1>4. WideGap \in Nat
  BY <1>1 DEF WideGap
<1>5. JIT_QUEUE_MAX - 1 \in Nat /\ (JIT_QUEUE_MAX - 1) * WideGap \in Nat
      /\ (JIT_QUEUE_MAX > 1 => WideGap <= (JIT_QUEUE_MAX - 1) * WideGap)
  <2>1. JIT_QUEUE_MAX - 1 \in Nat
    BY <1>3
  <2>2. \A m, n \in Nat : m * WideGap \in Nat /\ (m <= n => m * WideGap <= n * WideGap)
    BY <1>4, TimesStep
  <2>3. 1 * WideGap = WideGap
    BY <1>4
  <2> QED
    BY <1>3, <2>1, <2>2, <2>3
<1>6. ASAP_DELAY + (JIT_QUEUE_MAX - 1) * WideGap <= HORIZON
  BY SpanAssumption
<1>7. ASAP_DELAY <= HORIZON /\ (JIT_QUEUE_MAX > 1 => WideGap <= HORIZON)
  BY <1>1, <1>4, <1>5, <1>6
<1>8. TX_START_DELAY + TX_MARGIN_DELAY + TX_JIT_DELAY < HORIZON
  BY <1>1, <1>7, SlotAssumption
<1> QED
  BY <1>1, <1>2, <1>3, <1>4, <1>6, <1>7, <1>8

(* A lead, as the offset from the start of the window: a late packet has a  *)
(* lead near a whole turn.                                                  *)
LEMMA LeadByOffset ==
  ASSUME now \in Time, NEW count \in Time
  PROVE  /\ Base \in Time
         /\ Minus(count, Base) \in Nat /\ Minus(count, now) \in Nat
         /\ Minus(count, now) = IF Minus(count, Base) >= MAX_LATE
                                  THEN Minus(count, Base) - MAX_LATE
                                  ELSE M - (MAX_LATE - Minus(count, Base))
         /\ Minus(count, now) + MAX_LATE < M
              => Minus(count, Base) = Minus(count, now) + MAX_LATE
BY Magnitudes, CounterAssumption DEF Base, Minus, Time, Delay

(* The times of the packets of a planned queue.                             *)
LEMMA PlannedBounds ==
  ASSUME NEW nodes \in Seq(Node), Planned(nodes), NEW i \in DOMAIN nodes
  PROVE  LET node == nodes[i]
         IN  /\ node \in Node /\ node.count_us \in Time
             /\ node.post_delay \in Nat /\ node.post_delay <= LONGEST
             /\ node.pre_delay \in Nat
             /\ node.pre_delay <= TX_START_DELAY + BEACON_GUARD + TX_JIT_DELAY
             /\ node.pre_delay >= TX_START_DELAY + TX_JIT_DELAY
             /\ Behind(node) \in Nat
             /\ Behind(node) <= LONGEST + TX_START_DELAY + 2 * TX_JIT_DELAY + TX_MARGIN_DELAY
             /\ TargetPreDelay(CLASS_C, node)
                  = IF node.pkt_type = BEACON THEN TX_START_DELAY
                                              ELSE TX_START_DELAY + TX_JIT_DELAY
<1> DEFINE node == nodes[i]
<1>1. node \in Node
  OBVIOUS
<1>2. /\ node.pre_delay = PreDelay(node.pkt_type)
      /\ node.post_delay \in TimeOnAir \cup {BEACON_RESERVED}
  BY DEF Planned
<1> HIDE DEF node
<1>3. node.count_us \in Time
  BY <1>1 DEF Node
<1>4. /\ node.post_delay \in Nat /\ node.post_delay <= LONGEST
  BY <1>2, DelayAssumption, SpanAssumption
<1>5. /\ node.pre_delay \in Nat
      /\ node.pre_delay <= TX_START_DELAY + BEACON_GUARD + TX_JIT_DELAY
      /\ node.pre_delay >= TX_START_DELAY + TX_JIT_DELAY
      /\ node.pkt_type # BEACON => node.pre_delay = TX_START_DELAY + TX_JIT_DELAY
  BY <1>2, Magnitudes DEF PreDelay
<1>6. /\ Behind(node) \in Nat
      /\ Behind(node) <= LONGEST + TX_START_DELAY + 2 * TX_JIT_DELAY + TX_MARGIN_DELAY
  BY <1>4, Magnitudes DEF Behind
<1>7. TargetPreDelay(CLASS_C, node)
        = IF node.pkt_type = BEACON THEN TX_START_DELAY ELSE TX_START_DELAY + TX_JIT_DELAY
  BY <1>5 DEF TargetPreDelay
<1> QED
  BY <1>1, <1>3, <1>4, <1>5, <1>6, <1>7 DEF node

(* An immediate downlink, as it is compared with the queue.                 *)
LEMMA ImmediateNode ==
  ASSUME NEW p \in Requests, p.pkt_type = CLASS_C, NEW count \in Time
  PROVE  LET new == NodeOf(p, count)
         IN  /\ new.count_us = count /\ new.pkt_type = CLASS_C
             /\ new.pre_delay = TX_START_DELAY + TX_JIT_DELAY
             /\ new.post_delay \in Nat /\ new.post_delay <= LONGEST
<1>1. p.toa \in TimeOnAir
  BY DEF Requests
<1>2. p.toa \in Nat /\ p.toa <= LONGEST
  BY <1>1, DelayAssumption, SpanAssumption
<1> QED
  BY <1>2 DEF NodeOf, PreDelay, PostDelay, CLASS_C, BEACON

(* What overlaps an immediate downlink departs at most a wide gap, less the *)
(* part behind the earlier packet, after it.                                *)
LEMMA OverlapNear ==
  ASSUME now \in Time, NEW nodes \in Seq(Node), Planned(nodes), Within(Base, Span, nodes),
         JIT_QUEUE_MAX > 1, NEW p \in Requests, p.pkt_type = CLASS_C,
         NEW count \in Time, NEW k \in DOMAIN nodes, Overlaps(NodeOf(p, count), nodes[k])
  PROVE  Offset(Base, nodes[k])
           <= Minus(count, Base)
              + (WideGap - (LONGEST + TX_START_DELAY + 2 * TX_JIT_DELAY + TX_MARGIN_DELAY))
<1> DEFINE node == nodes[k]
           new  == NodeOf(p, count)
           o    == Minus(node.count_us, Base)
           x    == Minus(count, Base)
<1>1. /\ node.count_us \in Time /\ node.post_delay \in Nat /\ node.post_delay <= LONGEST
      /\ node.pre_delay \in Nat /\ node.pre_delay <= TX_START_DELAY + BEACON_GUARD + TX_JIT_DELAY
  BY PlannedBounds
<1>2. new.count_us = count /\ new.pre_delay = TX_START_DELAY + TX_JIT_DELAY
      /\ new.post_delay \in Nat /\ new.post_delay <= LONGEST
  BY ImmediateNode
<1>3. \/ Minus(count, node.count_us) <= TX_START_DELAY + TX_JIT_DELAY + node.post_delay + TX_MARGIN_DELAY
      \/ Minus(node.count_us, count) <= node.pre_delay + new.post_delay + TX_MARGIN_DELAY
  BY <1>2 DEF Overlaps, jit_collision_test
<1>4. Base \in Time /\ o \in Nat /\ x \in Nat
  BY <1>1, LeadByOffset
<1>5. o <= Span
  BY DEF Within, Offset
<1>6. Minus(count, node.count_us) = (IF x >= o THEN x - o ELSE M - (o - x))
      /\ Minus(node.count_us, count) = (IF o >= x THEN o - x ELSE M - (x - o))
  BY <1>1, <1>4, MinusByOffset
<1> HIDE DEF node, new, o, x
<1>7. o <= x + (WideGap - (LONGEST + TX_START_DELAY + 2 * TX_JIT_DELAY + TX_MARGIN_DELAY))
  <2>1. WideGap - (LONGEST + TX_START_DELAY + 2 * TX_JIT_DELAY + TX_MARGIN_DELAY)
          = LONGEST + TX_START_DELAY + TX_MARGIN_DELAY + TX_JIT_DELAY + BEACON_GUARD
    BY Magnitudes DEF WideGap
  <2>2. CASE o <= x
    BY <1>4, <2>1, <2>2, Magnitudes
  <2>3. CASE o > x
    <3>1. Minus(count, node.count_us) = M - (o - x) /\ Minus(node.count_us, count) = o - x
      BY <1>4, <1>6, <2>3
    <3>2. M - (o - x) > WideGap
      BY <1>4, <1>5, Magnitudes DEF Span
    <3>3. TX_START_DELAY + TX_JIT_DELAY + node.post_delay + TX_MARGIN_DELAY <= WideGap
      BY <1>1, Magnitudes DEF WideGap
    <3>4. o - x <= node.pre_delay + new.post_delay + TX_MARGIN_DELAY
      BY <1>1, <1>3, <1>4, <3>1, <3>2, <3>3, Magnitudes
    <3> QED
      BY <1>1, <1>2, <1>4, <2>1, <3>4, Magnitudes
  <2> QED
    BY <1>4, <2>2, <2>3
<1> QED
  BY <1>7 DEF o, x, node, Offset

(* One more step of at most w.                                              *)
LEMMA OneMoreStep ==
  ASSUME NEW a \in Nat, NEW b \in Nat, NEW c \in Nat, NEW d \in Nat, NEW w \in Nat,
         b <= a + d, c <= b + w
  PROVE  c <= a + (d + w)
OBVIOUS

(* The wide gap, the distance of two packets and the way from the one to    *)
(* the slot behind it add up.                                               *)
LEMMA NextWithin ==
  ASSUME NEW a \in Nat, NEW b \in Nat, NEW behind \in Nat, NEW room \in Nat, NEW w \in Nat,
         behind <= room, b <= (a + behind) + (w - room)
  PROVE  b <= a + w
OBVIOUS

(* A slot behind packet i is clear of the packets before it.                *)
LEMMA ClearBefore ==
  ASSUME NEW y \in Nat, NEW oi \in Nat, NEW oj \in Nat, NEW a \in Nat, NEW b \in Nat,
         NEW c \in Nat, NEW st \in Nat, NEW jit \in Nat, NEW mg \in Nat,
         y = oi + a + st + 2 * jit + mg, jit > 0,
         (oj = oi /\ b = a) \/ (oi - oj > c + b + mg /\ c >= st)
  PROVE  y - oj > st + jit + b + mg
OBVIOUS

(* As long as no gap is wide enough, the packets follow each other within   *)
(* wide gaps.                                                               *)
LEMMA TightChain ==
  ASSUME now \in Time, NEW nodes \in Seq(Node), Planned(nodes),
         Within(Base, Span, nodes), JIT_QUEUE_MAX > 1,
         NEW p \in Requests, p.pkt_type = CLASS_C,
         NEW k \in DOMAIN nodes, NEW i \in DOMAIN nodes,
         \A h \in Gaps(nodes, p) : i <= h
  PROVE  \A m \in Nat : k + m <= i =>
           Offset(Base, nodes[k + m]) <= Offset(Base, nodes[k]) + m * WideGap
<1> DEFINE o(j)  == Offset(Base, nodes[j])
           T     == {m \in Nat : k + m <= i /\ ~(o(k + m) <= o(k) + m * WideGap)}
<1>1. DOMAIN nodes = 1 .. Len(nodes) /\ Len(nodes) \in Nat
  OBVIOUS
<1>2. Base \in Time
  BY Magnitudes, MinusType DEF Base, Time, Delay
<1>3. \A j \in DOMAIN nodes : o(j) \in Nat
  BY <1>2, OffsetType
<1>4. WideGap \in Nat
  BY Magnitudes
<1>5. ASSUME NEW j \in DOMAIN nodes, j < i PROVE o(j + 1) <= o(j) + WideGap
  <2>1. j + 1 \in DOMAIN nodes /\ j \notin Gaps(nodes, p) /\ j < Len(nodes)
    BY <1>1, <1>5
  <2> DEFINE slot == SlotAfter(nodes[j], PreDelay(CLASS_C))
  <2>2. Overlaps(NodeOf(p, slot), nodes[j + 1])
    BY <2>1 DEF Gaps
  <2>3. Behind(nodes[j]) \in Nat
        /\ Behind(nodes[j]) <= LONGEST + TX_START_DELAY + 2 * TX_JIT_DELAY + TX_MARGIN_DELAY
    BY PlannedBounds
  <2>4. o(j) <= Span
    BY DEF Within
  <2>5. LONGEST + TX_START_DELAY + 2 * TX_JIT_DELAY + TX_MARGIN_DELAY <= HORIZON
    BY Magnitudes DEF WideGap
  <2>6. o(j) + Behind(nodes[j]) < M
    <3> HIDE DEF o
    <3> QED
      BY <1>3, <2>3, <2>4, <2>5, Magnitudes DEF Span
  <2>7. slot \in Time /\ Minus(slot, Base) = o(j) + Behind(nodes[j])
    BY <1>2, <2>6, SlotOffset
  <2> HIDE DEF slot
  <2>8. o(j + 1) <= Minus(slot, Base)
          + (WideGap - (LONGEST + TX_START_DELAY + 2 * TX_JIT_DELAY + TX_MARGIN_DELAY))
    BY <2>1, <2>2, <2>7, OverlapNear
  <2> DEFINE room == LONGEST + TX_START_DELAY + 2 * TX_JIT_DELAY + TX_MARGIN_DELAY
  <2>9. o(j) \in Nat /\ o(j + 1) \in Nat /\ room \in Nat
    BY <1>3, <2>1, Magnitudes
  <2> HIDE DEF o
  <2>10. o(j + 1) <= (o(j) + Behind(nodes[j])) + (WideGap - room)
    BY <2>7, <2>8
  <2>11. Behind(nodes[j]) \in Nat /\ Behind(nodes[j]) <= room
    BY <2>3
  <2> HIDE DEF room
  <2> QED
    BY <1>4, <2>9, <2>10, <2>11, NextWithin
<1>6. SUFFICES ASSUME T # {} PROVE FALSE
  BY DEF T
<1>7. PICK m \in T : \A h \in T : m <= h
  <2>1. T \subseteq Nat
    OBVIOUS
  <2> HIDE DEF T
  <2> QED
    BY <1>6, <2>1, LeastNat
<1> HIDE DEF o
<1>8. m \in Nat /\ k \in Nat /\ i \in Nat /\ k + m <= i /\ ~(o(k + m) <= o(k) + m * WideGap)
  BY <1>1, <1>7
<1>9. CASE m = 0
  <2>1. k + 0 = k /\ 0 * WideGap = 0
    BY <1>4, <1>8
  <2> QED
    BY <1>3, <1>8, <1>9, <2>1
<1>10. CASE m > 0
  <2> DEFINE l == m - 1
  <2>1. l \in Nat /\ l \notin T /\ k + l <= i /\ k + l < i /\ m = l + 1 /\ k + m = (k + l) + 1
    BY <1>7, <1>8, <1>10
  <2>2. o(k + l) <= o(k) + l * WideGap
    BY <2>1
  <2>3. k + l \in DOMAIN nodes /\ k + m \in DOMAIN nodes
    BY <1>1, <1>8, <2>1
  <2>4. o(k + m) <= o(k + l) + WideGap
    BY <1>5, <2>1, <2>3
  <2>5. l * WideGap \in Nat /\ m * WideGap = l * WideGap + WideGap
    BY <1>4, <2>1, TimesStep
  <2> HIDE DEF l
  <2> QED
    <3>1. o(k) \in Nat /\ o(k + l) \in Nat /\ o(k + m) \in Nat
      BY <1>3, <2>3
    <3>2. o(k + m) <= o(k) + (l * WideGap + WideGap)
      BY <1>4, <2>2, <2>4, <2>5, <3>1, OneMoreStep
    <3> QED
      BY <1>8, <2>5, <3>2
<1> QED
  BY <1>8, <1>9, <1>10

(* One second from now is within the horizon, also where the conversion to  *)
(* 32 bits saturates.                                                       *)
LEMMA AsapNear ==
  ASSUME now \in Time, NEW asap \in AsapCounts(now)
  PROVE  asap \in Time /\ Minus(asap, now) <= ASAP_DELAY
         /\ Minus(asap, Base) <= MAX_LATE + ASAP_DELAY
         /\ (now + ASAP_DELAY < M => asap = now + ASAP_DELAY /\ Minus(asap, now) = ASAP_DELAY)
<1>1. asap \in Time
  BY Magnitudes, DelayAssumption, CounterAssumption DEF AsapCounts, Plus, Time, Delay
<1>2. Minus(asap, now) <= ASAP_DELAY
  BY <1>1, Magnitudes, DelayAssumption, CounterAssumption DEF AsapCounts, Plus, Minus, Time, Delay
<1>3. Minus(asap, now) \in Nat /\ Minus(asap, now) + MAX_LATE < M
  BY <1>1, <1>2, LeadByOffset, Magnitudes DEF Span
<1>4. Minus(asap, Base) = Minus(asap, now) + MAX_LATE
  BY <1>1, <1>3, LeadByOffset
<1>5. now + ASAP_DELAY < M => asap = now + ASAP_DELAY /\ Minus(asap, now) = ASAP_DELAY
  BY Magnitudes, CounterAssumption DEF AsapCounts, Minus, Time
<1> QED
  BY <1>1, <1>2, <1>3, <1>4, <1>5, Magnitudes

(* The slot that the search chooses for an immediate downlink is behind a   *)
(* packet and within the horizon; it is in the past when the packet is.     *)
LEMMA SlotInWindow ==
  ASSUME now \in Time, NEW nodes \in Seq(Node), Planned(nodes), Ordered(Base, nodes),
         Within(Base, Span, nodes), Len(nodes) < JIT_QUEUE_MAX,
         NEW p \in Requests, p.pkt_type = CLASS_C, NEW asap \in AsapCounts(now),
         NEW k \in DOMAIN nodes, Overlaps(NodeOf(p, asap), nodes[k]),
         NEW i \in DOMAIN nodes, \A h \in Gaps(nodes, p) : i <= h
  PROVE  LET slot == SlotAfter(nodes[i], PreDelay(CLASS_C))
         IN  /\ slot \in Time
             /\ Minus(slot, Base) = Offset(Base, nodes[i]) + Behind(nodes[i])
             /\ Minus(slot, Base) <= Span
<1> DEFINE o(j)  == Offset(Base, nodes[j])
           Front == LONGEST + TX_START_DELAY + 2 * TX_JIT_DELAY + TX_MARGIN_DELAY
<1>1. DOMAIN nodes = 1 .. Len(nodes) /\ Len(nodes) \in Nat
  OBVIOUS
<1>2. Base \in Time
  BY Magnitudes, MinusType DEF Base, Time, Delay
<1>3. \A j \in DOMAIN nodes : o(j) \in Nat
  BY <1>2, OffsetType
<1>4. JIT_QUEUE_MAX > 1
  BY <1>1, Magnitudes
<1>5. asap \in Time /\ Minus(asap, Base) <= MAX_LATE + ASAP_DELAY
  BY AsapNear
<1>6. o(k) <= Minus(asap, Base) + (WideGap - Front)
  BY <1>4, <1>5, OverlapNear
<1>7. Behind(nodes[i]) \in Nat /\ Behind(nodes[i]) <= Front
  BY PlannedBounds
<1>8. PICK n \in Nat : n <= JIT_QUEUE_MAX - 2 /\ o(i) <= o(k) + n * WideGap
  <2>1. CASE i <= k
    <3>1. i = k \/ o(i) < o(k)
      BY <1>1, <2>1 DEF Ordered
    <3>2. 0 * WideGap = 0
      BY Magnitudes
    <3> HIDE DEF o
    <3>3. o(i) <= o(k) + 0 * WideGap
      BY <1>3, <3>1, <3>2
    <3>4. 0 \in Nat /\ 0 <= JIT_QUEUE_MAX - 2
      <4>1. JIT_QUEUE_MAX \in Nat
        BY Magnitudes
      <4> QED
        BY <1>4, <4>1
    <3> QED
      BY <3>3, <3>4
  <2>2. CASE i > k
    <3>1. i - k \in Nat /\ k + (i - k) = i /\ i - k <= JIT_QUEUE_MAX - 2
      BY <1>1, <2>2, Magnitudes
    <3>2. o(k + (i - k)) <= o(k) + (i - k) * WideGap
      BY <1>4, <3>1, TightChain
    <3> QED
      BY <3>1, <3>2
  <2> QED
    BY <1>1, <2>1, <2>2
<1>9. n * WideGap \in Nat /\ n * WideGap + WideGap <= (JIT_QUEUE_MAX - 1) * WideGap
  <2>1. n + 1 \in Nat /\ JIT_QUEUE_MAX - 1 \in Nat /\ n + 1 <= JIT_QUEUE_MAX - 1
    BY <1>8, Magnitudes
  <2>2. (n + 1) * WideGap <= (JIT_QUEUE_MAX - 1) * WideGap
    BY <2>1, TimesStep, Magnitudes
  <2>3. (n + 1) * WideGap = n * WideGap + WideGap /\ n * WideGap \in Nat
    BY TimesStep, Magnitudes
  <2> QED
    BY <2>2, <2>3
<1>10. Front \in Nat /\ Minus(asap, Base) \in Nat
  BY <1>5, LeadByOffset, Magnitudes
<1>11. (JIT_QUEUE_MAX - 1) * WideGap \in Nat
  BY <1>4, TimesStep, Magnitudes
<1> HIDE DEF o, Front
<1>12. o(i) + Behind(nodes[i]) <= MAX_LATE + ASAP_DELAY + (JIT_QUEUE_MAX - 1) * WideGap
  <2>1. \A oi, ok, b, a, nw, all, fr, w, late, delay \in Nat :
          /\ a <= late + delay /\ ok <= a + (w - fr) /\ b <= fr
          /\ oi <= ok + nw /\ nw + w <= all
          => oi + b <= late + delay + all
    OBVIOUS
  <2>2. WideGap \in Nat /\ MAX_LATE \in Nat /\ ASAP_DELAY \in Nat
    BY Magnitudes
  <2> QED
    BY <1>3, <1>5, <1>6, <1>7, <1>8, <1>9, <1>10, <1>11, <2>1, <2>2
<1>13. o(i) + Behind(nodes[i]) <= Span
  BY <1>3, <1>7, <1>11, <1>12, Magnitudes DEF Span
<1>14. o(i) + Behind(nodes[i]) < M
  BY <1>3, <1>7, <1>13, Magnitudes
<1>15. /\ SlotAfter(nodes[i], PreDelay(CLASS_C)) \in Time
       /\ Minus(SlotAfter(nodes[i], PreDelay(CLASS_C)), Base) = o(i) + Behind(nodes[i])
  <2>1. nodes[i] \in Node
    OBVIOUS
  <2> QED
    BY <1>2, <1>14, <2>1, SlotOffset DEF o
<1> QED
  BY <1>3, <1>7, <1>13, <1>15, Magnitudes DEF o

(* What a request is.                                                       *)
LEMMA RequestType ==
  ASSUME now \in Time, NEW p \in Requests
  PROVE  /\ p.pkt \in Payload /\ p.count_us \in Time /\ p.pkt_type \in PktTypes /\ p.toa \in TimeOnAir
         /\ p.pkt_type = BEACON => Minus(p.count_us, now) <= HORIZON
<1>1. PICK id \in Payload, lead \in Leads, type \in PktTypes, toa \in TimeOnAir :
         p = [pkt |-> id, count_us |-> Plus(now, lead), pkt_type |-> type, toa |-> toa]
  BY DEF Requests
<1>2. lead \in Delay /\ Plus(now, lead) \in Time
  BY PlusType, InputAssumption
<1>3. Minus(Plus(now, lead), now) = lead
  BY <1>2, CounterAssumption DEF Plus, Minus, Time, Delay
<1>4. p.pkt_type = BEACON => lead <= HORIZON
  BY <1>1, SpanAssumption
<1> QED
  BY <1>1, <1>2, <1>3, <1>4

(* A packet that jit_enqueue accepts departs within the window.             *)
LEMMA BookedWithin ==
  ASSUME IInv, Placed(queue.nodes), NEW p \in Requests, NEW count \in Departures(queue, now, p),
         JitVerdict(queue, now, NodeOf(p, count)) = "OK"
  PROVE  count \in Time /\ Minus(count, Base) <= Span
<1>1. now \in Time /\ queue.nodes \in Seq(Node) /\ queue \in Queues
  BY DEF IInv, SoundQueue, Queues
<1>2. p.count_us \in Time /\ p.pkt_type \in PktTypes
      /\ (p.pkt_type = BEACON => Minus(p.count_us, now) <= HORIZON)
  BY <1>1, RequestType
<1>3. count \in Time
  BY <1>1, <1>2, DeparturesType
<1>4. Base \in Time /\ Minus(count, Base) \in Nat /\ Minus(count, now) \in Nat
  BY <1>1, <1>3, LeadByOffset
<1>5. /\ Len(queue.nodes) # JIT_QUEUE_MAX
      /\ p.pkt_type \in {CLASS_A, CLASS_B} => ~(Minus(count, now) > TX_MAX_ADVANCE_DELAY)
  <2>1. NodeOf(p, count).count_us = count /\ NodeOf(p, count).pkt_type = p.pkt_type
    BY DEF NodeOf
  <2> QED
    BY <2>1 DEF JitVerdict
<1>6. CASE p.pkt_type # CLASS_C
  <2>1. count = p.count_us
    BY <1>6 DEF Departures
  <2>2. Minus(count, now) <= HORIZON
    <3>1. CASE p.pkt_type = BEACON
      BY <1>2, <2>1, <3>1
    <3>2. CASE p.pkt_type # BEACON
      <4>1. p.pkt_type \in {CLASS_A, CLASS_B}
        BY <1>2, <1>6, <3>2, QueueAssumption
      <4>2. TX_MAX_ADVANCE_DELAY <= HORIZON
        BY SpanAssumption
      <4> QED
        BY <1>4, <1>5, <4>1, <4>2, Magnitudes
    <3> QED
      BY <3>1, <3>2
  <2>3. Minus(count, now) + MAX_LATE < M
    BY <1>4, <2>2, Magnitudes DEF Span
  <2>4. Minus(count, Base) = Minus(count, now) + MAX_LATE
    BY <1>1, <1>3, <2>3, LeadByOffset
  <2> QED
    BY <1>3, <1>4, <2>2, <2>4, Magnitudes DEF Span
<1>7. CASE p.pkt_type = CLASS_C
  <2>1. PICK asap \in AsapCounts(now) : count \in ClassCSlots(queue.nodes, p, asap)
    BY <1>7 DEF Departures
  <2>2. CASE count = asap
    <3>1. Minus(asap, Base) <= MAX_LATE + ASAP_DELAY
      BY <1>1, AsapNear
    <3> QED
      BY <1>3, <1>4, <2>2, <3>1, Magnitudes DEF Span
  <2>3. CASE count # asap
    <3>1. PICK k \in DOMAIN queue.nodes : Overlaps(NodeOf(p, asap), queue.nodes[k])
      BY <2>1, <2>3 DEF ClassCSlots
    <3>2. PICK i \in Gaps(queue.nodes, p) :
             /\ \A h \in Gaps(queue.nodes, p) : i <= h
             /\ count = SlotAfter(queue.nodes[i], PreDelay(CLASS_C))
      BY <1>7, <2>1, <2>3 DEF ClassCSlots
    <3>3. i \in DOMAIN queue.nodes
      BY DEF Gaps
    <3>4. Len(queue.nodes) < JIT_QUEUE_MAX
      BY <1>1, <1>5, Magnitudes DEF IInv, SoundQueue, Counted
    <3>5. Minus(count, Base) <= Span
      BY <1>1, <1>7, <3>1, <3>2, <3>3, <3>4, SlotInWindow DEF Placed
    <3> QED
      BY <1>3, <3>5
  <2> QED
    BY <2>2, <2>3
<1> QED
  BY <1>6, <1>7

(* When the first k packets depart before an instant, so do the first k of  *)
(* the sorted queue, whatever is sorted in among them: those after them     *)
(* would be one too many otherwise.                                         *)
LEMMA SortedEarly ==
  ASSUME NEW base \in Time, NEW nodes \in Seq(Node), NEW k \in DOMAIN nodes, NEW bound \in Nat,
         \A i \in 1 .. k : Offset(base, nodes[i]) < bound,
         NEW s \in Sorted(nodes, DOMAIN nodes), Ordered(base, s)
  PROVE  k \in DOMAIN s /\ Offset(base, s[k]) < bound
<1> DEFINE n == Len(nodes)
           D == DOMAIN nodes
<1>1. DOMAIN nodes = 1 .. n /\ n \in Nat /\ D = 1 .. n
  OBVIOUS
<1>2. PICK f \in [DOMAIN s -> D] :
         /\ \A i, j \in DOMAIN s : f[i] = f[j] => i = j
         /\ \A i \in DOMAIN s : s[i] = nodes[f[i]]
  <2>1. D \in SUBSET DOMAIN nodes /\ s \in Sorted(nodes, D)
    OBVIOUS
  <2> HIDE DEF D
  <2> QED
    BY <2>1, SortedNodes
<1>3. s \in Seq(Node) /\ Len(s) = n
  <2>1. s \in Seq(Node) /\ Len(s) = Cardinality(D)
    BY SortedNodes
  <2> HIDE DEF D
  <2> QED
    BY <1>1, <2>1, IntervalCard
<1>4. DOMAIN s = 1 .. n
  BY <1>3
<1> HIDE DEF n, D
<1>5. ASSUME NEW i \in 1 .. n PROVE Offset(base, s[i]) \in Nat
  <2>1. i \in DOMAIN s
    BY <1>4
  <2> QED
    BY <1>3, <2>1, OffsetType
<1>6. SUFFICES ASSUME ~(Offset(base, s[k]) < bound) PROVE FALSE
  BY <1>1, <1>4
<1>7. ASSUME NEW i \in k .. n PROVE f[i] \in (k + 1) .. n
  <2>1. i \in 1 .. n /\ k \in 1 .. n /\ (i = k \/ k < i)
    BY <1>1
  <2>2. ~(Offset(base, s[i]) < bound)
    <3>1. i = k \/ Offset(base, s[k]) < Offset(base, s[i])
      BY <1>4, <2>1 DEF Ordered
    <3> QED
      BY <1>5, <1>6, <2>1, <3>1
  <2>3. f[i] \in 1 .. n /\ s[i] = nodes[f[i]]
    BY <1>1, <1>4, <1>2, <2>1
  <2>4. f[i] \notin 1 .. k
    BY <2>2, <2>3
  <2> QED
    BY <1>1, <2>3, <2>4
<1> DEFINE S == k .. n
           T == (k + 1) .. n
           g == [i \in S |-> f[i]]
<1>8. g \in [S -> T]
  BY <1>7
<1>9. IsFiniteSet(S) /\ IsFiniteSet(T) /\ Cardinality(T) < Cardinality(S)
  <2>1. k \in Int /\ k + 1 \in Int /\ n \in Int /\ k <= n
    BY <1>1
  <2>2. IsFiniteSet(S) /\ Cardinality(S) = n - k + 1
    BY <2>1, FS_Interval
  <2>3. IsFiniteSet(T) /\ Cardinality(T) = IF k + 1 > n THEN 0 ELSE n - (k + 1) + 1
    BY <2>1, FS_Interval
  <2> HIDE DEF S, T
  <2> QED
    BY <2>1, <2>2, <2>3
<1>10. \E i, j \in S : i # j /\ g[i] = g[j]
  <2> HIDE DEF S, T, g
  <2> QED
    BY <1>8, <1>9, FS_PigeonHole
<1>11. PICK i, j \in S : i # j /\ f[i] = f[j]
  BY <1>10
<1>12. i \in DOMAIN s /\ j \in DOMAIN s
  BY <1>1, <1>4
<1> QED
  BY <1>2, <1>11, <1>12

(* A position of the queue that holds a packet due before some instant      *)
(* still holds one when another packet is accepted.                         *)
LEMMA EnqueuePlaced ==
  ASSUME IInv, Placed(queue.nodes), NEW p \in Requests, NEW r \in JitEnqueue(queue, now, p)
  PROVE  /\ Placed(r.queue.nodes)
         /\ \A k \in DOMAIN queue.nodes, bound \in Nat :
              Offset(Base, queue.nodes[k]) < bound =>
                k \in DOMAIN r.queue.nodes /\ Offset(Base, r.queue.nodes[k]) < bound
<1>1. PICK count \in Departures(queue, now, p) :
         /\ r.err = JitVerdict(queue, now, NodeOf(p, count))
         /\ r.queue \in IF JitVerdict(queue, now, NodeOf(p, count)) = "OK"
                          THEN Inserted(queue, NodeOf(p, count)) ELSE {queue}
  BY DEF JitEnqueue
<1>2. SUFFICES ASSUME JitVerdict(queue, now, NodeOf(p, count)) = "OK"
               PROVE  /\ Placed(r.queue.nodes)
                      /\ \A k \in DOMAIN queue.nodes, bound \in Nat :
                           Offset(Base, queue.nodes[k]) < bound =>
                             /\ k \in DOMAIN r.queue.nodes
                             /\ Offset(Base, r.queue.nodes[k]) < bound
  BY <1>1
<1> DEFINE old   == queue.nodes
           n     == Len(old)
           new   == NodeOf(p, count)
           nodes == Append(old, new)
           s     == r.queue.nodes
<1>3. /\ SoundQueue(queue) /\ now \in Time /\ old \in Seq(Node)
      /\ Planned(old) /\ Apart(old) /\ Within(Base, Span, old) /\ Ordered(Base, old)
  BY DEF IInv, SoundQueue, Queues, Placed
<1>4. /\ p.pkt \in Payload /\ p.count_us \in Time /\ p.pkt_type \in PktTypes
      /\ p.toa \in TimeOnAir
  BY <1>3, RequestType
<1>5. count \in Time /\ Minus(count, Base) <= Span
  BY <1>2, BookedWithin
<1>6. new \in Node /\ new.count_us = count
  BY <1>4, <1>5, NodeOfType DEF NodeOf
<1>7. Planned(nodes) /\ Apart(nodes)
  BY <1>2, <1>3, <1>4, <1>5, AppendPlanned
<1>8. s \in Sorted(nodes, 1 .. n + 1)
  BY <1>1, <1>2 DEF Inserted
<1>9. SoundQueue(r.queue)
  BY <1>3, <1>4, EnqueueSound
<1>10. Base \in Time /\ Span \in Nat /\ 2 * Span < M
  BY <1>3, <1>5, LeadByOffset, Magnitudes
<1> HIDE DEF new, s
<1>11. /\ nodes \in Seq(Node) /\ Len(nodes) = n + 1 /\ n \in Nat /\ DOMAIN nodes = 1 .. n + 1
       /\ DOMAIN old = 1 .. n
       /\ nodes[n + 1] = new /\ \A i \in 1 .. n : nodes[i] = old[i]
  BY <1>3, <1>6
<1> HIDE DEF nodes, old, n
<1>12. \A i \in DOMAIN nodes : Offset(Base, nodes[i]) <= Span
  <2> SUFFICES ASSUME NEW i \in 1 .. n + 1 PROVE Offset(Base, nodes[i]) <= Span
    BY <1>11
  <2>1. CASE i = n + 1
    BY <1>5, <1>6, <1>11, <2>1 DEF Offset
  <2>2. CASE i \in 1 .. n
    BY <1>3, <1>11, <2>2 DEF Within
  <2> QED
    BY <1>11, <2>1, <2>2
<1>13. Planned(s) /\ Apart(s)
  BY <1>7, <1>8, <1>11, SortedPlanned
<1>14. Within(Base, Span, s)
  <2>1. PICK f \in [DOMAIN s -> DOMAIN nodes] : \A i \in DOMAIN s : s[i] = nodes[f[i]]
    <3>1. s \in Sorted(nodes, DOMAIN nodes)
      BY <1>8, <1>11
    <3>2. PICK f \in [DOMAIN s -> DOMAIN nodes] :
            /\ \A i, j \in DOMAIN s : f[i] = f[j] => i = j
            /\ \A i \in DOMAIN s : s[i] = nodes[f[i]]
      BY <1>11, <3>1, SortedNodes
    <3> QED
      BY <3>2
  <2> QED
    BY <1>12, <2>1 DEF Within
<1>15. Ordered(Base, s)
  <2>1. s \in Seq(Node) /\ Spaced(s)
    BY <1>9 DEF SoundQueue, Queues, s
  <2>2. Ascending(s)
    BY <1>8 DEF Sorted
  <2> QED
    BY <1>10, <1>14, <2>1, <2>2, AscendingOrdered
<1>16. ASSUME NEW k \in DOMAIN old, NEW bound \in Nat, Offset(Base, old[k]) < bound
       PROVE  k \in DOMAIN s /\ Offset(Base, s[k]) < bound
  <2>1. k \in 1 .. n /\ k \in DOMAIN nodes /\ nodes[k] = old[k]
    BY <1>11
  <2>2. ASSUME NEW i \in 1 .. k PROVE Offset(Base, nodes[i]) < bound
    <3>1. i \in DOMAIN old /\ nodes[i] = old[i] /\ (i = k \/ i < k)
      BY <1>11, <2>1
    <3>2. i = k \/ Offset(Base, old[i]) < Offset(Base, old[k])
      BY <1>3, <3>1 DEF Ordered
    <3>3. Offset(Base, old[i]) \in Nat /\ Offset(Base, old[k]) \in Nat
      BY <1>3, <1>10, <3>1, OffsetType
    <3> QED
      BY <1>16, <3>1, <3>2, <3>3
  <2>3. s \in Sorted(nodes, DOMAIN nodes)
    BY <1>8, <1>11
  <2> QED
    BY <1>10, <1>11, <1>15, <2>1, <2>2, <2>3, SortedEarly
<1> QED
  BY <1>13, <1>14, <1>15, <1>16 DEF Placed, s, old

(* Removal keeps the others in order.                                       *)
LEMMA KeepingPlaced ==
  ASSUME IInv, Placed(queue.nodes), NEW K \in SUBSET DOMAIN queue.nodes,
         NEW r \in Keeping(queue, K)
  PROVE  Placed(r.nodes)
<1>1. /\ queue.nodes \in Seq(Node) /\ Spaced(queue.nodes) /\ Reserved(queue.nodes)
      /\ now \in Time
  BY DEF IInv, SoundQueue, Queues
<1>2. r.nodes \in Sorted(queue.nodes, K)
  BY DEF Keeping
<1>3. Base \in Time /\ Span \in Nat /\ 2 * Span < M
  <2>1. Base \in Time
    BY <1>1, Magnitudes, MinusType DEF Base, Time, Delay
  <2> QED
    BY <2>1, Magnitudes
<1>4. Planned(r.nodes) /\ Apart(r.nodes)
  BY <1>1, <1>2, SortedPlanned DEF Placed
<1>5. \A i \in K : Offset(Base, queue.nodes[i]) <= Span
  BY DEF Placed, Within
<1>6. Within(Base, Span, r.nodes) /\ Ordered(Base, r.nodes)
  BY <1>1, <1>2, <1>3, <1>5, SortedOrdered
<1> QED
  BY <1>4, <1>6 DEF Placed

(* The window moves on with the counter, and no packet falls out behind it: *)
(* thread_jit has dropped it by then.                                       *)
LEMMA WindowMoves ==
  ASSUME now \in Time, NEW d \in Steps, NEW count \in Time,
         Minus(count, Base) <= Span,
         2 * Minus(Plus(now, d), count) < M => Minus(Plus(now, d), count) <= MAX_LATE
  PROVE  /\ Minus(count, Base) \in Nat /\ d \in Nat
         /\ Minus(count, Minus(Plus(now, d), MAX_LATE)) = Minus(count, Base) - d
<1> DEFINE then == Plus(now, d)
           x    == Minus(count, Base)
<1>1. d \in Delay /\ d \in Nat /\ 2 * (MAX_LATE + d) < M
  BY InputAssumption, SpanAssumption, CounterAssumption DEF Delay
<1>2. then \in Time /\ Base \in Time /\ x \in Nat /\ x \in Time
  BY <1>1, PlusType, LeadByOffset, MinusType
<1>3. Minus(then, Base) = MAX_LATE + d
  BY <1>1, Magnitudes, CounterAssumption DEF Plus, Minus, Base, Time, Delay
<1>4. Minus(then, count) = IF MAX_LATE + d >= x THEN (MAX_LATE + d) - x ELSE M - (x - (MAX_LATE + d))
  <2>1. Minus(then, count) = IF Minus(then, Base) >= x THEN Minus(then, Base) - x
                                                       ELSE M - (x - Minus(then, Base))
    BY <1>2, MinusByOffset
  <2> QED
    BY <1>3, <2>1
<1>5. d <= x
  <2>1. SUFFICES ASSUME x < d PROVE FALSE
    BY <1>1, <1>2
  <2> HIDE DEF x, then
  <2>2. Minus(then, count) = MAX_LATE + d - x
    BY <1>1, <1>2, <1>4, <2>1, Magnitudes
  <2>3. 2 * Minus(then, count) < M
    BY <1>1, <1>2, <2>2, Magnitudes
  <2>4. Minus(then, count) <= MAX_LATE
    BY <2>3 DEF then
  <2> QED
    BY <1>1, <1>2, <2>1, <2>2, <2>4, Magnitudes
<1>6. Minus(then, MAX_LATE) \in Time /\ Minus(Minus(then, MAX_LATE), Base) = d
  BY <1>1, Magnitudes, CounterAssumption DEF Plus, Minus, Base, Time, Delay
<1>7. Minus(count, Minus(then, MAX_LATE)) = x - d
  BY <1>2, <1>5, <1>6, MinusByOffset
<1> QED
  BY <1>1, <1>2, <1>7

(* The index that jit_peek returns, when there is one.                      *)
LEMMA PeekIndexDue ==
  ASSUME NEW kept, NEW first, NEW time, PeekIndex(kept, first, time) # 0
  PROVE  LET i == PeekIndex(kept, first, time)
         IN  /\ i \in DOMAIN kept /\ i >= first /\ Lead(kept[i], time) < TX_JIT_DELAY
             /\ \A j \in DOMAIN kept : j >= first =>
                  IF j < i THEN Lead(kept[i], time) < Lead(kept[j], time)
                           ELSE Lead(kept[i], time) <= Lead(kept[j], time)
BY DEF PeekIndex

(* What is due departs early in the window, ...                             *)
LEMMA EarlyByLead ==
  ASSUME now \in Time, NEW node, node.count_us \in Time, Lead(node, now) < TX_JIT_DELAY
  PROVE  Offset(Base, node) < MAX_LATE + TX_JIT_DELAY
<1> DEFINE count == node.count_us
<1>1. Minus(count, now) \in Nat /\ Minus(count, now) < TX_JIT_DELAY
  BY LeadByOffset DEF Lead
<1>2. Minus(count, now) + MAX_LATE < M
  BY <1>1, Magnitudes DEF Span
<1>3. Minus(count, Base) = Minus(count, now) + MAX_LATE
  BY <1>2, LeadByOffset
<1> HIDE DEF count
<1> QED
  BY <1>1, <1>3, Magnitudes DEF Offset, count

(* ... and what departs early is due, or in the past.                       *)
LEMMA LeadIfEarly ==
  ASSUME now \in Time, NEW count \in Time, Minus(count, Base) < MAX_LATE + TX_JIT_DELAY,
         2 * Minus(count, now) < M
  PROVE  Minus(count, now) < TX_JIT_DELAY
<1>1. /\ Minus(count, Base) \in Nat /\ Minus(count, now) \in Nat
      /\ Minus(count, now) = IF Minus(count, Base) >= MAX_LATE
                               THEN Minus(count, Base) - MAX_LATE
                               ELSE M - (MAX_LATE - Minus(count, Base))
  BY LeadByOffset
<1>2. 2 * MAX_LATE < M /\ M \in Nat /\ MAX_LATE \in Nat /\ TX_JIT_DELAY \in Nat
  BY Magnitudes DEF Span
<1>3. \A x, l, late, m, jit \in Nat :
         /\ 2 * late < m /\ 2 * l < m /\ l = (IF x >= late THEN x - late ELSE m - (late - x))
         /\ x < late + jit
         => l < jit
  OBVIOUS
<1> QED
  BY <1>1, <1>2, <1>3

(* OInv is inductive.                                                       *)
LEMMA InductiveOrder == OInv /\ [Next]_vars => OInv'
<1> SUFFICES ASSUME OInv, [Next]_vars PROVE OInv'
  OBVIOUS
<1>1. IInv /\ IInv' /\ Placed(queue.nodes)
  BY Inductive DEF OInv
<1>2. SUFFICES Placed(queue.nodes)' /\ HeldEarly'
  BY <1>1 DEF OInv
<1>3. ASSUME NEW p \in Requests, Enqueue(p)
      PROVE  Placed(queue.nodes)' /\ HeldEarly'
  <2>1. PICK r \in JitEnqueue(queue, now, p) : queue' = r.queue
    BY <1>3 DEF Enqueue
  <2>2. now' = now /\ peeked' = peeked
    BY <1>3 DEF Enqueue
  <2>3. /\ Placed(r.queue.nodes)
        /\ \A k \in DOMAIN queue.nodes, bound \in Nat :
             Offset(Base, queue.nodes[k]) < bound =>
               k \in DOMAIN r.queue.nodes /\ Offset(Base, r.queue.nodes[k]) < bound
    BY <1>1, EnqueuePlaced
  <2>4. Placed(queue.nodes)'
    BY <2>1, <2>2, <2>3 DEF Placed, Base
  <2>5. HeldEarly'
    <3>1. MAX_LATE + TX_JIT_DELAY \in Nat
      BY Magnitudes
    <3> QED
      BY <2>1, <2>2, <2>3, <3>1 DEF OInv, HeldEarly, Base, Offset
  <2> QED
    BY <2>4, <2>5
<1>4. CASE Peek
  <2>1. PICK r \in JitPeek(queue, now) : queue' = r.queue /\ peeked' = r.index
    BY <1>4 DEF Peek
  <2>2. now' = now
    BY <1>4 DEF Peek
  <2>3. PICK k \in Keeping(queue, PeekKept(queue.nodes, now)) :
           /\ r.queue = k
           /\ r.index = PeekIndex(k.nodes, IF HeadDropped(queue.nodes, now) THEN 2 ELSE 1, now)
    BY DEF JitPeek
  <2>4. Placed(k.nodes)
    <3>1. PeekKept(queue.nodes, now) \in SUBSET DOMAIN queue.nodes
      BY DEF PeekKept
    <3> QED
      BY <1>1, <3>1, KeepingPlaced
  <2>5. Placed(queue.nodes)'
    BY <2>1, <2>2, <2>3, <2>4 DEF Placed, Base
  <2>6. HeldEarly'
    <3>1. SUFFICES ASSUME r.index # 0
                   PROVE  /\ r.index \in DOMAIN k.nodes
                          /\ Offset(Base, k.nodes[r.index]) < MAX_LATE + TX_JIT_DELAY
      BY <2>1, <2>2, <2>3 DEF HeldEarly, Base, Offset
    <3>2. r.index \in DOMAIN k.nodes /\ Lead(k.nodes[r.index], now) < TX_JIT_DELAY
      BY <2>3, <3>1, PeekIndexDue
    <3>3. k.nodes[r.index].count_us \in Time /\ now \in Time
      <4>1. k.nodes \in Seq(Node) /\ now \in Time
        BY <1>1, <2>1, <2>2, <2>3 DEF IInv, SoundQueue, Queues
      <4>2. k.nodes[r.index] \in Node
        BY <3>2, <4>1
      <4> QED
        BY <4>1, <4>2 DEF Node
    <3> QED
      BY <3>2, <3>3, EarlyByLead
  <2> QED
    BY <2>5, <2>6
<1>5. CASE Dequeue
  <2>1. queue' \in Keeping(queue, DOMAIN queue.nodes \ {peeked}) /\ now' = now /\ peeked' = 0
    BY <1>5 DEF Dequeue, JitDequeue
  <2>2. PICK k \in Keeping(queue, DOMAIN queue.nodes \ {peeked}) : queue' = k
    BY <2>1
  <2>3. Placed(k.nodes)
    BY <1>1, KeepingPlaced
  <2> QED
    BY <2>1, <2>2, <2>3 DEF Placed, Base, HeldEarly
<1>6. ASSUME NEW d \in Steps, Tick(d) PROVE Placed(queue.nodes)' /\ HeldEarly'
  <2>1. /\ now' = Plus(now, d) /\ queue' = queue /\ peeked = 0 /\ peeked' = peeked
        /\ \A i \in DOMAIN queue.nodes :
             2 * Minus(now', queue.nodes[i].count_us) < M
               => Minus(now', queue.nodes[i].count_us) <= MAX_LATE
    BY <1>6 DEF Tick
  <2>2. now \in Time /\ queue.nodes \in Seq(Node)
    BY <1>1 DEF IInv, SoundQueue, Queues
  <2>3. ASSUME NEW i \in DOMAIN queue.nodes
        PROVE  /\ Offset(Base, queue.nodes[i]) \in Nat /\ d \in Nat
               /\ Offset(Base, queue.nodes[i]) <= Span
               /\ Minus(queue.nodes[i].count_us, Minus(Plus(now, d), MAX_LATE))
                    = Offset(Base, queue.nodes[i]) - d
    <3>n. queue.nodes[i] \in Node
      BY <2>2
    <3>1. queue.nodes[i].count_us \in Time
      BY <3>n DEF Node
    <3>2. Offset(Base, queue.nodes[i]) <= Span
      BY <1>1 DEF Placed, Within
    <3> QED
      BY <2>1, <2>2, <3>1, <3>2, WindowMoves DEF Offset
  <2>4. Base' = Minus(Plus(now, d), MAX_LATE)
    BY <2>1 DEF Base
  <2> DEFINE o(i) == Offset(Base, queue.nodes[i])
             e(i) == Minus(queue.nodes[i].count_us, Minus(Plus(now, d), MAX_LATE))
  <2>5. \A i \in DOMAIN queue.nodes :
          o(i) \in Nat /\ d \in Nat /\ o(i) <= Span /\ e(i) = o(i) - d
    BY <2>3
  <2>6. \A i, j \in DOMAIN queue.nodes : i < j => o(i) < o(j)
    BY <1>1 DEF Placed, Ordered
  <2>7. /\ \A i \in DOMAIN queue.nodes : e(i) <= Span
        /\ \A i, j \in DOMAIN queue.nodes : i < j => e(i) < e(j)
    <3> HIDE DEF o, e
    <3> QED
      BY <2>5, <2>6, Magnitudes
  <2>8. Within(Base, Span, queue.nodes)' /\ Ordered(Base, queue.nodes)'
    <3>1. \A i \in DOMAIN queue.nodes : Offset(Base, queue.nodes[i])' = e(i)
      BY <2>1, <2>4 DEF Offset
    <3> QED
      BY <2>1, <2>4, <2>7 DEF Within, Ordered, Offset, Span
  <2>9. Planned(queue.nodes)' /\ Apart(queue.nodes)'
    BY <1>1, <2>1 DEF Placed
  <2>10. HeldEarly'
    BY <2>1 DEF HeldEarly
  <2> QED
    BY <2>8, <2>9, <2>10 DEF Placed
<1>7. CASE UNCHANGED vars
  <2>1. queue' = queue /\ now' = now /\ peeked' = peeked
    BY <1>7 DEF vars
  <2>2. Placed(queue.nodes)'
    BY <1>1, <2>1 DEF Placed, Base
  <2>3. HeldEarly'
    BY <2>1 DEF OInv, HeldEarly, Base, Offset
  <2> QED
    BY <2>2, <2>3
<1> QED
  BY <1>3, <1>4, <1>5, <1>6, <1>7 DEF Next

(* The initial, empty queue satisfies OInv.                                 *)
LEMMA InitiallyOrder == Init => OInv
<1> SUFFICES ASSUME Init PROVE OInv
  OBVIOUS
<1>1. IInv
  BY Initially
<1>2. Placed(queue.nodes) /\ HeldEarly
  BY DEF Init, EmptyQueue, Placed, Planned, Apart, Within, Ordered, HeldEarly
<1> QED
  BY <1>1, <1>2 DEF OInv

(* While the emission is prepared, thread_down may add packets and re-sort  *)
(* the queue: the index that thread_jit holds never designates a packet     *)
(* that departs later than a due one, however late the missed packets are.  *)
THEOREM HeldIndexDue == Spec => []PeekedStaysDue
<1>1. OInv => PeekedStaysDue
  <2> SUFFICES ASSUME OInv, peeked # 0
               PROVE  /\ peeked \in DOMAIN queue.nodes
                      /\ Future(queue.nodes[peeked]) => Lead(queue.nodes[peeked], now) < TX_JIT_DELAY
    BY DEF PeekedStaysDue
  <2>1. /\ now \in Time /\ queue.nodes \in Seq(Node) /\ peeked \in DOMAIN queue.nodes
        /\ Offset(Base, queue.nodes[peeked]) < MAX_LATE + TX_JIT_DELAY
    BY DEF OInv, IInv, SoundQueue, Queues, HeldEarly
  <2>2. queue.nodes[peeked] \in Node
    BY <2>1
  <2>3. queue.nodes[peeked].count_us \in Time
    BY <2>2 DEF Node
  <2>4. Future(queue.nodes[peeked]) => Lead(queue.nodes[peeked], now) < TX_JIT_DELAY
    BY <2>1, <2>3, LeadIfEarly DEF Future, Lead, Offset
  <2> QED
    BY <2>1, <2>4
<1> QED
  BY <1>1, InitiallyOrder, InductiveOrder, PTL DEF Spec

(* Packets that are not outdated stand in the order of their departures.    *)
LEMMA OrderImpliesDueFirst == OInv => DueFirst
<1> SUFFICES ASSUME OInv, NEW i \in DOMAIN queue.nodes, NEW j \in DOMAIN queue.nodes, i < j,
                    ~Outdated(queue.nodes[i], now), ~Outdated(queue.nodes[j], now)
             PROVE  Lead(queue.nodes[i], now) < Lead(queue.nodes[j], now)
  BY DEF DueFirst
<1>1. now \in Time /\ queue.nodes \in Seq(Node) /\ Ordered(Base, queue.nodes)
  BY DEF OInv, IInv, SoundQueue, Queues, Placed
<1>2. ASSUME NEW k \in DOMAIN queue.nodes, ~Outdated(queue.nodes[k], now)
      PROVE  /\ Lead(queue.nodes[k], now) \in Nat
             /\ Offset(Base, queue.nodes[k]) = Lead(queue.nodes[k], now) + MAX_LATE
  <2>n. queue.nodes[k] \in Node
    BY <1>1
  <2>1. queue.nodes[k].count_us \in Time
    BY <2>n DEF Node
  <2>2. Minus(queue.nodes[k].count_us, now) \in Nat
    BY <1>1, <2>1, LeadByOffset
  <2>3. Minus(queue.nodes[k].count_us, now) < TX_MAX_ADVANCE_DELAY
    BY <1>2, <2>2, Magnitudes DEF Outdated, Lead
  <2>4. Minus(queue.nodes[k].count_us, now) + MAX_LATE < M
    BY <2>2, <2>3, SpanAssumption, Magnitudes DEF Span
  <2> QED
    BY <1>1, <2>1, <2>2, <2>4, LeadByOffset DEF Offset, Lead
<1>3. Offset(Base, queue.nodes[i]) < Offset(Base, queue.nodes[j])
  BY <1>1 DEF Ordered
<1> QED
  BY <1>2, <1>3, Magnitudes

(* The position in the queue is the order of departure, across the          *)
(* roll-over of the counter.                                                *)
THEOREM DepartureOrder == Spec => []DueFirst
BY OrderImpliesDueFirst, InitiallyOrder, InductiveOrder, PTL DEF Spec

(* jit_peek of an ordered queue without outdated packets.                   *)
LEMMA OrderImpliesPeekExact == OInv => PeekExact
<1> SUFFICES ASSUME OInv, \A i \in DOMAIN queue.nodes : ~Outdated(queue.nodes[i], now),
                    NEW r \in JitPeek(queue, now)
             PROVE  /\ r.queue = queue
                    /\ r.index = 0 <=> \A i \in DOMAIN queue.nodes :
                                         Lead(queue.nodes[i], now) >= TX_JIT_DELAY
                    /\ r.index # 0 => \A i \in DOMAIN queue.nodes :
                                        Lead(queue.nodes[r.index], now) <= Lead(queue.nodes[i], now)
  BY DEF PeekExact
<1> DEFINE nodes == queue.nodes
<1>1. /\ IInv /\ queue \in Queues /\ nodes \in Seq(Node) /\ queue.num_beacon \in Int
      /\ now \in Time /\ Placed(nodes) /\ Ordered(Base, nodes)
  BY DEF OInv, IInv, SoundQueue, Queues, Placed
<1>2. PeekKept(nodes, now) = DOMAIN nodes /\ ~HeadDropped(nodes, now)
  <2>1. ~HeadDropped(nodes, now)
    <3>1. nodes # << >> => 1 \in DOMAIN nodes
      BY <1>1
    <3> QED
      BY <3>1 DEF HeadDropped
  <2>2. PeekKept(nodes, now) = DOMAIN nodes
    BY DEF PeekKept
  <2> QED
    BY <2>1, <2>2
<1>3. PICK k \in Keeping(queue, DOMAIN nodes) :
         r.queue = k /\ r.index = PeekIndex(k.nodes, 1, now)
  BY <1>2 DEF JitPeek
<1>4. k = queue
  <2>1. PICK s \in Sorted(nodes, DOMAIN nodes) :
          k = [nodes |-> s,
               num_beacon |-> queue.num_beacon - Cardinality(Beacons(nodes, DOMAIN nodes \ DOMAIN nodes))]
    BY <1>3 DEF Keeping
  <2> DEFINE dropped == Cardinality(Beacons(nodes, DOMAIN nodes \ DOMAIN nodes))
  <2>2. dropped = 0
    <3>1. Beacons(nodes, DOMAIN nodes \ DOMAIN nodes) = {}
      BY DEF Beacons
    <3> QED
      BY <3>1, FS_EmptySet
  <2>3. Ordered(Base, s)
    BY <1>1, <1>3, <2>1, KeepingPlaced DEF Placed
  <2>4. Base \in Time
    BY <1>1, Magnitudes, MinusType DEF Base, Time, Delay
  <2>5. s = nodes
    BY <1>1, <2>3, <2>4, OrderedKept
  <2>6. queue = [nodes |-> nodes, num_beacon |-> queue.num_beacon]
    BY <1>1 DEF Queues
  <2>7. queue.num_beacon - dropped = queue.num_beacon
    <3> HIDE DEF dropped
    <3> QED
      BY <1>1, <2>2
  <2>8. k = [nodes |-> nodes, num_beacon |-> queue.num_beacon]
    <3>1. k = [nodes |-> s, num_beacon |-> queue.num_beacon - dropped]
      BY <2>1
    <3> QED
      BY <3>1, <2>5, <2>7
  <2> QED
    BY <2>6, <2>8
<1>5. r.queue = queue /\ r.index = PeekIndex(nodes, 1, now)
  BY <1>3, <1>4
<1>6. DOMAIN nodes = 1 .. Len(nodes) /\ Len(nodes) \in Nat
  BY <1>1
<1>7. \A i \in DOMAIN nodes : Lead(nodes[i], now) \in Nat
  <2> SUFFICES ASSUME NEW i \in DOMAIN nodes PROVE Lead(nodes[i], now) \in Nat
    OBVIOUS
  <2>1. nodes[i] \in Node
    BY <1>1
  <2> QED
    BY <1>1, <2>1, LeadByOffset DEF Node, Lead
<1> DEFINE lead(i) == Lead(nodes[i], now)
<1>8. \A i, j \in DOMAIN nodes : i < j => lead(i) < lead(j)
  BY OrderImpliesDueFirst DEF DueFirst
<1>9. CASE r.index # 0
  <2>1. /\ r.index \in DOMAIN nodes /\ lead(r.index) < TX_JIT_DELAY
        /\ \A j \in DOMAIN nodes : j >= 1 =>
             IF j < r.index THEN lead(r.index) < lead(j) ELSE lead(r.index) <= lead(j)
    BY <1>5, <1>9, PeekIndexDue
  <2> HIDE DEF lead
  <2>2. \A j \in DOMAIN nodes : lead(r.index) <= lead(j)
    <3>1. \A j \in DOMAIN nodes : j >= 1 /\ lead(j) \in Nat
      BY <1>6, <1>7 DEF lead
    <3> QED
      BY <2>1, <3>1
  <2>3. ~(lead(r.index) >= TX_JIT_DELAY)
    BY <1>7, <2>1, Magnitudes DEF lead
  <2> QED
    BY <1>5, <1>9, <2>1, <2>2, <2>3 DEF lead
<1>10. CASE r.index = 0
  <2>1. SUFFICES ASSUME NEW i \in DOMAIN nodes PROVE lead(i) >= TX_JIT_DELAY
    BY <1>5, <1>10
  <2> HIDE DEF lead
  <2>2. 1 \in DOMAIN nodes /\ (i = 1 \/ lead(1) < lead(i))
    BY <1>6, <1>8
  <2>3. lead(1) >= TX_JIT_DELAY
    <3>1. SUFFICES ASSUME lead(1) < TX_JIT_DELAY PROVE FALSE
      BY <1>7, <2>2, Magnitudes DEF lead
    <3> DEFINE examined == {m \in DOMAIN nodes : m >= 1}
               due == {m \in examined :
                         /\ Lead(nodes[m], now) < TX_JIT_DELAY
                         /\ \A j \in examined :
                              IF j < m THEN Lead(nodes[m], now) < Lead(nodes[j], now)
                                       ELSE Lead(nodes[m], now) <= Lead(nodes[j], now)}
    <3>2. \A j \in DOMAIN nodes : ~(j < 1) /\ Lead(nodes[1], now) <= Lead(nodes[j], now)
      <4> SUFFICES ASSUME NEW j \in DOMAIN nodes
                   PROVE  ~(j < 1) /\ lead(1) <= lead(j)
        BY DEF lead
      <4>1. ~(j < 1) /\ (j = 1 \/ 1 < j)
        BY <1>6
      <4>2. lead(1) \in Nat /\ lead(j) \in Nat
        BY <1>7, <2>2 DEF lead
      <4>3. j = 1 \/ lead(1) < lead(j)
        BY <1>8, <2>2, <4>1
      <4> QED
        BY <4>1, <4>2, <4>3
    <3>3. 1 \in due
      <4>1. Lead(nodes[1], now) < TX_JIT_DELAY
        BY <3>1 DEF lead
      <4>2. 1 \in examined
        BY <2>2
      <4>3. \A j \in examined :
              IF j < 1 THEN Lead(nodes[1], now) < Lead(nodes[j], now)
                       ELSE Lead(nodes[1], now) <= Lead(nodes[j], now)
        BY <3>2
      <4> HIDE DEF examined
      <4> QED
        BY <4>1, <4>2, <4>3
    <3>4. PeekIndex(nodes, 1, now) \in due
      BY <3>3 DEF PeekIndex
    <3>5. PeekIndex(nodes, 1, now) \in DOMAIN nodes
      BY <3>4
    <3> QED
      BY <1>5, <1>6, <1>10, <3>5
  <2> QED
    BY <1>7, <2>2, <2>3, Magnitudes DEF lead
<1> QED
  BY <1>9, <1>10

(* As long as no packet is outdated jit_peek finds the next packet to       *)
(* leave, exactly when it is due, and drops nothing.                        *)
THEOREM PeekIsExact == Spec => []PeekExact
BY OrderImpliesPeekExact, InitiallyOrder, InductiveOrder, PTL DEF Spec

-----------------------------------------------------------------------------
(* The immediate downlink *)

(* Twice a wide gap is less than a turn: a packet that is clear on one side *)
(* of the slot is clear on the other, once round the counter.               *)
LEMMA OneSideEnough ==
  ASSUME now \in Time, NEW nodes \in Seq(Node), Planned(nodes), Within(Base, Span, nodes),
         JIT_QUEUE_MAX > 1, NEW p \in Requests, p.pkt_type = CLASS_C,
         NEW slot \in Time, Minus(slot, Base) <= Span, NEW j \in DOMAIN nodes,
         LET x == Minus(slot, Base)
             o == Offset(Base, nodes[j])
         IN  \/ x - o > TX_START_DELAY + TX_JIT_DELAY + nodes[j].post_delay + TX_MARGIN_DELAY
             \/ o - x > TargetPreDelay(CLASS_C, nodes[j]) + NodeOf(p, slot).post_delay + TX_MARGIN_DELAY
  PROVE  ~Collides(NodeOf(p, slot), nodes[j])
<1> DEFINE node == nodes[j]
           new  == NodeOf(p, slot)
           x    == Minus(slot, Base)
           o    == Minus(node.count_us, Base)
           ahead  == TX_START_DELAY + TX_JIT_DELAY + node.post_delay + TX_MARGIN_DELAY
           behind == TargetPreDelay(CLASS_C, node) + new.post_delay + TX_MARGIN_DELAY
<1>1. /\ node.count_us \in Time /\ node.post_delay \in Nat /\ node.post_delay <= LONGEST
      /\ TargetPreDelay(CLASS_C, node)
           = IF node.pkt_type = BEACON THEN TX_START_DELAY ELSE TX_START_DELAY + TX_JIT_DELAY
  BY PlannedBounds
<1>2. /\ new.count_us = slot /\ new.pre_delay = TX_START_DELAY + TX_JIT_DELAY
      /\ new.post_delay \in Nat /\ new.post_delay <= LONGEST /\ new.pkt_type = CLASS_C
  BY ImmediateNode
<1>3. Base \in Time /\ o \in Nat /\ x \in Nat
  BY <1>1, LeadByOffset
<1>4. o <= Span
  BY DEF Within, Offset
<1>5. /\ Minus(slot, node.count_us) = (IF x >= o THEN x - o ELSE M - (o - x))
      /\ Minus(node.count_us, slot) = (IF o >= x THEN o - x ELSE M - (x - o))
  BY <1>1, <1>3, MinusByOffset
<1>6. x - o > ahead \/ o - x > behind
  BY DEF Offset
<1>7. /\ ahead \in Nat /\ ahead <= WideGap
      /\ behind \in Nat /\ behind <= WideGap
  <2> HIDE DEF node, new
  <2> DEFINE post == node.post_delay
  <2>1. ahead \in Nat /\ ahead <= WideGap
    <3>1. post \in Nat /\ post <= LONGEST
      BY <1>1
    <3> HIDE DEF post
    <3>2. LET a == TX_START_DELAY + TX_JIT_DELAY + post + TX_MARGIN_DELAY
          IN  a \in Nat /\ a <= WideGap
      BY <3>1, Magnitudes DEF WideGap
    <3> QED
      BY <3>2 DEF post
  <2>2. TargetPreDelay(CLASS_C, node) \in Nat
        /\ TargetPreDelay(CLASS_C, node) <= TX_START_DELAY + TX_JIT_DELAY
    BY <1>1, Magnitudes
  <2>3. behind \in Nat /\ behind <= WideGap
    BY <1>2, <2>2, Magnitudes DEF WideGap
  <2> QED
    BY <2>1, <2>3
<1>8. Collides(new, node)
        <=> Minus(slot, node.count_us) <= ahead \/ Minus(node.count_us, slot) <= behind
  BY <1>2 DEF Collides, jit_collision_test
<1> HIDE DEF node, new, x, o, ahead, behind
<1>9. WideGap <= Span /\ WideGap \in Nat /\ Span \in Nat /\ 2 * Span < M /\ M \in Nat /\ x <= Span
  BY Magnitudes DEF Span, x
<1>10. Minus(slot, node.count_us) > ahead /\ Minus(node.count_us, slot) > behind
  <2>1. CASE x - o > ahead
    BY <1>3, <1>4, <1>5, <1>7, <1>9, <2>1
  <2>2. CASE o - x > behind
    BY <1>3, <1>4, <1>5, <1>7, <1>9, <2>2
  <2> QED
    BY <1>6, <2>1, <2>2
<1>11. Minus(slot, node.count_us) \in Nat /\ Minus(node.count_us, slot) \in Nat
  <2>1. Minus(slot, node.count_us) \in Time /\ Minus(node.count_us, slot) \in Time
    BY <1>1, MinusType
  <2> QED
    BY <2>1, CounterAssumption DEF Time
<1> QED
  BY <1>7, <1>8, <1>10, <1>11 DEF node, new

(* The slot that the search chooses is free: the packet it is behind, the   *)
(* ones before that, the next one, which the search compared, and the ones  *)
(* after that are all clear of it.                                          *)
LEMMA SlotFree ==
  ASSUME now \in Time, NEW nodes \in Seq(Node), Placed(nodes), Len(nodes) < JIT_QUEUE_MAX,
         NEW p \in Requests, p.pkt_type = CLASS_C, NEW i \in Gaps(nodes, p),
         NEW slot \in Time, slot = SlotAfter(nodes[i], PreDelay(CLASS_C)),
         Minus(slot, Base) = Offset(Base, nodes[i]) + Behind(nodes[i]),
         Minus(slot, Base) <= Span, NEW j \in DOMAIN nodes
  PROVE  ~Collides(NodeOf(p, slot), nodes[j])
<1> DEFINE o(k)    == Offset(Base, nodes[k])
           post(k) == nodes[k].post_delay
           pre(k)  == TargetPreDelay(CLASS_C, nodes[k])
           x       == Minus(slot, Base)
           new     == NodeOf(p, slot)
<1>1. DOMAIN nodes = 1 .. Len(nodes) /\ Len(nodes) \in Nat /\ i \in DOMAIN nodes
  BY DEF Gaps
<1>2. Planned(nodes) /\ Apart(nodes) /\ Within(Base, Span, nodes) /\ Ordered(Base, nodes)
  BY DEF Placed
<1>3. /\ Base \in Time /\ x \in Nat
      /\ TX_START_DELAY \in Nat /\ TX_JIT_DELAY \in Nat /\ TX_MARGIN_DELAY \in Nat
      /\ TX_JIT_DELAY > 0
  BY LeadByOffset, SlotAssumption, Magnitudes
<1>4. JIT_QUEUE_MAX > 1
  BY <1>1, Magnitudes
<1>5. new.post_delay \in Nat
  BY ImmediateNode
<1>6. \A k \in DOMAIN nodes :
        /\ o(k) \in Nat /\ post(k) \in Nat /\ o(k) <= Span
        /\ pre(k) \in Nat /\ pre(k) >= TX_START_DELAY
        /\ Behind(nodes[k]) = post(k) + TX_START_DELAY + 2 * TX_JIT_DELAY + TX_MARGIN_DELAY
        /\ nodes[k].count_us \in Time
        /\ TX_JIT_DELAY <= pre(k) + post(k) + TX_MARGIN_DELAY
  <2> SUFFICES ASSUME NEW k \in DOMAIN nodes
               PROVE  /\ o(k) \in Nat /\ post(k) \in Nat /\ o(k) <= Span
                      /\ pre(k) \in Nat /\ pre(k) >= TX_START_DELAY
                      /\ Behind(nodes[k])
                           = post(k) + TX_START_DELAY + 2 * TX_JIT_DELAY + TX_MARGIN_DELAY
                      /\ nodes[k].count_us \in Time
                      /\ TX_JIT_DELAY <= pre(k) + post(k) + TX_MARGIN_DELAY
    OBVIOUS
  <2>1. /\ post(k) \in Nat /\ nodes[k].count_us \in Time
        /\ pre(k) = IF nodes[k].pkt_type = BEACON THEN TX_START_DELAY
                                                  ELSE TX_START_DELAY + TX_JIT_DELAY
    BY <1>2, PlannedBounds
  <2>2. o(k) \in Nat /\ o(k) <= Span
    BY <1>2, <1>3, OffsetType DEF Within
  <2>3. nodes[k].pkt_type = BEACON => post(k) = BEACON_RESERVED
    BY <1>2 DEF Planned
  <2>4. Behind(nodes[k]) = post(k) + TX_START_DELAY + 2 * TX_JIT_DELAY + TX_MARGIN_DELAY
    BY DEF Behind
  <2>5. TX_JIT_DELAY <= pre(k) + post(k) + TX_MARGIN_DELAY
    <3> HIDE DEF pre, post
    <3>1. CASE nodes[k].pkt_type = BEACON
      BY <2>1, <2>3, <3>1, SlotAssumption, Magnitudes
    <3>2. CASE nodes[k].pkt_type # BEACON
      BY <2>1, <3>2, Magnitudes
    <3> QED
      BY <3>1, <3>2
  <2> HIDE DEF pre, post
  <2> QED
    BY <2>1, <2>2, <2>4, <2>5, Magnitudes
<1>7. ASSUME NEW k \in DOMAIN nodes, NEW m \in DOMAIN nodes, k < m
      PROVE  o(k) < o(m) /\ o(m) - o(k) > pre(m) + post(k) + TX_MARGIN_DELAY
  <2>1. o(k) < o(m)
    BY <1>2, <1>7 DEF Ordered
  <2>2. Minus(nodes[m].count_us, nodes[k].count_us) > pre(m) + post(k) + TX_MARGIN_DELAY
    BY <1>1, <1>2, <1>7 DEF Apart
  <2>3. Minus(nodes[m].count_us, nodes[k].count_us) = o(m) - o(k)
    <3>1. /\ nodes[m].count_us \in Time /\ nodes[k].count_us \in Time
          /\ o(m) = Minus(nodes[m].count_us, Base) /\ o(k) = Minus(nodes[k].count_us, Base)
      BY <1>6 DEF Offset
    <3>2. o(m) \in Nat /\ o(k) \in Nat /\ o(m) >= o(k)
      BY <1>6, <2>1
    <3> HIDE DEF o
    <3> QED
      BY <1>3, <3>1, <3>2, MinusByOffset
  <2> QED
    BY <2>1, <2>2, <2>3
<1>8. SUFFICES \/ x - o(j) > TX_START_DELAY + TX_JIT_DELAY + post(j) + TX_MARGIN_DELAY
               \/ o(j) - x > pre(j) + new.post_delay + TX_MARGIN_DELAY
  BY <1>2, <1>4, OneSideEnough
<1>9. x = o(i) + post(i) + TX_START_DELAY + 2 * TX_JIT_DELAY + TX_MARGIN_DELAY
  <2>1. x = o(i) + Behind(nodes[i])
    OBVIOUS
  <2>2. /\ Behind(nodes[i]) = post(i) + TX_START_DELAY + 2 * TX_JIT_DELAY + TX_MARGIN_DELAY
        /\ o(i) \in Nat /\ post(i) \in Nat
    BY <1>1, <1>6
  <2> HIDE DEF o, post, x
  <2> QED
    BY <1>3, <2>1, <2>2
<1>10. CASE j <= i
  <2>1. j = i \/ (o(j) < o(i) /\ o(i) - o(j) > pre(i) + post(j) + TX_MARGIN_DELAY)
    BY <1>1, <1>7, <1>10
  <2>2. /\ o(i) \in Nat /\ o(j) \in Nat /\ post(i) \in Nat /\ post(j) \in Nat
        /\ pre(i) \in Nat /\ pre(i) >= TX_START_DELAY
    BY <1>1, <1>6
  <2> HIDE DEF o, post, pre, x
  <2>3. x - o(j) > TX_START_DELAY + TX_JIT_DELAY + post(j) + TX_MARGIN_DELAY
    <3>1. \/ o(j) = o(i) /\ post(j) = post(i)
          \/ o(i) - o(j) > pre(i) + post(j) + TX_MARGIN_DELAY /\ pre(i) >= TX_START_DELAY
      BY <2>1, <2>2
    <3> QED
      BY <1>3, <1>9, <2>2, <3>1, ClearBefore
  <2> QED
    BY <2>3
<1>11. CASE j > i
  <2> DEFINE n == i + 1
  <2>1. n \in DOMAIN nodes /\ i < n /\ i < Len(nodes) /\ (j = n \/ n < j)
    BY <1>1, <1>11
  <2>2. ~Overlaps(new, nodes[n])
    BY <2>1 DEF Gaps
  <2>3. /\ new.count_us = slot /\ new.pre_delay = TX_START_DELAY + TX_JIT_DELAY
    BY ImmediateNode
  <2>4. /\ ~(Minus(slot, nodes[n].count_us) <= TX_START_DELAY + TX_JIT_DELAY + post(n) + TX_MARGIN_DELAY)
        /\ ~(Minus(nodes[n].count_us, slot) <= nodes[n].pre_delay + new.post_delay + TX_MARGIN_DELAY)
    BY <2>2, <2>3 DEF Overlaps, jit_collision_test
  <2>5. nodes[n].pre_delay \in Nat /\ pre(n) <= nodes[n].pre_delay
    <3>1. /\ nodes[n].pre_delay \in Nat
          /\ nodes[n].pre_delay >= TX_START_DELAY + TX_JIT_DELAY
          /\ pre(n) = IF nodes[n].pkt_type = BEACON THEN TX_START_DELAY
                                                    ELSE TX_START_DELAY + TX_JIT_DELAY
      BY <1>2, <2>1, PlannedBounds
    <3>2. pre(n) <= TX_START_DELAY + TX_JIT_DELAY
      BY <1>3, <3>1
    <3> HIDE DEF pre, n
    <3> QED
      BY <1>3, <3>1, <3>2
  <2>6. /\ Minus(slot, nodes[n].count_us) = (IF x >= o(n) THEN x - o(n) ELSE M - (o(n) - x))
        /\ Minus(nodes[n].count_us, slot) = (IF o(n) >= x THEN o(n) - x ELSE M - (x - o(n)))
    BY <1>3, <1>6, <2>1, MinusByOffset DEF Offset
  <2>7. o(n) - o(i) > pre(n) + post(i) + TX_MARGIN_DELAY
    BY <1>1, <1>7, <2>1
  <2>8. n = j \/ o(j) - o(n) > pre(j) + post(n) + TX_MARGIN_DELAY
    BY <1>7, <2>1
  <2>9. /\ o(i) \in Nat /\ o(j) \in Nat /\ o(n) \in Nat
        /\ post(i) \in Nat /\ post(j) \in Nat /\ post(n) \in Nat
        /\ pre(j) \in Nat /\ pre(n) \in Nat
        /\ TX_JIT_DELAY <= pre(n) + post(n) + TX_MARGIN_DELAY
        /\ nodes[n].count_us \in Time
    BY <1>1, <1>6, <2>1
  <2>10. Minus(slot, nodes[n].count_us) \in Nat /\ Minus(nodes[n].count_us, slot) \in Nat
    <3>1. Minus(slot, nodes[n].count_us) \in Time /\ Minus(nodes[n].count_us, slot) \in Time
      BY <2>9, MinusType
    <3> QED
      BY <3>1, CounterAssumption DEF Time
  <2> DEFINE ahead  == TX_START_DELAY + TX_JIT_DELAY + post(n) + TX_MARGIN_DELAY
             behind == nodes[n].pre_delay + new.post_delay + TX_MARGIN_DELAY
  <2> HIDE DEF o, post, pre, x, new, n
  <2>11. ahead \in Nat /\ behind \in Nat
    <3>1. \A a, b, c, d \in Nat : a + b + c + d \in Nat /\ a + b + c \in Nat
      OBVIOUS
    <3> QED
      BY <1>3, <1>5, <2>5, <2>9, <3>1
  <2>12. o(n) > x
    <3>1. SUFFICES ASSUME o(n) <= x PROVE FALSE
      BY <1>3, <2>9
    <3>2. x - o(n) > ahead
      <4>1. Minus(slot, nodes[n].count_us) = x - o(n)
        BY <1>3, <2>6, <2>9, <3>1
      <4>2. ~(Minus(slot, nodes[n].count_us) <= ahead)
        BY <2>4
      <4> HIDE DEF ahead
      <4> QED
        BY <2>10, <2>11, <4>1, <4>2
    <3>3. \A y, oi, on, a, b, c, st, jit, mg \in Nat :
            /\ y = oi + a + st + 2 * jit + mg /\ on - oi > c + a + mg
            /\ y - on > st + jit + b + mg
            => jit > c + b + mg
      OBVIOUS
    <3>4. TX_JIT_DELAY > pre(n) + post(n) + TX_MARGIN_DELAY
      BY <1>3, <1>9, <2>7, <2>9, <3>2, <3>3
    <3>5. \A u, a, b, c \in Nat : ~(u > a + b + c /\ u <= a + b + c)
      OBVIOUS
    <3> QED
      BY <1>3, <2>9, <3>4, <3>5
  <2>13. o(n) - x > behind
    <3>1. Minus(nodes[n].count_us, slot) = o(n) - x
      BY <1>3, <2>6, <2>9, <2>12
    <3>2. ~(Minus(nodes[n].count_us, slot) <= behind)
      BY <2>4
    <3> HIDE DEF behind
    <3> QED
      BY <2>10, <2>11, <3>1, <3>2
  <2>14. o(n) - x > pre(n) + new.post_delay + TX_MARGIN_DELAY
    <3>1. \A y, on, c, d, e, mg \in Nat : on - y > d + e + mg /\ c <= d => on - y > c + e + mg
      OBVIOUS
    <3> QED
      BY <1>3, <1>5, <2>5, <2>9, <2>13, <3>1
  <2>15. CASE n = j
    BY <2>14, <2>15
  <2>16. CASE o(j) - o(n) > pre(j) + post(n) + TX_MARGIN_DELAY
    <3>1. \A y, oj, on, a, b, c, e, mg \in Nat :
            on - y > c + e + mg /\ oj - on > a + b + mg => oj - y > a + e + mg
      OBVIOUS
    <3>2. o(j) - x > pre(j) + new.post_delay + TX_MARGIN_DELAY
      BY <1>3, <1>5, <2>9, <2>14, <2>16, <3>1
    <3> QED
      BY <3>2
  <2> QED
    BY <2>8, <2>15, <2>16
<1> QED
  BY <1>1, <1>10, <1>11

(* One second from now, when no packet overlaps that.                       *)
LEMMA AsapFree ==
  ASSUME NEW nodes \in Seq(Node), Planned(nodes), NEW p \in Requests, p.pkt_type = CLASS_C,
         NEW asap \in Time, NEW j \in DOMAIN nodes, ~Overlaps(NodeOf(p, asap), nodes[j])
  PROVE  ~Collides(NodeOf(p, asap), nodes[j])
<1> DEFINE node == nodes[j]
           new  == NodeOf(p, asap)
<1>1. /\ node.count_us \in Time /\ node.pre_delay \in Nat
      /\ node.pre_delay >= TX_START_DELAY + TX_JIT_DELAY
      /\ TargetPreDelay(CLASS_C, node)
           = IF node.pkt_type = BEACON THEN TX_START_DELAY ELSE TX_START_DELAY + TX_JIT_DELAY
  BY PlannedBounds
<1>2. /\ new.count_us = asap /\ new.post_delay \in Nat /\ new.pkt_type = CLASS_C
  BY ImmediateNode
<1>3. Minus(node.count_us, asap) \in Nat
  <2>1. Minus(node.count_us, asap) \in Time
    BY <1>1, MinusType
  <2> QED
    BY <2>1, CounterAssumption DEF Time
<1>4. TX_START_DELAY \in Nat /\ TX_JIT_DELAY \in Nat /\ TX_MARGIN_DELAY \in Nat
  BY Magnitudes
<1>5. /\ ~(Minus(new.count_us, node.count_us) <= new.pre_delay + node.post_delay + TX_MARGIN_DELAY)
      /\ ~(Minus(node.count_us, new.count_us) <= node.pre_delay + new.post_delay + TX_MARGIN_DELAY)
  BY DEF Overlaps, jit_collision_test
<1>6. TargetPreDelay(CLASS_C, node) \in Nat /\ TargetPreDelay(CLASS_C, node) <= node.pre_delay
  BY <1>1, <1>4
<1> HIDE DEF node, new
<1>7. ~(Minus(node.count_us, new.count_us)
         <= TargetPreDelay(CLASS_C, node) + new.post_delay + TX_MARGIN_DELAY)
  <2>1. \A m, a, b, c, d \in Nat : ~(m <= a + c + d) /\ b <= a => ~(m <= b + c + d)
    OBVIOUS
  <2> QED
    BY <1>1, <1>2, <1>3, <1>4, <1>5, <1>6, <2>1
<1>8. ~Collides(new, node)
  BY <1>2, <1>5, <1>7 DEF Collides, jit_collision_test
<1> QED
  BY <1>8 DEF new, node

(* The verdict on an immediate downlink is that there is a place for it.    *)
LEMMA OrderImpliesClassCFits == OInv => ClassCFits
<1> SUFFICES ASSUME OInv, now + ASAP_DELAY < M,
                    \A i \in DOMAIN queue.nodes : 2 * Lead(queue.nodes[i], now) < M,
                    NEW p \in Requests, p.pkt_type = CLASS_C,
                    NEW r \in JitEnqueue(queue, now, p)
             PROVE  r.err \in {"OK", "FULL"}
  BY DEF ClassCFits, Future
<1> DEFINE nodes == queue.nodes
<1>1. /\ IInv /\ nodes \in Seq(Node) /\ now \in Time /\ Placed(nodes)
      /\ Planned(nodes) /\ Apart(nodes) /\ Within(Base, Span, nodes) /\ Ordered(Base, nodes)
      /\ Len(nodes) \in Nat /\ Len(nodes) <= JIT_QUEUE_MAX
  BY DEF OInv, IInv, SoundQueue, Queues, Counted, Placed
<1>2. PICK count \in Departures(queue, now, p) : r.err = JitVerdict(queue, now, NodeOf(p, count))
  BY DEF JitEnqueue
<1>3. SUFFICES ASSUME Len(nodes) # JIT_QUEUE_MAX PROVE r.err = "OK"
  BY <1>2 DEF JitVerdict
<1>4. Len(nodes) < JIT_QUEUE_MAX
  BY <1>1, <1>3, QueueAssumption
<1>5. /\ TX_START_DELAY \in Nat /\ TX_JIT_DELAY \in Nat /\ TX_MARGIN_DELAY \in Nat
      /\ ASAP_DELAY \in Nat /\ MAX_LATE \in Nat
      /\ ASAP_DELAY > TX_START_DELAY + TX_MARGIN_DELAY + TX_JIT_DELAY /\ TX_JIT_DELAY > 0
  BY SlotAssumption, Magnitudes
<1>6. AsapCounts(now) = {now + ASAP_DELAY}
  BY DEF AsapCounts
<1> DEFINE asap == now + ASAP_DELAY
<1>7. asap \in Time /\ Minus(asap, now) = ASAP_DELAY
  BY <1>1, <1>6, AsapNear
<1>8. count \in ClassCSlots(nodes, p, asap)
  BY <1>6 DEF Departures
<1>9. SUFFICES /\ ~(Minus(count, now) <= TX_START_DELAY + TX_MARGIN_DELAY + TX_JIT_DELAY)
               /\ \A j \in DOMAIN nodes : ~Collides(NodeOf(p, count), nodes[j])
  <2>1. NodeOf(p, count).count_us = count /\ NodeOf(p, count).pkt_type = CLASS_C
    BY DEF NodeOf
  <2>2. CLASS_C \notin {CLASS_A, CLASS_B}
    BY DEF CLASS_A, CLASS_B, CLASS_C
  <2> QED
    BY <1>2, <1>3, <2>1, <2>2 DEF JitVerdict
<1> HIDE DEF asap
<1>10. CASE \A i \in DOMAIN nodes : ~Overlaps(NodeOf(p, asap), nodes[i])
  <2>1. count = asap
    BY <1>8, <1>10 DEF ClassCSlots
  <2>2. \A j \in DOMAIN nodes : ~Collides(NodeOf(p, count), nodes[j])
    BY <1>1, <1>7, <1>10, <2>1, AsapFree
  <2> QED
    BY <1>5, <1>7, <2>1, <2>2
<1>11. CASE ~(\A i \in DOMAIN nodes : ~Overlaps(NodeOf(p, asap), nodes[i]))
  <2>1. PICK k \in DOMAIN nodes : Overlaps(NodeOf(p, asap), nodes[k])
    BY <1>11
  <2>2. PICK i \in Gaps(nodes, p) :
           /\ \A h \in Gaps(nodes, p) : i <= h
           /\ count = SlotAfter(nodes[i], PreDelay(CLASS_C))
    BY <1>8, <1>11 DEF ClassCSlots
  <2>3. i \in DOMAIN nodes
    BY DEF Gaps
  <2>4. asap \in AsapCounts(now)
    BY <1>6 DEF asap
  <2>5. /\ count \in Time
        /\ Minus(count, Base) = Offset(Base, nodes[i]) + Behind(nodes[i])
        /\ Minus(count, Base) <= Span
    BY <1>1, <1>4, <2>1, <2>2, <2>3, <2>4, SlotInWindow
  <2>6. \A j \in DOMAIN nodes : ~Collides(NodeOf(p, count), nodes[j])
    BY <1>1, <1>4, <2>2, <2>5, SlotFree
  <2>7. nodes[i] \in Node
    BY <1>1, <2>3
  <2>8. nodes[i].count_us \in Time /\ nodes[i].post_delay \in Nat
    BY <1>1, <2>3, PlannedBounds
  <2>9. MAX_LATE <= Offset(Base, nodes[i]) /\ Offset(Base, nodes[i]) \in Nat
    <3>1. 2 * Minus(nodes[i].count_us, now) < M
      BY <2>3 DEF Lead
    <3>2. /\ Minus(nodes[i].count_us, Base) \in Nat
          /\ Minus(nodes[i].count_us, now) = IF Minus(nodes[i].count_us, Base) >= MAX_LATE
                                                THEN Minus(nodes[i].count_us, Base) - MAX_LATE
                                                ELSE M - (MAX_LATE - Minus(nodes[i].count_us, Base))
      BY <1>1, <2>8, LeadByOffset
    <3>3. 2 * MAX_LATE < M /\ M \in Nat
      BY Magnitudes DEF Span
    <3>4. \A x, l, late, m \in Nat :
            /\ 2 * late < m /\ 2 * l < m /\ l = (IF x >= late THEN x - late ELSE m - (late - x))
            => late <= x
      OBVIOUS
    <3>5. Minus(nodes[i].count_us, now) \in Nat
      BY <1>1, <2>8, LeadByOffset
    <3> QED
      BY <1>5, <3>1, <3>2, <3>3, <3>4, <3>5 DEF Offset
  <2>10. Minus(count, now) = Minus(count, Base) - MAX_LATE
    <3>1. Behind(nodes[i]) \in Nat
      BY <1>1, <2>3, PlannedBounds
    <3>2. Minus(count, Base) >= MAX_LATE
      BY <1>5, <2>5, <2>9, <3>1
    <3> QED
      BY <1>1, <2>5, <3>2, LeadByOffset
  <2>11. Behind(nodes[i]) = nodes[i].post_delay + TX_START_DELAY + 2 * TX_JIT_DELAY + TX_MARGIN_DELAY
    BY DEF Behind
  <2>12. ~(Minus(count, now) <= TX_START_DELAY + TX_MARGIN_DELAY + TX_JIT_DELAY)
    <3>1. \A o, late, post, st, jit, mg \in Nat :
            late <= o /\ jit > 0 => ~((o + (post + st + 2 * jit + mg)) - late <= st + mg + jit)
      OBVIOUS
    <3>2. Minus(count, now)
            = (Offset(Base, nodes[i])
                 + (nodes[i].post_delay + TX_START_DELAY + 2 * TX_JIT_DELAY + TX_MARGIN_DELAY))
              - MAX_LATE
      BY <2>5, <2>10, <2>11
    <3> QED
      BY <1>5, <2>8, <2>9, <3>1, <3>2
  <2> QED
    BY <2>6, <2>12
<1> QED
  BY <1>10, <1>11

(* An immediate downlink is only refused by a full queue: when one second   *)
(* from now is taken, the slot that the search finds passes every test of   *)
(* jit_enqueue.                                                             *)
THEOREM ImmediateFits == Spec => []ClassCFits
BY OrderImpliesClassCFits, InitiallyOrder, InductiveOrder, PTL DEF Spec

=============================================================================
