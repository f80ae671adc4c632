----------------------- MODULE DownlinkServiceProofs -----------------------
(***************************************************************************)
(* Theorems about Downlink that compare instants: every packet leaves at   *)
(* its timestamp or a little late and for a reason; the index that         *)
(* thread_jit holds across the queue's lock designates the same packet; and*)
(* the two threads implement TxService, up to the first packet that is     *)
(* given up and, beyond it, as long as jit_peek leaves no missed packet    *)
(* behind. The argument counts the sleeps of thread_jit since the last     *)
(* emission: what is in the queue can wait until it looks again, unless it *)
(* is just back.                                                           *)
(***************************************************************************)
EXTENDS DownlinkProofs

-----------------------------------------------------------------------------
(* The order of the queue *)

(* Every packet in the queue departs at this instant or later.              *)
Ahead(instant) == \A i \in DOMAIN queue.nodes : instant <= Instant(queue.nodes[i].count_us)

(* So does every packet that a step leaves in it.                           *)
AheadNext(instant) == \A i \in DOMAIN queue'.nodes : instant <= Instant(queue'.nodes[i].count_us)

(* The distances that jit_enqueue establishes.                              *)
Spread == Planned(queue.nodes) /\ Apart(queue.nodes)

(* The packet that jit_peek chose is due, unless one was missed.            *)
ChosenDue ==
  jit_pc = "dequeue" /\ Ahead(clock) =>
    Instant(queue.nodes[pkt_index].count_us) < clock + TX_JIT_DELAY

QueueInOrder == OnceInv /\ Spread /\ ChosenDue

(* jit_peek leaves no packet in the queue that was missed.                  *)
Purges == Peek => AheadNext(clock)

-----------------------------------------------------------------------------
(* The steps of the queue *)

(* A queued packet, on the axis of clock; it is not a beacon.               *)
LEMMA QueuedPacket ==
  ASSUME OnceInv, Spread, NEW i \in DOMAIN queue.nodes
  PROVE  LET node == queue.nodes[i]
         IN  /\ node \in Node /\ node.count_us \in Time /\ node.post_delay \in Nat
             /\ Instant(node.count_us) \in Nat /\ Instant(node.count_us) <= Horizon
             /\ Offset(START_COUNT, node) = Instant(node.count_us)
             /\ node.pkt_type # BEACON
             /\ TargetPreDelay(CLASS_C, node) = TX_START_DELAY + TX_JIT_DELAY
<1> DEFINE node == queue.nodes[i]
<1>1. queue.nodes \in Seq(Node) /\ START_COUNT \in Time
  BY Sizes DEF OnceInv, IInv, QueueInv, SoundQueue, Queues
<1>2. node \in Node
  BY <1>1
<1>3. /\ node.count_us \in Time /\ node.post_delay \in Delay /\ node.pkt \in Payload
  BY <1>2 DEF Node
<1>4. Instant(node.count_us) \in Nat /\ Offset(START_COUNT, node) = Instant(node.count_us)
  BY <1>1, OffsetType DEF Offset, Instant
<1>5. Instant(node.count_us) <= Horizon
  <2>1. Instant(node.count_us) <= Reach(meas.requested)
    BY <1>4 DEF OnceInv, Line, Booked, Within
  <2>2. meas.requested \in Nat /\ received \in 0 .. MAX_RECV /\ meas.requested <= received
    BY DEF OnceInv, Line, Stamped, IInv, QueueInv, TypeOK
  <2>3. meas.requested <= MAX_RECV
    BY <2>2, Sizes
  <2>4. Reach(meas.requested) \in Nat /\ Reach(meas.requested) <= Horizon
    BY <2>2, <2>3, Sizes
  <2> QED
    BY <1>4, <2>1, <2>4, Sizes
<1>6. node.pkt_type # BEACON
  <2>1. OwnRequest(node)
    BY DEF OnceInv, Line, Booked
  <2>2. node.pkt_type \in {CLASS_A, CLASS_C}
    BY <1>3, <2>1 DEF OnceInv, Line, Identified, OwnRequest
  <2> QED
    BY <2>2 DEF CLASS_A, CLASS_C, BEACON
<1>7. TargetPreDelay(CLASS_C, node) = TX_START_DELAY + TX_JIT_DELAY
  <2>1. node.pre_delay = PreDelay(node.pkt_type)
    BY DEF Spread, Planned
  <2> QED
    BY <1>6, <2>1 DEF TargetPreDelay, PreDelay
<1> QED
  BY <1>2, <1>3, <1>4, <1>5, <1>6, <1>7, CounterAssumption DEF Delay

(* Two queued packets are apart, from the end of the first.                 *)
LEMMA QueuedApart ==
  ASSUME OnceInv, Spread, NEW i \in DOMAIN queue.nodes, NEW j \in DOMAIN queue.nodes,
         Instant(queue.nodes[i].count_us) <= Instant(queue.nodes[j].count_us), i # j
  PROVE  LET x == queue.nodes[i]
             y == queue.nodes[j]
         IN  /\ Instant(x.count_us) + TX_JIT_DELAY < Instant(y.count_us)
             /\ Instant(x.count_us) + x.post_delay + TX_START_DELAY + TX_JIT_DELAY
                   + TX_MARGIN_DELAY < Instant(y.count_us)
<1> DEFINE x == queue.nodes[i]
           y == queue.nodes[j]
           a == Instant(x.count_us)
           b == Instant(y.count_us)
<1>1. /\ x.count_us \in Time /\ y.count_us \in Time /\ x.post_delay \in Nat
      /\ a \in Nat /\ b \in Nat
      /\ TargetPreDelay(CLASS_C, y) = TX_START_DELAY + TX_JIT_DELAY
  BY QueuedPacket
<1>2. Minus(y.count_us, x.count_us) > TX_START_DELAY + TX_JIT_DELAY + x.post_delay + TX_MARGIN_DELAY
  BY <1>1 DEF Spread, Apart
<1>3. Minus(y.count_us, x.count_us) = b - a
  <2>1. Minus(y.count_us, x.count_us) = IF b >= a THEN b - a ELSE M - (a - b)
    BY <1>1, MinusByOffset, Sizes DEF Instant
  <2> QED
    BY <1>1, <2>1
<1> HIDE DEF a, b, x, y
<1>4. /\ a + TX_JIT_DELAY < b
      /\ a + x.post_delay + TX_START_DELAY + TX_JIT_DELAY + TX_MARGIN_DELAY < b
  BY <1>1, <1>2, <1>3, Sizes
<1> QED
  BY <1>4 DEF a, b, x, y

(* What jit_enqueue leaves: the packets that were there, and perhaps one    *)
(* more, which can wait longer than thread_jit sleeps unless it is queued   *)
(* behind one that cannot.                                                  *)
LEMMA EnqueueNodes ==
  ASSUME OnceInv, Spread, Enqueue
  PROVE  /\ Spread'
         /\ \A k \in DOMAIN queue.nodes : \E i \in DOMAIN queue'.nodes : queue'.nodes[i] = queue.nodes[k]
         /\ queue' # queue =>
              \E new \in Node :
                /\ \E i \in DOMAIN queue'.nodes : queue'.nodes[i] = new
                /\ \A i \in DOMAIN queue'.nodes :
                     (\E k \in DOMAIN queue.nodes : queue'.nodes[i] = queue.nodes[k])
                       \/ queue'.nodes[i] = new
                /\ Instant(new.count_us) \in Nat
                /\ \/ clock + PERIOD + TCXO_STARTUP < Instant(new.count_us)
                   \/ /\ 1 \in DOMAIN queue.nodes
                      /\ Instant(queue.nodes[1].count_us) <= Instant(new.count_us)
                /\ \A k \in DOMAIN queue.nodes : queue.nodes[k] # new
<1>1. down # Listening
  BY DEF Enqueue, Listening
<1> DEFINE p   == requests[down.id]
           old == queue.nodes
           n   == Len(old)
<1>2. PICK count \in Departures(queue, down.time, p) :
         queue' \in IF JitVerdict(queue, down.time, NodeOf(p, count)) = "OK"
                       THEN Inserted(queue, NodeOf(p, count)) ELSE {queue}
  BY DEF Enqueue, JitEnqueue
<1>3. CASE JitVerdict(queue, down.time, NodeOf(p, count)) # "OK"
  <2>1. queue' = queue
    BY <1>2, <1>3
  <2> HIDE DEF p
  <2> QED
    BY <2>1 DEF Spread
<1>4. CASE JitVerdict(queue, down.time, NodeOf(p, count)) = "OK"
  <2> DEFINE new   == NodeOf(p, count)
             nodes == Append(old, new)
             s     == queue'.nodes
  <2>1. /\ p.pkt \in Payload /\ p.count_us \in Time /\ p.pkt_type \in PktTypes
        /\ p.toa \in TimeOnAir /\ down.time \in Time /\ clock \in Nat
    BY <1>1, Handed
  <2>2. SoundQueue(queue) /\ queue \in Queues /\ old \in Seq(Node)
    BY DEF OnceInv, IInv, QueueInv, SoundQueue, Queues
  <2>3. count \in Time
    BY <2>1, <2>2, DeparturesType
  <2>4. new \in Node /\ new.count_us = count
    BY <2>1, <2>3, NodeOfType DEF NodeOf
  <2>5. Planned(nodes) /\ Apart(nodes)
    BY <1>4, <2>1, <2>2, <2>3, AppendPlanned DEF Spread
  <2>6. /\ Instant(count) \in Nat
        /\ \/ clock + TX_START_DELAY + TX_MARGIN_DELAY + TX_JIT_DELAY < Instant(count) + DOWN_LAG
           \/ 1 \in DOMAIN old /\ Offset(START_COUNT, old[1]) <= Instant(count)
    BY <1>1, <1>4, AcceptedInstant
  <2>7. \/ clock + PERIOD + TCXO_STARTUP < Instant(count)
        \/ 1 \in DOMAIN old /\ Instant(old[1].count_us) <= Instant(count)
    <3>1. CASE clock + TX_START_DELAY + TX_MARGIN_DELAY + TX_JIT_DELAY < Instant(count) + DOWN_LAG
      <4>1. PERIOD \in Nat
        BY TimingAssumption
      <4>2. clock + PERIOD + TCXO_STARTUP < Instant(count)
        BY <2>1, <2>6, <3>1, <4>1, Sizes, WakeAssumption
      <4> QED
        BY <4>2
    <3>2. CASE 1 \in DOMAIN old /\ Offset(START_COUNT, old[1]) <= Instant(count)
      BY <3>2 DEF Offset, Instant
    <3> QED
      BY <2>6, <3>1, <3>2
  <2>8. s \in Sorted(nodes, 1 .. n + 1)
    BY <1>2, <1>4 DEF Inserted
  <2> HIDE DEF new
  <2>9. /\ nodes \in Seq(Node) /\ Len(nodes) = n + 1 /\ n \in Nat /\ DOMAIN nodes = 1 .. n + 1
        /\ DOMAIN old = 1 .. n
        /\ nodes[n + 1] = new /\ \A i \in 1 .. n : nodes[i] = old[i]
    BY <2>2, <2>4
  <2> HIDE DEF nodes, old, n
  <2>10. DOMAIN nodes \in SUBSET DOMAIN nodes /\ s \in Sorted(nodes, DOMAIN nodes)
    BY <2>8, <2>9
  <2>11. Planned(s) /\ Apart(s)
    BY <2>5, <2>9, <2>10, SortedPlanned DEF new
  <2>12. PICK f \in Bijection(DOMAIN s, DOMAIN nodes) : \A i \in DOMAIN s : s[i] = nodes[f[i]]
    BY <2>9, <2>10, SortedOnto
  <2>13. f \in [DOMAIN s -> DOMAIN nodes] /\ \A k \in DOMAIN nodes : \E i \in DOMAIN s : f[i] = k
    BY DEF Bijection, Injection, Surjection
  <2>14. \A k \in DOMAIN old : \E i \in DOMAIN s : s[i] = old[k]
    <3> SUFFICES ASSUME NEW k \in DOMAIN old PROVE \E i \in DOMAIN s : s[i] = old[k]
      OBVIOUS
    <3>1. k \in DOMAIN nodes /\ nodes[k] = old[k]
      BY <2>9
    <3> QED
      BY <2>12, <2>13, <3>1
  <2>15. ASSUME NEW i \in DOMAIN s
         PROVE  (\E k \in DOMAIN old : s[i] = old[k]) \/ s[i] = new
    <3>1. f[i] \in 1 .. n + 1 /\ s[i] = nodes[f[i]]
      BY <2>9, <2>12, <2>13
    <3>2. f[i] \in 1 .. n \/ f[i] = n + 1
      BY <2>9, <3>1
    <3> QED
      BY <2>9, <3>1, <3>2
  <2>16. \E i \in DOMAIN s : s[i] = new
    BY <2>9, <2>12, <2>13
  <2>17. ASSUME NEW k \in DOMAIN old PROVE old[k] # new
    <3>1. SUFFICES ASSUME old[k] = new PROVE FALSE
      OBVIOUS
    <3>2. Minus(old[k].count_us, new.count_us)
            > TargetPreDelay(CLASS_C, old[k]) + new.post_delay + TX_MARGIN_DELAY
      <4>1. /\ k \in DOMAIN nodes /\ n + 1 \in DOMAIN nodes /\ k # n + 1
            /\ nodes[k] = old[k] /\ nodes[n + 1] = new
        BY <2>9
      <4> QED
        BY <2>5, <4>1 DEF Apart
    <3>3. Minus(old[k].count_us, old[k].count_us) = 0
      <4>1. old[k].count_us \in Time
        BY QueuedPacket DEF old
      <4> QED
        BY <4>1, CounterAssumption DEF Minus, Time
    <3>4. TargetPreDelay(CLASS_C, old[k]) = TX_START_DELAY + TX_JIT_DELAY /\ old[k].post_delay \in Nat
      BY QueuedPacket DEF old
    <3> QED
      BY <3>1, <3>2, <3>3, <3>4, Sizes
  <2> QED
    BY <2>4, <2>6, <2>7, <2>11, <2>14, <2>15, <2>16, <2>17 DEF Spread, old
<1> QED
  BY <1>3, <1>4

(* So what was ahead by no more than a sleep stays ahead.                   *)
LEMMA EnqueueAhead ==
  ASSUME OnceInv, Spread, Enqueue, NEW t \in Int, t <= clock + PERIOD + TCXO_STARTUP
  PROVE  Ahead(t) => AheadNext(t)
<1> SUFFICES ASSUME Ahead(t), NEW i \in DOMAIN queue'.nodes
             PROVE  t <= Instant(queue'.nodes[i].count_us)
  BY DEF AheadNext
<1>1. CASE \E k \in DOMAIN queue.nodes : queue'.nodes[i] = queue.nodes[k]
  BY <1>1 DEF Ahead
<1>2. CASE ~(\E k \in DOMAIN queue.nodes : queue'.nodes[i] = queue.nodes[k])
  <2> DEFINE a == Instant(queue'.nodes[i].count_us)
             b == Instant(queue.nodes[1].count_us)
  <2>1. /\ a \in Nat
        /\ \/ clock + PERIOD + TCXO_STARTUP < a
           \/ 1 \in DOMAIN queue.nodes /\ b <= a
    <3>1. queue' # queue
      BY <1>2
    <3>2. PICK new \in Node :
            /\ \A j \in DOMAIN queue'.nodes :
                 (\E k \in DOMAIN queue.nodes : queue'.nodes[j] = queue.nodes[k])
                   \/ queue'.nodes[j] = new
            /\ Instant(new.count_us) \in Nat
            /\ \/ clock + PERIOD + TCXO_STARTUP < Instant(new.count_us)
               \/ /\ 1 \in DOMAIN queue.nodes
                  /\ Instant(queue.nodes[1].count_us) <= Instant(new.count_us)
      BY <3>1, EnqueueNodes
    <3>3. queue'.nodes[i] = new
      BY <1>2, <3>2
    <3> QED
      BY <3>2, <3>3
  <2>2. clock \in Nat /\ PERIOD \in Nat /\ TCXO_STARTUP \in Nat
    BY TimingAssumption, CounterAssumption DEF OnceInv, IInv, QueueInv, TypeOK, Time
  <2>3. 1 \in DOMAIN queue.nodes => t <= b /\ b \in Nat
    BY QueuedPacket DEF Ahead
  <2> HIDE DEF a, b
  <2>4. t <= a
    BY <2>1, <2>2, <2>3
  <2> QED
    BY <2>4 DEF a
<1> QED
  BY <1>1, <1>2

(* While no packet is missed, the index of thread_jit designates the same   *)
(* packet after jit_enqueue: one that would be sorted before it would have  *)
(* to be closer to it than TX_JIT_DELAY.                                    *)
LEMMA EnqueueKeepsIndex ==
  ASSUME OnceInv, Spread, ChosenDue, Enqueue, jit_pc = "dequeue", Ahead(clock)
  PROVE  queue'.nodes[pkt_index] = queue.nodes[pkt_index]
<1> DEFINE old == queue.nodes
           n   == Len(old)
           s   == queue'.nodes
           p   == pkt_index
           c   == Instant(old[p].count_us)
<1>1. down # Listening
  BY DEF Enqueue, Listening
<1>2. PICK count \in Departures(queue, down.time, requests[down.id]) :
         queue' \in IF JitVerdict(queue, down.time, NodeOf(requests[down.id], count)) = "OK"
                       THEN Inserted(queue, NodeOf(requests[down.id], count)) ELSE {queue}
  BY DEF Enqueue, JitEnqueue
<1>3. CASE JitVerdict(queue, down.time, NodeOf(requests[down.id], count)) # "OK"
  BY <1>2, <1>3
<1>4. CASE JitVerdict(queue, down.time, NodeOf(requests[down.id], count)) = "OK"
  <2> DEFINE new   == NodeOf(requests[down.id], count)
             nodes == Append(old, new)
             a     == Instant(count)
  <2>1. /\ requests[down.id].pkt \in Payload /\ requests[down.id].count_us \in Time
        /\ requests[down.id].pkt_type \in PktTypes
        /\ requests[down.id].toa \in TimeOnAir /\ down.time \in Time
    BY <1>1, Handed
  <2>2. /\ SoundQueue(queue) /\ queue \in Queues /\ old \in Seq(Node)
        /\ p \in DOMAIN old /\ Ordered(START_COUNT, old)
    BY DEF OnceInv, IInv, QueueInv, SoundQueue, Queues, Held, Line, Booked
  <2>3. count \in Time
    BY <2>1, <2>2, DeparturesType
  <2>4. new \in Node /\ new.count_us = count
    BY <2>1, <2>3, NodeOfType DEF NodeOf
  <2>5. Apart(nodes)
    BY <1>4, <2>1, <2>2, <2>3, AppendPlanned DEF Spread
  <2>6. s \in Sorted(nodes, 1 .. n + 1)
    BY <1>2, <1>4 DEF Inserted
  <2>7. clock <= c /\ c < clock + TX_JIT_DELAY
    BY <2>2 DEF ChosenDue, Ahead
  <2>8. c \in Nat /\ old[p].count_us \in Time /\ a \in Nat /\ clock \in Nat
        /\ TargetPreDelay(CLASS_C, old[p]) = TX_START_DELAY + TX_JIT_DELAY
    BY <1>1, <1>4, <2>2, QueuedPacket, AcceptedInstant, Handed
  <2>9. clock <= a
    <3>1. CASE 1 \in DOMAIN old /\ Offset(START_COUNT, old[1]) <= a
      <4>1. clock <= Instant(old[1].count_us) /\ Instant(old[1].count_us) \in Nat
            /\ Instant(old[1].count_us) <= a
        BY <3>1, QueuedPacket DEF Ahead
      <4> HIDE DEF a
      <4> QED
        BY <2>8, <4>1
    <3> QED
      BY <1>1, <1>4, <3>1, AcceptedInstant
  <2> HIDE DEF new
  <2>10. /\ nodes \in Seq(Node) /\ Len(nodes) = n + 1 /\ n \in Nat /\ DOMAIN nodes = 1 .. n + 1
         /\ DOMAIN old = 1 .. n /\ p \in 1 .. n
         /\ nodes[n + 1] = new /\ \A i \in 1 .. n : nodes[i] = old[i]
    BY <2>2, <2>4
  <2>11. c < a
    <3> SUFFICES ASSUME a <= c PROVE FALSE
      BY <2>8
    <3>1. p # n + 1 /\ p \in DOMAIN nodes /\ n + 1 \in DOMAIN nodes
          /\ nodes[p] = old[p] /\ nodes[n + 1] = new
      BY <2>10
    <3>2. Minus(old[p].count_us, count) > TX_START_DELAY + TX_JIT_DELAY + new.post_delay + TX_MARGIN_DELAY
      BY <2>4, <2>5, <2>8, <3>1 DEF Apart
    <3>3. Minus(old[p].count_us, count) = IF c >= a THEN c - a ELSE M - (a - c)
      BY <2>3, <2>8, MinusByOffset, Sizes DEF Instant
    <3>4. new.post_delay \in Nat
      <4>1. new.post_delay \in Delay
        BY <2>4 DEF Node
      <4> QED
        BY <4>1, CounterAssumption DEF Delay
    <3> HIDE DEF a, c
    <3>5. Minus(old[p].count_us, count) = c - a
      BY <2>8, <3>3
    <3> QED
      BY <2>7, <2>8, <2>9, <3>2, <3>4, <3>5, Sizes
  <2>12. s \in Sorted(nodes, DOMAIN nodes)
    BY <2>6, <2>10
  <2>13. Ordered(START_COUNT, s)
    BY <1>1, <1>4, <2>6, AcceptedBooked DEF new
  <2>14. ASSUME NEW i \in 1 .. p, NEW j \in DOMAIN nodes, i < j
         PROVE  Offset(START_COUNT, nodes[i]) < Offset(START_COUNT, nodes[j])
    <3>1. i \in 1 .. n /\ nodes[i] = old[i]
      BY <2>10
    <3>2. CASE j \in 1 .. n
      BY <2>2, <2>10, <2>14, <3>1, <3>2 DEF Ordered
    <3>3. CASE j = n + 1
      <4>1. Offset(START_COUNT, nodes[j]) = a
        BY <2>4, <2>10, <3>3 DEF Offset, Instant
      <4>2. Offset(START_COUNT, old[i]) \in Nat /\ Offset(START_COUNT, old[p]) = c
        BY <2>2, <2>10, <3>1, QueuedPacket
      <4>3. i = p \/ Offset(START_COUNT, old[i]) < Offset(START_COUNT, old[p])
        BY <2>2, <2>10, <3>1 DEF Ordered
      <4> HIDE DEF a, c
      <4> QED
        BY <2>8, <2>11, <3>1, <4>1, <4>2, <4>3
    <3> QED
      BY <2>10, <3>2, <3>3
  <2>15. p \in 0 .. Len(nodes) /\ p \in 1 .. p
    BY <2>10
  <2>16. \A k \in 1 .. p : s[k] = nodes[k]
    <3> HIDE DEF nodes, s, p
    <3> QED
      BY <2>10, <2>12, <2>13, <2>14, <2>15, PrefixKept, Sizes
  <2> QED
    BY <2>10, <2>15, <2>16
<1> QED
  BY <1>3, <1>4

(* When jit_peek looks at a whole queue without a missed packet and finds   *)
(* none to send, all can wait.                                              *)
LEMMA NothingDue ==
  ASSUME OnceInv, jit_time = Now, NEW nodes \in Seq(Node), Ordered(START_COUNT, nodes),
         \A i \in DOMAIN nodes : clock <= Instant(nodes[i].count_us),
         PeekIndex(nodes, 1, jit_time) = 0,
         NEW i \in DOMAIN nodes
  PROVE  clock + TX_JIT_DELAY <= Instant(nodes[i].count_us)
<1>1. clock \in Nat /\ clock \in Time
  BY CounterAssumption DEF OnceInv, IInv, QueueInv, TypeOK, Time
<1>2. ASSUME NEW k \in DOMAIN nodes
      PROVE  /\ Instant(nodes[k].count_us) \in Nat
             /\ Lead(nodes[k], jit_time) = Instant(nodes[k].count_us) - clock
  <2>1. nodes[k] \in Node
    OBVIOUS
  <2>2. nodes[k].count_us \in Time
    BY <2>1 DEF Node
  <2>3. clock <= Instant(nodes[k].count_us)
    OBVIOUS
  <2> QED
    BY <1>1, <2>2, <2>3, LeadOfInstant DEF Lead, Now
<1>3. DOMAIN nodes = 1 .. Len(nodes) /\ Len(nodes) \in Nat /\ 1 \in DOMAIN nodes /\ 0 \notin DOMAIN nodes
  OBVIOUS
<1>4. ASSUME NEW k \in DOMAIN nodes
      PROVE  ~(k < 1) /\ Lead(nodes[1], jit_time) <= Lead(nodes[k], jit_time)
  <2>1. ~(k < 1) /\ (k = 1 \/ 1 < k)
    BY <1>3
  <2>2. 1 < k => Instant(nodes[1].count_us) < Instant(nodes[k].count_us)
    BY <1>3 DEF Ordered, Offset, Instant
  <2> QED
    BY <1>1, <1>2, <1>3, <2>1, <2>2
<1>5. ~(Lead(nodes[1], jit_time) < TX_JIT_DELAY)
  <2> SUFFICES ASSUME Lead(nodes[1], jit_time) < TX_JIT_DELAY PROVE FALSE
    OBVIOUS
  <2> DEFINE examined == {x \in DOMAIN nodes : x >= 1}
             due      == {x \in examined :
                            /\ Lead(nodes[x], jit_time) < TX_JIT_DELAY
                            /\ \A j \in examined :
                                 IF j < x THEN Lead(nodes[x], jit_time) < Lead(nodes[j], jit_time)
                                          ELSE Lead(nodes[x], jit_time) <= Lead(nodes[j], jit_time)}
  <2>1. 1 \in examined /\ \A j \in examined : j \in DOMAIN nodes
    BY <1>3
  <2>2. 1 \in due
    BY <1>4, <2>1
  <2>3. PeekIndex(nodes, 1, jit_time) = CHOOSE x \in due : TRUE
    BY <2>2 DEF PeekIndex
  <2>4. PeekIndex(nodes, 1, jit_time) \in due
    BY <2>2, <2>3
  <2> QED
    BY <1>3, <2>1, <2>4
<1> DEFINE a == Instant(nodes[i].count_us)
           l == Lead(nodes[i], jit_time)
           h == Lead(nodes[1], jit_time)
<1>6. a \in Nat /\ l = a - clock /\ h \in Int /\ h <= l /\ ~(h < TX_JIT_DELAY)
  BY <1>1, <1>2, <1>3, <1>4, <1>5
<1> HIDE DEF a, l, h
<1>7. clock + TX_JIT_DELAY <= a
  BY <1>1, <1>6, Sizes
<1> QED
  BY <1>7 DEF a

(* What jit_peek leaves: it only takes out packets that are outdated, and   *)
(* keeps the order; with no head to drop it looks at all that is left.      *)
LEMMA PeekLeaves ==
  ASSUME OnceInv, Peek
  PROVE  LET K == PeekKept(queue.nodes, jit_time)
         IN  /\ jit_time = Now /\ K \in SUBSET DOMAIN queue.nodes
             /\ queue.nodes \in Seq(Node) /\ queue'.nodes \in Seq(Node)
             /\ Ordered(START_COUNT, queue'.nodes) /\ Ordered(START_COUNT, queue.nodes)
             /\ queue'.nodes \in Sorted(queue.nodes, K)
             /\ \A i \in DOMAIN queue'.nodes : \E k \in K : queue'.nodes[i] = queue.nodes[k]
             /\ Len(queue'.nodes) <= Len(queue.nodes)
             /\ K # DOMAIN queue.nodes => Len(queue'.nodes) < Len(queue.nodes)
             /\ jit_pc' = "delay" /\ ~HeadDropped(queue.nodes, jit_time)
                  => PeekIndex(queue'.nodes, 1, jit_time) = 0
<1> DEFINE nodes == queue.nodes
           K     == PeekKept(nodes, jit_time)
           s     == queue'.nodes
<1>1. /\ nodes \in Seq(Node) /\ START_COUNT \in Time /\ jit_time = Now
      /\ Ordered(START_COUNT, nodes) /\ Booked(nodes)
  BY Sizes, CounterAssumption
     DEF OnceInv, IInv, QueueInv, SoundQueue, Queues, Line, InTime, Booked, Peek
<1>2. PICK r \in JitPeek(queue, jit_time) :
        /\ queue' = r.queue
        /\ IF r.index = 0 THEN Rest
           ELSE jit_pc' = "dequeue" /\ pkt_index' = r.index /\ UNCHANGED <<since, pkt>>
  BY DEF Peek
<1>3. K \in SUBSET DOMAIN nodes
  BY DEF PeekKept
<1>4. s \in Sorted(nodes, K)
  BY <1>2 DEF JitPeek, Keeping
<1>5. /\ s \in Seq(Node) /\ Len(s) = Cardinality(K)
      /\ \A i \in DOMAIN s : \E k \in K : s[i] = nodes[k]
  <2>1. s \in Seq(Node) /\ Len(s) = Cardinality(K)
    BY <1>1, <1>3, <1>4, SortedNodes
  <2>2. PICK f \in [DOMAIN s -> K] :
          /\ \A i, j \in DOMAIN s : f[i] = f[j] => i = j
          /\ \A i \in DOMAIN s : s[i] = nodes[f[i]]
    BY <1>1, <1>3, <1>4, SortedNodes
  <2> QED
    BY <2>1, <2>2
<1>6. Ordered(START_COUNT, s)
  BY <1>3, <1>4, KeepingBooked DEF Booked
<1>7. Len(s) <= Len(nodes) /\ (K # DOMAIN nodes => Len(s) < Len(nodes))
  <2> DEFINE a == Len(nodes)
             b == Len(s)
  <2>1. IsFiniteSet(DOMAIN nodes) /\ Cardinality(DOMAIN nodes) = a /\ a \in Nat
    BY <1>1, IntervalCard
  <2>2. b = Cardinality(K)
    BY <1>5
  <2> HIDE DEF K, a, b
  <2>3. IsFiniteSet(K) /\ b <= a /\ (a = b => DOMAIN nodes = K)
    BY <1>3, <2>1, <2>2, FS_Subset
  <2>4. b \in Nat
    BY <2>2, <2>3, FS_CardinalityType
  <2>5. K # DOMAIN nodes => b < a
    BY <2>1, <2>3, <2>4
  <2> QED
    BY <2>3, <2>5 DEF a, b
<1>8. jit_pc' = "delay" /\ ~HeadDropped(nodes, jit_time) => PeekIndex(s, 1, jit_time) = 0
  <2> SUFFICES ASSUME jit_pc' = "delay", ~HeadDropped(nodes, jit_time)
               PROVE  PeekIndex(s, 1, jit_time) = 0
    OBVIOUS
  <2>1. \E k : r.queue = k /\ r.index = PeekIndex(k.nodes, 1, jit_time)
    BY DEF JitPeek
  <2> QED
    BY <1>2, <2>1
<1> QED
  BY <1>1, <1>3, <1>4, <1>5, <1>6, <1>7, <1>8

(* When it drops nothing, it changes nothing, and nothing was missed.       *)
LEMMA PeekDropsNothing ==
  ASSUME OnceInv, Peek, Len(queue'.nodes) = Len(queue.nodes)
  PROVE  AheadNext(clock)
<1> DEFINE nodes == queue.nodes
           K     == PeekKept(nodes, jit_time)
<1>1. /\ nodes \in Seq(Node) /\ Len(nodes) \in Nat
      /\ \A i \in DOMAIN queue'.nodes : \E k \in K : queue'.nodes[i] = nodes[k]
      /\ K \in SUBSET DOMAIN nodes
      /\ K # DOMAIN nodes => Len(queue'.nodes) < Len(nodes)
  BY PeekLeaves
<1>2. K = DOMAIN nodes
  BY <1>1
<1>3. ~HeadDropped(nodes, jit_time)
  <2> SUFFICES ASSUME nodes # << >>, Outdated(nodes[1], jit_time) PROVE FALSE
    BY DEF HeadDropped
  <2>1. 1 \in K
    BY <1>1, <1>2
  <2> QED
    BY <2>1 DEF PeekKept
<1>4. \A k \in K : ~Outdated(nodes[k], jit_time)
  BY <1>3 DEF PeekKept
<1>5. jit_time = Now /\ queue'.nodes \in Seq(Node)
  BY PeekLeaves
<1>6. \A i \in DOMAIN queue'.nodes : queue'.nodes[i] \in Node /\ ~Outdated(queue'.nodes[i], jit_time)
  BY <1>1, <1>4, <1>5
<1> QED
  BY <1>5, <1>6, KeptAhead DEF AheadNext

(* The distances and the choice of jit_peek.                                *)
LEMMA PeekChooses ==
  ASSUME OnceInv, Spread, Peek
  PROVE  Spread' /\ ChosenDue'
<1>1. /\ queue.nodes \in Seq(Node) /\ jit_time = Now /\ clock \in Nat /\ clock \in Time
  BY CounterAssumption
     DEF OnceInv, IInv, QueueInv, SoundQueue, Queues, Line, InTime, Peek, TypeOK, Time
<1>2. PICK r \in JitPeek(queue, jit_time) :
        /\ queue' = r.queue
        /\ IF r.index = 0 THEN Rest
           ELSE jit_pc' = "dequeue" /\ pkt_index' = r.index /\ UNCHANGED <<since, pkt>>
  BY DEF Peek
<1> DEFINE K == PeekKept(queue.nodes, jit_time)
           s == queue'.nodes
<1>3. K \in SUBSET DOMAIN queue.nodes
  BY DEF PeekKept
<1>4. s \in Sorted(queue.nodes, K)
  BY <1>2 DEF JitPeek, Keeping
<1>5. Spread'
  BY <1>1, <1>3, <1>4, SortedPlanned DEF Spread
<1>6. ChosenDue'
  <2> SUFFICES ASSUME jit_pc' = "dequeue", Ahead(clock)'
               PROVE  Instant(s[pkt_index'].count_us) < clock + TX_JIT_DELAY
    BY DEF Peek, ChosenDue, Instant
  <2>1. r.index # 0 /\ pkt_index' = r.index
    BY <1>2 DEF Rest
  <2>2. PICK first : r.index = PeekIndex(s, first, jit_time)
    BY <1>2 DEF JitPeek
  <2>3. pkt_index' \in DOMAIN s /\ Lead(s[pkt_index'], jit_time) < TX_JIT_DELAY
    BY <2>1, <2>2 DEF PeekIndex
  <2> DEFINE node == s[pkt_index']
             a    == Instant(node.count_us)
             l    == Lead(node, jit_time)
  <2>4. s \in Seq(Node)
    BY <1>1, <1>3, <1>4, SortedNodes
  <2>5. node \in Node
    BY <2>3, <2>4
  <2>6. node.count_us \in Time
    BY <2>5 DEF Node
  <2>7. clock <= a
    BY <2>3 DEF Ahead, Peek, Instant
  <2>8. a \in Nat /\ l = IF a >= clock THEN a - clock ELSE M - (clock - a)
    BY <1>1, <2>6, LeadOfInstant DEF Lead, Now
  <2>9. l < TX_JIT_DELAY
    BY <2>3
  <2> HIDE DEF a, l, node
  <2>10. a < clock + TX_JIT_DELAY
    BY <1>1, <2>7, <2>8, <2>9, Sizes
  <2> QED
    BY <2>10 DEF a, node
<1> QED
  BY <1>5, <1>6

(* The instants that the rest of this section counts with.                  *)
LEMMA SteadyNumbers ==
  ASSUME OnceInv
  PROVE  /\ clock \in Nat /\ since \in Nat /\ since <= clock /\ tx_end \in Int
         /\ dropped \in Nat /\ faults \in Nat
         /\ PERIOD \in Nat /\ TCXO_STARTUP \in Nat /\ TX_JIT_DELAY \in Nat /\ Horizon \in Nat
         /\ PERIOD + TCXO_STARTUP <= TX_JIT_DELAY
<1>1. /\ clock \in Nat /\ since \in 0 .. clock /\ tx_end \in Int
      /\ dropped \in Nat /\ faults \in 0 .. MAX_FAULTS
  BY CounterAssumption DEF OnceInv, IInv, QueueInv, TypeOK, AirFree, Time
<1> QED
  BY <1>1, TimingAssumption, WakeAssumption, Sizes

(* The time to the departure of the packet that waits, while it is not past.*)
LEMMA WaitingLead ==
  ASSUME OnceInv, jit_pc = "wait",
         clock <= Instant(pkt.count_us), Instant(pkt.count_us) <= Horizon
  PROVE  /\ Instant(pkt.count_us) \in Nat
         /\ Signed(Minus(pkt.count_us, Now)) = Instant(pkt.count_us) - clock
<1> DEFINE a == Instant(pkt.count_us)
<1>1. clock <= a /\ a <= Horizon
  OBVIOUS
<1>2. pkt.count_us \in Time /\ clock \in Time /\ clock \in Nat /\ Horizon \in Nat
  BY SteadyNumbers DEF OnceInv, IInv, QueueInv, TypeOK, InFlight, Node
<1>3. a \in Nat /\ Minus(pkt.count_us, Now) = IF a >= clock THEN a - clock ELSE M - (clock - a)
  BY <1>2, LeadOfInstant DEF Now
<1> HIDE DEF a
<1>4. Minus(pkt.count_us, Now) = a - clock /\ 2 * (a - clock) < M
  BY <1>1, <1>2, <1>3, Sizes
<1>5. Signed(Minus(pkt.count_us, Now)) = a - clock
  BY <1>4 DEF Signed
<1> QED
  BY <1>3, <1>5 DEF a


(* The packet that thread_jit has taken out.                                *)
LEMMA PktPacket ==
  ASSUME OnceInv, InFlight
  PROVE  /\ pkt \in Node /\ pkt.count_us \in Time /\ pkt.post_delay \in Nat
         /\ Instant(pkt.count_us) \in Nat
<1>1. pkt \in Node
  BY DEF OnceInv, IInv, QueueInv, TypeOK
<1>2. pkt.count_us \in Time /\ pkt.post_delay \in Nat
  BY <1>1, CounterAssumption DEF Node, Delay
<1>3. 0 \in Time
  BY CounterAssumption DEF Time
<1> QED
  BY <1>1, <1>2, <1>3, LeadOfInstant


(* jit_enqueue.                                                             *)
LEMMA EnqueueInOrder ==
  ASSUME QueueInOrder, Enqueue
  PROVE  Spread' /\ ChosenDue'
<1>1. /\ OnceInv /\ Spread /\ ChosenDue
      /\ clock' = clock /\ jit_pc' = jit_pc /\ pkt_index' = pkt_index
  BY DEF QueueInOrder, Enqueue, jitVars
<1>2. Spread'
  BY <1>1, EnqueueNodes
<1>3. ChosenDue'
  <2> SUFFICES ASSUME jit_pc = "dequeue", Ahead(clock)'
               PROVE  Instant(queue'.nodes[pkt_index].count_us) < clock + TX_JIT_DELAY
    BY <1>1 DEF ChosenDue, Instant
  <2>1. Ahead(clock)
    <3> SUFFICES ASSUME NEW k \in DOMAIN queue.nodes
                 PROVE  clock <= Instant(queue.nodes[k].count_us)
      BY DEF Ahead
    <3>1. PICK i \in DOMAIN queue'.nodes : queue'.nodes[i] = queue.nodes[k]
      BY <1>1, EnqueueNodes
    <3> QED
      BY <1>1, <3>1 DEF Ahead, Instant
  <2>2. queue'.nodes[pkt_index] = queue.nodes[pkt_index]
    BY <1>1, <2>1, EnqueueKeepsIndex
  <2> QED
    BY <1>1, <2>1, <2>2 DEF ChosenDue
<1> QED
  BY <1>2, <1>3

(* Every step.                                                              *)
LEMMA InOrderInductive == QueueInOrder /\ [Next]_vars => QueueInOrder'
<1> SUFFICES ASSUME QueueInOrder, [Next]_vars PROVE QueueInOrder'
  OBVIOUS
<1>1. OnceInv /\ Spread /\ ChosenDue /\ OnceInv'
  BY OnceInductive DEF QueueInOrder
<1>2. Spread' /\ ChosenDue'
  <2>1. CASE Enqueue
    BY <2>1, EnqueueInOrder
  <2>2. CASE Peek
    BY <1>1, <2>2, PeekChooses
  <2>3. CASE Dequeue
    <3> DEFINE K == DOMAIN queue.nodes \ {pkt_index}
    <3>1. queue'.nodes \in Sorted(queue.nodes, K) /\ K \in SUBSET DOMAIN queue.nodes
      BY <2>3 DEF Dequeue, JitDequeue, Keeping
    <3>2. queue.nodes \in Seq(Node)
      BY <1>1 DEF OnceInv, IInv, QueueInv, SoundQueue, Queues
    <3>3. Spread'
      BY <1>1, <3>1, <3>2, SortedPlanned DEF Spread
    <3>4. jit_pc' # "dequeue"
      BY <2>3 DEF Dequeue, Rest
    <3> QED
      BY <3>3, <3>4 DEF ChosenDue
  <2>4. CASE (\E id \in Payload : Receive(id)) \/ Over \/ UNCHANGED vars
    <3>1. UNCHANGED <<clock, queue, jit_pc, pkt_index>>
      BY <2>4 DEF Receive, Over, vars, jitVars
    <3> QED
      BY <1>1, <3>1 DEF Spread, ChosenDue, Ahead, Instant
  <2>5. CASE SetTx \/ Wake \/ Configure \/ Refuse \/ Poll \/ BackToRx \/ RadioFault \/ Tick
    <3>1. queue' = queue
      BY <2>5 DEF SetTx, Wake, Configure, Refuse, Poll, BackToRx, RadioFault, Tick
    <3>2. jit_pc' # "dequeue"
      BY <2>5 DEF SetTx, Wake, Configure, Refuse, Poll, BackToRx, RadioFault, Tick, Rest, jitVars
    <3> QED
      BY <1>1, <3>1, <3>2 DEF Spread, ChosenDue
  <2> QED
    BY <2>1, <2>2, <2>3, <2>4, <2>5 DEF Next, ThreadDown, ThreadJit
<1> QED
  BY <1>1, <1>2 DEF QueueInOrder

(* Before the first request.                                                *)
LEMMA InOrderInitially == Init => QueueInOrder
<1> SUFFICES ASSUME Init PROVE QueueInOrder
  OBVIOUS
<1>1. queue.nodes = << >> /\ DOMAIN queue.nodes = {}
  BY DEF Init, EmptyQueue
<1>2. Spread
  BY <1>1 DEF Spread, Planned, Apart
<1>3. ChosenDue
  BY DEF Init, ChosenDue
<1> QED
  BY <1>2, <1>3, OnceInitially DEF QueueInOrder

(* The order holds in every state.                                          *)
LEMMA InOrderInvariance == Spec => []QueueInOrder
BY InOrderInitially, InOrderInductive, PTL DEF Spec

(* For every value of the constants: the index that thread_jit holds        *)
(* designates the same packet whatever thread_down adds between jit_peek and*)
(* jit_dequeue, as long as no packet of the queue is outdated.              *)
THEOREM HeldIndexKept == Spec => IndexStable
<1>1. ASSUME QueueInOrder, [Next]_vars
      PROVE  [/\ jit_pc = "dequeue" /\ jit_pc' = "dequeue"
              /\ \A i \in DOMAIN queue.nodes : ~Outdated(queue.nodes[i], jit_time)
              => queue'.nodes[pkt_index] = queue.nodes[pkt_index]]_vars
  <2> SUFFICES ASSUME Next, jit_pc = "dequeue", jit_pc' = "dequeue",
                      \A i \in DOMAIN queue.nodes : ~Outdated(queue.nodes[i], jit_time)
               PROVE  queue'.nodes[pkt_index] = queue.nodes[pkt_index]
    BY <1>1 DEF vars
  <2>1. CASE Enqueue
    <3>1. OnceInv /\ Spread /\ ChosenDue /\ jit_time = Now /\ queue.nodes \in Seq(Node)
      BY <1>1 DEF QueueInOrder, OnceInv, IInv, QueueInv, SoundQueue, Queues, Line, InTime
    <3>2. Ahead(clock)
      <4>1. \A i \in DOMAIN queue.nodes : queue.nodes[i] \in Node
        BY <3>1
      <4> QED
        BY <3>1, <4>1, KeptAhead DEF Ahead
    <3> QED
      BY <2>1, <3>1, <3>2, EnqueueKeepsIndex
  <2>2. CASE ~Enqueue
    <3>1. ~Peek /\ ~Dequeue
      BY DEF Peek, Dequeue, Rest
    <3>2. CASE \E id \in Payload : Receive(id)
      BY <3>2 DEF Receive
    <3>3. CASE Wake \/ Configure \/ Refuse \/ SetTx \/ Poll \/ BackToRx \/ RadioFault \/ Tick
      BY <3>3 DEF Wake, Configure, Refuse, SetTx, Poll, BackToRx, RadioFault, Tick
    <3>4. CASE Over
      BY <3>4 DEF Over, vars
    <3> QED
      BY <2>2, <3>1, <3>2, <3>3, <3>4 DEF Next, ThreadDown, ThreadJit
  <2> QED
    BY <2>1, <2>2
<1> QED
  BY <1>1, InOrderInvariance, PTL DEF Spec, IndexStable

-----------------------------------------------------------------------------
(* What can wait for thread_jit *)

(* No packet was given up and no radio command failed so far.               *)
Smooth == dropped = 0 /\ faults = 0

(* thread_jit has slept this often since the last emission, and no more.    *)
JustBack(instant, sleeps) == aired # {} /\ instant <= tx_end + sleeps * PERIOD

(* Why a packet may be due before thread_jit, asleep since this instant,    *)
(* looks again: it is just back from an emission, and has perhaps lost a    *)
(* sleep over a packet that was missed, or lost more after an error.        *)
Tardy(instant) ==
  \/ JustBack(instant, 2)
  \/ dropped > 0 /\ JustBack(instant, 3)
  \/ faults > 0

(* What is in the queue can wait for a thread_jit that sleeps since this    *)
(* instant, unless it is tardy; and then, past its first look at the queue, *)
(* nothing in it was due long before that instant.                          *)
MayRest(instant) ==
  \/ Ahead(instant + PERIOD + TCXO_STARTUP)
  \/ JustBack(instant, 2)
  \/ dropped > 0 /\ JustBack(instant, 3) /\ Ahead(instant)
  \/ faults > 0 /\ Ahead(instant - TX_JIT_DELAY + 1)

(* The same after a step, for an instant before it.                         *)
MayRestNext(instant) ==
  \/ AheadNext(instant + PERIOD + TCXO_STARTUP)
  \/ aired' # {} /\ instant <= tx_end' + 2 * PERIOD
  \/ dropped' > 0 /\ aired' # {} /\ instant <= tx_end' + 3 * PERIOD /\ AheadNext(instant)
  \/ faults' > 0 /\ AheadNext(instant - TX_JIT_DELAY + 1)

(* The sleeps of thread_jit are short, and those that follow an emission are*)
(* counted from its end.                                                    *)
Sleeps ==
  /\ jit_pc \in {"delay", "emit", "done"} => clock <= since + PERIOD
  /\ jit_pc = "emit" => JustBack(since, 0)
  /\ jit_pc = "done" => JustBack(since, 1)
  /\ aired # {} => \E e \in aired : e.stop = tx_end

(* Nothing is missed for lack of attention, and what thread_jit holds or has*)
(* taken out is not missed at all.                                          *)
CanWait ==
  /\ jit_pc = "delay" => MayRest(since)
  /\ jit_pc \in {"peek", "dequeue"} => MayRest(clock - PERIOD)
  /\ jit_pc = "dequeue" => Ahead(clock)
  /\ jit_pc = "send" => Ahead(clock + PERIOD + TCXO_STARTUP)
  /\ jit_pc \in {"send", "wait"} =>
       /\ clock <= Instant(pkt.count_us) /\ Instant(pkt.count_us) <= Horizon
       /\ clock + TCXO_STARTUP <= Instant(pkt.count_us) \/ Tardy(clock - PERIOD)

(* An emission is late by no more than the start of the oscillator, and     *)
(* while all goes well only in the shadow of the emission before it.        *)
StartsInTime == \A e \in aired : e.start \in e.due .. e.due + TCXO_STARTUP

Shadowed ==
  \A e \in aired : \/ e.start = e.due
                   \/ \E f \in aired : f.due < e.due /\ e.start <= f.stop + Recovery

(* What the last emissions leave behind: the radio is busy only while       *)
(* thread_jit waits for it, but for errors, and nothing in the queue is due *)
(* much before the packet that was sent or is about to be.                  *)
Recent ==
  /\ faults = 0 /\ tx_status = "EMITTING" => jit_pc \in {"emit", "done"}
  /\ InFlight => pkt.post_delay <= LONGEST
  /\ jit_pc \in {"send", "wait"} =>
       /\ Instant(pkt.count_us) < clock + TX_JIT_DELAY
       /\ Ahead(Instant(pkt.count_us) - TX_JIT_DELAY + 1)
  /\ \A e \in aired :
       /\ e.start <= clock + TCXO_STARTUP
       /\ e.stop <= e.start + LONGEST
       /\ Ahead(e.due - TX_JIT_DELAY + 1)

Steady == Sleeps /\ CanWait /\ StartsInTime /\ (Smooth => Shadowed) /\ Recent

-----------------------------------------------------------------------------

(* Nothing is taken back.                                                   *)
LEMMA NothingUndone ==
  ASSUME OnceInv, [Next]_vars
  PROVE  /\ dropped \in Nat /\ dropped' \in Nat /\ dropped <= dropped'
         /\ faults \in Nat /\ faults' \in Nat /\ faults <= faults'
<1>1. dropped \in Nat /\ faults \in Nat
  BY SteadyNumbers
<1>2. CASE ThreadDown \/ Tick \/ Over \/ UNCHANGED vars
  <2>1. dropped' = dropped /\ faults' = faults
    BY <1>2 DEF ThreadDown, Receive, Enqueue, Tick, Over, vars, jitVars
  <2> QED
    BY <1>1, <2>1
<1>3. CASE Wake \/ Configure \/ Refuse \/ SetTx \/ Poll \/ BackToRx
  <2>1. dropped' = dropped /\ faults' = faults
    BY <1>3 DEF Wake, Configure, Refuse, SetTx, Poll, BackToRx
  <2> QED
    BY <1>1, <2>1
<1>4. CASE RadioFault
  BY <1>1, <1>4 DEF RadioFault
<1>5. CASE Dequeue
  BY <1>1, <1>5 DEF Dequeue
<1>6. CASE Peek
  <2> DEFINE a == Len(queue.nodes)
             b == Len(queue'.nodes)
  <2>1. a \in Nat /\ b \in Nat /\ b <= a
    BY <1>6, PeekLeaves
  <2>2. faults' = faults /\ dropped' = dropped + (a - b)
    BY <1>6 DEF Peek
  <2> HIDE DEF a, b
  <2> QED
    BY <1>1, <2>1, <2>2
<1> QED
  BY <1>2, <1>3, <1>4, <1>5, <1>6 DEF Next, ThreadJit

(* What can wait for an instant can wait for an earlier one.                *)
LEMMA AheadEarlier ==
  ASSUME OnceInv, Spread, NEW t \in Int, NEW u \in Int, u <= t, Ahead(t)
  PROVE  Ahead(u)
<1> SUFFICES ASSUME NEW i \in DOMAIN queue.nodes PROVE u <= Instant(queue.nodes[i].count_us)
  BY DEF Ahead
<1> DEFINE a == Instant(queue.nodes[i].count_us)
<1>1. a \in Nat /\ t <= a
  BY QueuedPacket DEF Ahead
<1> HIDE DEF a
<1>2. u <= a
  BY <1>1
<1> QED
  BY <1>2 DEF a

(* A step that keeps what is ahead, and has no emission, keeps what may     *)
(* rest; as does going back in time.                                        *)
LEMMA RestKept ==
  ASSUME OnceInv, Spread, [Next]_vars, aired' = aired, tx_end' = tx_end,
         NEW t \in Int, NEW u \in Int, u <= t, t <= clock, MayRest(t),
         \A v \in Int : v <= clock + PERIOD + TCXO_STARTUP /\ Ahead(v) => AheadNext(v)
  PROVE  MayRestNext(u)
<1>1. /\ clock \in Nat /\ PERIOD \in Nat /\ TCXO_STARTUP \in Nat /\ TX_JIT_DELAY \in Nat /\ tx_end \in Int
      /\ dropped \in Nat /\ dropped' \in Nat /\ dropped <= dropped'
      /\ faults \in Nat /\ faults' \in Nat /\ faults <= faults'
  BY SteadyNumbers, NothingUndone
<1>2. ASSUME NEW d \in Int, NEW e \in Int, e <= d, e <= clock + PERIOD + TCXO_STARTUP, Ahead(d)
      PROVE  AheadNext(e)
  BY <1>2, AheadEarlier
<1>3. CASE Ahead(t + PERIOD + TCXO_STARTUP)
  <2>1. /\ t + PERIOD + TCXO_STARTUP \in Int /\ u + PERIOD + TCXO_STARTUP \in Int
        /\ u + PERIOD + TCXO_STARTUP <= t + PERIOD + TCXO_STARTUP
        /\ u + PERIOD + TCXO_STARTUP <= clock + PERIOD + TCXO_STARTUP
    BY <1>1
  <2> QED
    BY <1>2, <1>3, <2>1 DEF MayRestNext
<1>4. CASE JustBack(t, 2)
  BY <1>1, <1>4 DEF JustBack, MayRestNext
<1>5. CASE dropped > 0 /\ JustBack(t, 3) /\ Ahead(t)
  <2>1. dropped' > 0 /\ aired' # {} /\ u <= tx_end' + 3 * PERIOD
    BY <1>1, <1>5 DEF JustBack
  <2>2. u <= clock + PERIOD + TCXO_STARTUP
    BY <1>1
  <2> QED
    BY <1>2, <1>5, <2>1, <2>2 DEF MayRestNext
<1>6. CASE faults > 0 /\ Ahead(t - TX_JIT_DELAY + 1)
  <2>1. /\ t - TX_JIT_DELAY + 1 \in Int /\ u - TX_JIT_DELAY + 1 \in Int
        /\ u - TX_JIT_DELAY + 1 <= t - TX_JIT_DELAY + 1
        /\ u - TX_JIT_DELAY + 1 <= clock + PERIOD + TCXO_STARTUP
        /\ faults' > 0
    BY <1>1, <1>6, SteadyNumbers, TimingAssumption
  <2> QED
    BY <1>2, <1>6, <2>1 DEF MayRestNext
<1> QED
  BY <1>3, <1>4, <1>5, <1>6 DEF MayRest

(* A step without an emission leaves those that were as they were.          *)
LEMMA AirKept ==
  ASSUME OnceInv, Steady, [Next]_vars, aired' = aired
  PROVE  StartsInTime' /\ (Smooth => Shadowed)'
<1>1. Smooth' => Smooth
  BY NothingUndone DEF Smooth
<1> QED
  BY <1>1 DEF Steady, StartsInTime, Shadowed, Recovery

(* A packet is late only if thread_jit is.                                  *)
LEMMA RestTardy ==
  ASSUME NEW t, MayRest(t), ~Tardy(t)
  PROVE  Ahead(t + PERIOD + TCXO_STARTUP)
BY DEF MayRest, Tardy

(* thread_down: what it adds can wait.                                      *)
LEMMA DownSteady ==
  ASSUME QueueInOrder, Steady, ThreadDown
  PROVE  Sleeps' /\ CanWait'
<1>1. /\ OnceInv /\ Spread /\ Sleeps /\ CanWait /\ [Next]_vars
  BY DEF QueueInOrder, Steady, Next
<1>2. /\ clock' = clock /\ jit_pc' = jit_pc /\ since' = since
      /\ pkt' = pkt /\ tx_end' = tx_end /\ aired' = aired /\ dropped' = dropped
      /\ faults' = faults
  BY DEF ThreadDown, Receive, Enqueue, jitVars
<1>3. Sleeps'
  BY <1>1, <1>2 DEF Sleeps, JustBack
<1>4. ASSUME NEW t \in Int, t <= clock + PERIOD + TCXO_STARTUP, Ahead(t)
      PROVE  AheadNext(t)
  <2>1. CASE Enqueue
    BY <1>1, <1>4, <2>1, EnqueueAhead
  <2>2. CASE \E id \in Payload : Receive(id)
    BY <1>4, <2>2 DEF Receive, Ahead, AheadNext
  <2> QED
    BY <2>1, <2>2 DEF ThreadDown
<1>5. /\ clock \in Nat /\ since \in Nat /\ since <= clock /\ PERIOD \in Nat /\ TCXO_STARTUP \in Nat
  BY <1>1, SteadyNumbers
<1>6. /\ jit_pc = "delay" => MayRestNext(since)
      /\ jit_pc \in {"peek", "dequeue"} => MayRestNext(clock - PERIOD)
  <2>1. /\ since \in Int /\ since <= since /\ since <= clock
        /\ clock - PERIOD \in Int /\ clock - PERIOD <= clock - PERIOD /\ clock - PERIOD <= clock
    BY <1>5
  <2>2. jit_pc = "delay" => MayRestNext(since)
    BY <1>1, <1>2, <1>4, <2>1, RestKept DEF CanWait
  <2>3. jit_pc \in {"peek", "dequeue"} => MayRestNext(clock - PERIOD)
    BY <1>1, <1>2, <1>4, <2>1, RestKept DEF CanWait
  <2> QED
    BY <2>2, <2>3
<1>7. /\ jit_pc = "dequeue" => AheadNext(clock)
      /\ jit_pc = "send" => AheadNext(clock + PERIOD + TCXO_STARTUP)
  <2>1. /\ clock \in Int /\ clock <= clock + PERIOD + TCXO_STARTUP
        /\ clock + PERIOD + TCXO_STARTUP \in Int
        /\ clock + PERIOD + TCXO_STARTUP <= clock + PERIOD + TCXO_STARTUP
    BY <1>5
  <2> QED
    BY <1>1, <1>4, <2>1 DEF CanWait
<1>8. jit_pc \in {"send", "wait"} =>
        /\ clock <= Instant(pkt.count_us) /\ Instant(pkt.count_us) <= Horizon
        /\ clock + TCXO_STARTUP <= Instant(pkt.count_us) \/ Tardy(clock - PERIOD)
  BY <1>1 DEF CanWait
<1>9. Tardy(clock - PERIOD) => Tardy(clock - PERIOD)'
  BY <1>2 DEF Tardy, JustBack
<1>10. /\ jit_pc = "delay" => MayRest(since)'
       /\ jit_pc \in {"peek", "dequeue"} => MayRest(clock - PERIOD)'
  BY <1>2, <1>6 DEF MayRest, MayRestNext, Ahead, AheadNext, JustBack, Instant
<1>11. /\ jit_pc = "dequeue" => Ahead(clock)'
       /\ jit_pc = "send" => Ahead(clock + PERIOD + TCXO_STARTUP)'
  BY <1>2, <1>7 DEF Ahead, AheadNext, Instant
<1>12. CanWait'
  BY <1>2, <1>8, <1>9, <1>10, <1>11 DEF CanWait, Instant
<1> QED
  BY <1>3, <1>12

(* thread_jit looks at the queue: what is left can wait, but behind a head  *)
(* that was missed something may be due soon.                               *)
LEMMA PeekRests ==
  ASSUME OnceInv, Spread, Peek, MayRest(clock - PERIOD), jit_pc' = "delay", AheadNext(clock)
  PROVE  MayRestNext(clock)
<1> DEFINE nodes == queue.nodes
           K     == PeekKept(nodes, jit_time)
           s     == queue'.nodes
<1>1. /\ jit_time = Now /\ K \in SUBSET DOMAIN nodes /\ nodes \in Seq(Node) /\ s \in Seq(Node)
      /\ Ordered(START_COUNT, s) /\ Ordered(START_COUNT, nodes)
      /\ \A i \in DOMAIN s : \E k \in K : s[i] = nodes[k]
      /\ K # DOMAIN nodes => Len(s) < Len(nodes)
      /\ ~HeadDropped(nodes, jit_time) => PeekIndex(s, 1, jit_time) = 0
  BY PeekLeaves
<1>2. /\ clock \in Nat /\ clock \in Time /\ PERIOD \in Nat /\ TCXO_STARTUP \in Nat /\ TX_JIT_DELAY \in Nat
      /\ PERIOD + TCXO_STARTUP <= TX_JIT_DELAY /\ dropped \in Nat /\ tx_end \in Int
      /\ clock + TX_MAX_ADVANCE_DELAY \in Time
  BY SteadyNumbers DEF OnceInv, IInv, QueueInv, TypeOK, Line, InTime
<1>3. aired' = aired /\ tx_end' = tx_end /\ faults' = faults
      /\ dropped' = dropped + (Len(nodes) - Len(s))
  BY DEF Peek
<1>4. ASSUME NEW i \in DOMAIN s
      PROVE  Instant(s[i].count_us) \in Nat /\ clock <= Instant(s[i].count_us)
  <2>1. s[i] \in Node
    BY <1>1
  <2>2. s[i].count_us \in Time
    BY <2>1 DEF Node
  <2> QED
    BY <1>2, <2>2, LeadOfInstant DEF AheadNext
<1>5. AheadNext(clock)
  OBVIOUS
<1>6. CASE ~HeadDropped(nodes, jit_time)
  <2>1. ASSUME NEW i \in DOMAIN s
        PROVE  clock + PERIOD + TCXO_STARTUP <= Instant(s[i].count_us)
    <3> DEFINE a == Instant(s[i].count_us)
    <3>1. clock + TX_JIT_DELAY <= a
      BY <1>1, <1>4, <1>6, NothingDue
    <3>2. a \in Nat
      BY <1>4
    <3> HIDE DEF a
    <3>3. clock + PERIOD + TCXO_STARTUP <= a
      BY <1>2, <3>1, <3>2
    <3> QED
      BY <3>3 DEF a
  <2> QED
    BY <1>5, <2>1 DEF AheadNext, MayRestNext
<1>7. CASE HeadDropped(nodes, jit_time)
  <2> DEFINE h == Instant(nodes[1].count_us)
  <2>1. 1 \in DOMAIN nodes /\ Outdated(nodes[1], jit_time) /\ 1 \notin K
    BY <1>1, <1>7 DEF HeadDropped, PeekKept
  <2>2. /\ nodes[1].count_us \in Time /\ h \in Nat /\ h <= Horizon /\ nodes[1].post_delay \in Nat
    BY <2>1, QueuedPacket
  <2>4. dropped' \in Nat /\ dropped' > 0
    <3> DEFINE a == Len(nodes)
               b == Len(s)
    <3>1. a \in Nat /\ b \in Nat /\ b < a /\ dropped' = dropped + (a - b)
      BY <1>1, <1>3, <2>1
    <3> HIDE DEF a, b
    <3> QED
      BY <1>2, <3>1
  <2>5. ASSUME NEW i \in DOMAIN s
        PROVE  \E k \in DOMAIN nodes : k # 1 /\ s[i] = nodes[k] /\ h < Instant(nodes[k].count_us)
    <3>1. PICK k \in K : s[i] = nodes[k]
      BY <1>1
    <3>2. k \in DOMAIN nodes /\ k # 1 /\ 1 < k
      BY <1>1, <2>1, <3>1
    <3> QED
      BY <1>1, <2>1, <3>1, <3>2 DEF Ordered, Offset, Instant
  <2>6. CASE clock - PERIOD <= h
    <3>1. ASSUME NEW i \in DOMAIN s
          PROVE  clock + PERIOD + TCXO_STARTUP <= Instant(s[i].count_us)
      <4> DEFINE a == Instant(s[i].count_us)
      <4>1. PICK k \in DOMAIN nodes : k # 1 /\ s[i] = nodes[k] /\ h < Instant(nodes[k].count_us)
        BY <2>5
      <4>2. a = Instant(nodes[k].count_us) /\ a \in Nat
        BY <1>4, <4>1
      <4>3. h <= Instant(nodes[k].count_us)
        <5> HIDE DEF a, h
        <5> QED
          BY <2>2, <4>1, <4>2
      <4>4. h + nodes[1].post_delay + TX_START_DELAY + TX_JIT_DELAY + TX_MARGIN_DELAY < a
        BY <2>1, <4>1, <4>2, <4>3, QueuedApart
      <4> HIDE DEF a, h
      <4>5. clock + PERIOD + TCXO_STARTUP <= a
        BY <1>2, <2>2, <2>6, <4>2, <4>4, Sizes, WakeAssumption
      <4> QED
        BY <4>5 DEF a
    <3> QED
      BY <3>1 DEF AheadNext, MayRestNext
  <2>7. CASE ~(clock - PERIOD <= h)
    <3>1. ~Ahead(clock - PERIOD + PERIOD + TCXO_STARTUP)
      <4> SUFFICES ASSUME Ahead(clock - PERIOD + PERIOD + TCXO_STARTUP) PROVE FALSE
        OBVIOUS
      <4>1. clock - PERIOD + PERIOD + TCXO_STARTUP <= h
        BY <2>1 DEF Ahead
      <4> HIDE DEF h
      <4> QED
        BY <1>2, <2>2, <2>7, <4>1
    <3>2. CASE JustBack(clock - PERIOD, 2)
      <4>1. aired' # {} /\ clock <= tx_end' + 3 * PERIOD
        BY <1>2, <1>3, <3>2 DEF JustBack
      <4> QED
        BY <1>5, <2>4, <4>1 DEF MayRestNext
    <3>3. ~Ahead(clock - PERIOD)
      BY <2>1, <2>7 DEF Ahead
    <3>4. CASE faults > 0
      <4>1. ASSUME NEW i \in DOMAIN s PROVE clock - TX_JIT_DELAY + 1 <= Instant(s[i].count_us)
        <5> DEFINE a == Instant(s[i].count_us)
        <5>1. a \in Nat /\ clock <= a
          BY <1>4
        <5>2. TX_JIT_DELAY >= 1
          BY <1>2, TimingAssumption
        <5> HIDE DEF a
        <5>3. clock - TX_JIT_DELAY + 1 <= a
          BY <1>2, <5>1, <5>2
        <5> QED
          BY <5>3 DEF a
      <4> QED
        BY <1>3, <1>5, <3>4, <4>1 DEF AheadNext, MayRestNext
    <3> QED
      BY <3>1, <3>2, <3>3, <3>4 DEF MayRest
  <2> QED
    BY <2>6, <2>7
<1> QED
  BY <1>6, <1>7

LEMMA PeekSteady ==
  ASSUME QueueInOrder, Steady, Peek, Purges
  PROVE  Sleeps' /\ CanWait'
<1>1. /\ OnceInv /\ Spread /\ Sleeps /\ CanWait /\ [Next]_vars
  BY DEF QueueInOrder, Steady, Next, ThreadJit
<1>2. /\ clock' = clock /\ tx_end' = tx_end /\ aired' = aired /\ jit_pc = "peek"
      /\ \/ jit_pc' = "delay" /\ since' = clock
         \/ jit_pc' = "dequeue"
  BY DEF Peek, Rest
<1>3. /\ clock \in Nat /\ PERIOD \in Nat
  BY <1>1, SteadyNumbers
<1>4. Sleeps'
  <2>1. clock <= clock + PERIOD
    BY <1>3
  <2> QED
    BY <1>1, <1>2, <2>1 DEF Sleeps
<1>5. MayRest(clock - PERIOD) /\ AheadNext(clock)
  BY <1>1, <1>2 DEF CanWait, Purges
<1>6. ASSUME NEW v \in Int, Ahead(v) PROVE AheadNext(v)
  <2>1. \A i \in DOMAIN queue'.nodes : \E k \in DOMAIN queue.nodes : queue'.nodes[i] = queue.nodes[k]
    BY <1>1, PeekLeaves
  <2> QED
    BY <1>6, <2>1 DEF Ahead, AheadNext
<1>7. CASE jit_pc' = "delay"
  <2>1. MayRestNext(clock)
    BY <1>1, <1>5, <1>7, PeekRests
  <2>2. MayRest(since)'
    BY <1>2, <1>7, <2>1 DEF MayRest, MayRestNext, Ahead, AheadNext, JustBack, Instant
  <2> QED
    BY <1>4, <1>7, <2>2 DEF CanWait
<1>8. CASE jit_pc' = "dequeue"
  <2>1. clock - PERIOD \in Int /\ clock - PERIOD <= clock - PERIOD /\ clock - PERIOD <= clock
    BY <1>3
  <2>2. MayRestNext(clock - PERIOD)
    BY <1>1, <1>2, <1>5, <1>6, <2>1, RestKept
  <2>3. MayRest(clock - PERIOD)'
    BY <1>2, <2>2 DEF MayRest, MayRestNext, Ahead, AheadNext, JustBack, Instant
  <2>4. Ahead(clock)'
    BY <1>2, <1>5 DEF Ahead, AheadNext, Instant
  <2> QED
    BY <1>4, <1>8, <2>3, <2>4 DEF CanWait
<1> QED
  BY <1>2, <1>7, <1>8

(* thread_jit takes a packet out: the others can wait until this one is     *)
(* gone, or given up because the radio still emits.                         *)
LEMMA DequeueRests ==
  ASSUME QueueInOrder, CanWait, Dequeue
  PROVE  LET c == Instant(queue.nodes[pkt_index].count_us)
         IN  /\ pkt_index \in DOMAIN queue.nodes
             /\ c \in Nat /\ clock <= c /\ c <= Horizon /\ c < clock + TX_JIT_DELAY
             /\ clock + TCXO_STARTUP <= c \/ Tardy(clock - PERIOD)
             /\ \A i \in DOMAIN queue'.nodes : \E k \in DOMAIN queue.nodes : queue'.nodes[i] = queue.nodes[k]
             /\ AheadNext(clock + PERIOD + TCXO_STARTUP)
<1>1. /\ OnceInv /\ Spread /\ ChosenDue /\ jit_pc = "dequeue"
      /\ queue.nodes \in Seq(Node) /\ pkt_index \in DOMAIN queue.nodes
  BY DEF QueueInOrder, OnceInv, IInv, QueueInv, SoundQueue, Queues, Held, Dequeue
<1> DEFINE K == DOMAIN queue.nodes \ {pkt_index}
           s == queue'.nodes
           c == Instant(queue.nodes[pkt_index].count_us)
<1>2. s \in Sorted(queue.nodes, K) /\ K \in SUBSET DOMAIN queue.nodes
  BY DEF Dequeue, JitDequeue, Keeping
<1>3. /\ clock \in Nat /\ PERIOD \in Nat /\ TCXO_STARTUP \in Nat /\ TX_JIT_DELAY \in Nat
      /\ PERIOD + TCXO_STARTUP <= TX_JIT_DELAY
  BY <1>1, SteadyNumbers
<1>4. /\ Ahead(clock) /\ clock <= c /\ c \in Nat /\ c <= Horizon /\ c < clock + TX_JIT_DELAY
  BY <1>1, QueuedPacket DEF CanWait, ChosenDue, Ahead
<1>5. clock + TCXO_STARTUP <= c \/ Tardy(clock - PERIOD)
  <2> SUFFICES ASSUME ~Tardy(clock - PERIOD) PROVE clock + TCXO_STARTUP <= c
    OBVIOUS
  <2>1. MayRest(clock - PERIOD)
    BY <1>1 DEF CanWait
  <2>2. clock - PERIOD + PERIOD + TCXO_STARTUP <= c
    BY <1>1, <2>1, RestTardy DEF Ahead
  <2> HIDE DEF c
  <2> QED
    BY <1>3, <1>4, <2>2
<1>6. ASSUME NEW j \in K
      PROVE  clock + PERIOD + TCXO_STARTUP <= Instant(queue.nodes[j].count_us)
  <2> DEFINE a == Instant(queue.nodes[j].count_us)
  <2>1. j \in DOMAIN queue.nodes /\ j # pkt_index /\ a \in Nat
    BY <1>1, QueuedPacket
  <2>2. clock <= a
    BY <1>4, <2>1 DEF Ahead
  <2>3. /\ c <= a => c + TX_JIT_DELAY < a
        /\ a <= c => a + TX_JIT_DELAY < c
    BY <1>1, <2>1, QueuedApart
  <2> HIDE DEF a, c
  <2>4. clock + PERIOD + TCXO_STARTUP <= a
    BY <1>3, <1>4, <2>1, <2>2, <2>3
  <2> QED
    BY <2>4 DEF a
<1>7. PICK f \in [DOMAIN s -> K] : \A i \in DOMAIN s : s[i] = queue.nodes[f[i]]
  <2>1. PICK f \in [DOMAIN s -> K] :
          /\ \A i, j \in DOMAIN s : f[i] = f[j] => i = j
          /\ \A i \in DOMAIN s : s[i] = queue.nodes[f[i]]
    BY <1>1, <1>2, SortedNodes
  <2> QED
    BY <2>1
<1>8. AheadNext(clock + PERIOD + TCXO_STARTUP)
  BY <1>6, <1>7 DEF AheadNext
<1>9. \A i \in DOMAIN s : \E k \in DOMAIN queue.nodes : s[i] = queue.nodes[k]
  BY <1>7
<1> QED
  BY <1>1, <1>4, <1>5, <1>8, <1>9

LEMMA DequeueSteady ==
  ASSUME QueueInOrder, Steady, Dequeue
  PROVE  Sleeps' /\ CanWait'
<1>1. OnceInv /\ Sleeps /\ CanWait
  BY DEF QueueInOrder, Steady
<1>2. /\ clock' = clock /\ tx_end' = tx_end /\ aired' = aired /\ faults' = faults
      /\ jit_pc = "dequeue"
      /\ \/ jit_pc' = "delay" /\ since' = clock
         \/ jit_pc' = "send" /\ pkt' = queue.nodes[pkt_index] /\ dropped' = dropped
  BY DEF Dequeue, Rest
<1> DEFINE c == Instant(queue.nodes[pkt_index].count_us)
<1>3. /\ clock <= c /\ c <= Horizon /\ (clock + TCXO_STARTUP <= c \/ Tardy(clock - PERIOD))
      /\ AheadNext(clock + PERIOD + TCXO_STARTUP)
  BY <1>1, DequeueRests
<1>4. clock <= clock + PERIOD
  BY <1>1, SteadyNumbers
<1>5. Sleeps'
  BY <1>1, <1>2, <1>4 DEF Sleeps
<1>6. CASE jit_pc' = "delay"
  <2>1. since' = clock
    BY <1>2, <1>6
  <2>2. MayRest(since)'
    BY <1>3, <2>1 DEF MayRest, Ahead, AheadNext, Instant
  <2> QED
    BY <1>5, <1>6, <2>2 DEF CanWait
<1>7. CASE jit_pc' = "send"
  <2>1. pkt' = queue.nodes[pkt_index] /\ dropped' = dropped
    BY <1>2, <1>7
  <2>2. Tardy(clock - PERIOD) => Tardy(clock - PERIOD)'
    BY <1>2, <2>1 DEF Tardy, JustBack
  <2>3. Ahead(clock + PERIOD + TCXO_STARTUP)'
    BY <1>2, <1>3 DEF Ahead, AheadNext, Instant
  <2>4. Instant(pkt.count_us)' = c
    BY <2>1 DEF Instant
  <2>5. CanWait'
    BY <1>2, <1>3, <1>7, <2>2, <2>3, <2>4 DEF CanWait
  <2> QED
    BY <1>5, <2>5
<1> QED
  BY <1>2, <1>6, <1>7

(* The other steps of thread_jit: it sleeps once more.                      *)
LEMMA JitSteady ==
  ASSUME QueueInOrder, Steady, Wake \/ Configure \/ Refuse \/ Poll \/ BackToRx
  PROVE  Sleeps' /\ CanWait'
<1>1. OnceInv /\ Spread /\ Sleeps /\ CanWait /\ AirFree /\ [Next]_vars
  BY DEF QueueInOrder, Steady, OnceInv, IInv, Next, ThreadJit
<1>2. /\ clock' = clock /\ queue' = queue /\ tx_end' = tx_end /\ aired' = aired
      /\ dropped' = dropped /\ faults' = faults
  BY DEF Wake, Configure, Refuse, Poll, BackToRx
<1>3. /\ clock \in Nat /\ since \in Nat /\ since <= clock /\ tx_end \in Int /\ PERIOD \in Nat
      /\ TCXO_STARTUP \in Nat /\ clock <= clock + PERIOD
  BY <1>1, SteadyNumbers
<1>4. CASE Wake
  <2>1. jit_pc = "delay" /\ jit_pc' = "peek" /\ since' = since
    BY <1>4 DEF Wake
  <2>2. clock <= since + PERIOD /\ MayRest(since)
    BY <1>1, <2>1 DEF Sleeps, CanWait
  <2>3. /\ since \in Int /\ clock - PERIOD \in Int /\ clock - PERIOD <= since /\ since <= clock
        /\ \A v \in Int : Ahead(v) => AheadNext(v)
    BY <1>2, <1>3, <2>2 DEF Ahead, AheadNext
  <2>4. MayRestNext(clock - PERIOD)
    BY <1>1, <1>2, <2>2, <2>3, RestKept
  <2>5. MayRest(clock - PERIOD)'
    BY <1>2, <2>4 DEF MayRest, MayRestNext, Ahead, AheadNext, JustBack, Instant
  <2>6. CanWait' /\ Sleeps'
    BY <1>1, <1>2, <2>1, <2>5 DEF CanWait, Sleeps
  <2> QED
    BY <2>6
<1>5. CASE Configure
  <2>1. jit_pc = "send" /\ jit_pc' = "wait" /\ since' = since /\ pkt' = pkt
    BY <1>5 DEF Configure
  <2>2. CanWait' /\ Sleeps'
    BY <1>1, <1>2, <2>1 DEF CanWait, Sleeps, Tardy, JustBack, Instant
  <2> QED
    BY <2>2
<1>6. CASE Refuse
  <2>1. jit_pc = "send" /\ jit_pc' = "delay" /\ since' = clock
    BY <1>6 DEF Refuse, Rest
  <2>2. MayRest(since)'
    BY <1>1, <1>2, <2>1 DEF CanWait, MayRest, Ahead, Instant
  <2>3. Sleeps' /\ CanWait'
    BY <1>1, <1>2, <1>3, <2>1, <2>2 DEF Sleeps, CanWait
  <2> QED
    BY <2>3
<1>7. CASE Poll
  <2>1. /\ jit_pc = "emit" /\ since' = clock
        /\ \/ jit_pc' = "done"
           \/ jit_pc' = "emit" /\ ~(clock >= tx_end)
    BY <1>7 DEF Poll
  <2>2. aired # {} /\ since <= tx_end + 0 * PERIOD /\ clock <= since + PERIOD
    BY <1>1, <2>1 DEF Sleeps, JustBack
  <2>3. clock <= tx_end + 1 * PERIOD /\ (~(clock >= tx_end) => clock <= tx_end + 0 * PERIOD)
    BY <1>3, <2>2
  <2>4. Sleeps'
    BY <1>1, <1>2, <1>3, <2>1, <2>2, <2>3 DEF Sleeps, JustBack
  <2>5. CanWait'
    BY <2>1 DEF CanWait
  <2> QED
    BY <2>4, <2>5
<1>8. CASE BackToRx
  <2>1. jit_pc = "done" /\ jit_pc' = "delay" /\ since' = clock
    BY <1>8 DEF BackToRx, Rest
  <2>2. aired # {} /\ since <= tx_end + 1 * PERIOD /\ clock <= since + PERIOD
    BY <1>1, <2>1 DEF Sleeps, JustBack
  <2>3. clock <= tx_end + 2 * PERIOD
    BY <1>3, <2>2
  <2>4. JustBack(since, 2)'
    BY <1>2, <2>1, <2>2, <2>3 DEF JustBack
  <2>5. CanWait' /\ Sleeps'
    BY <1>1, <1>2, <1>3, <2>1, <2>4 DEF CanWait, MayRest, Sleeps
  <2> QED
    BY <2>5
<1> QED
  BY <1>4, <1>5, <1>6, <1>7, <1>8

(* A failed radio command sends thread_jit to sleep at once: as after an    *)
(* emission, or with nothing due long ago.                                  *)
LEMMA FaultSteady ==
  ASSUME QueueInOrder, Steady, RadioFault
  PROVE  Sleeps' /\ CanWait'
<1>1. OnceInv /\ Spread /\ Sleeps /\ CanWait /\ Recent
  BY DEF QueueInOrder, Steady
<1>2. /\ clock' = clock /\ queue' = queue /\ tx_end' = tx_end /\ aired' = aired
      /\ faults' = faults + 1 /\ jit_pc' = "delay" /\ since' = clock
      /\ jit_pc \in {"send", "wait", "emit"}
  BY DEF RadioFault, Rest
<1>3. /\ clock \in Nat /\ since \in Nat /\ since <= clock /\ tx_end \in Int /\ PERIOD \in Nat
      /\ TX_JIT_DELAY \in Nat /\ faults \in Nat
  BY <1>1, SteadyNumbers
<1>4. Sleeps'
  <2>1. clock <= clock + PERIOD
    BY <1>3
  <2> QED
    BY <1>1, <1>2, <2>1 DEF Sleeps
<1>5. CASE jit_pc = "send"
  <2>1. Ahead(clock + PERIOD + TCXO_STARTUP)
    BY <1>1, <1>5 DEF CanWait
  <2>2. MayRest(since)'
    BY <1>2, <2>1 DEF MayRest, Ahead, Instant
  <2> QED
    BY <1>2, <1>4, <2>2 DEF CanWait
<1>6. CASE jit_pc = "wait"
  <2> DEFINE a == Instant(pkt.count_us)
             t == a - TX_JIT_DELAY + 1
             u == clock - TX_JIT_DELAY + 1
  <2>1. clock <= a /\ Ahead(t) /\ a \in Nat
    BY <1>1, <1>6, PktPacket DEF CanWait, Recent, InFlight
  <2>2. t \in Int /\ u \in Int /\ u <= t
    <3> HIDE DEF a
    <3> QED
      BY <1>3, <2>1
  <2>3. Ahead(u)
    <3> HIDE DEF a, t, u
    <3> QED
      BY <1>1, <2>1, <2>2, AheadEarlier
  <2>4. faults' > 0
    BY <1>2, <1>3
  <2> QED
    BY <1>2, <1>4, <2>3, <2>4 DEF CanWait, MayRest, Ahead, Instant
<1>7. CASE jit_pc = "emit"
  <2>1. aired # {} /\ since <= tx_end + 0 * PERIOD /\ clock <= since + PERIOD
    BY <1>1, <1>7 DEF Sleeps, JustBack
  <2>2. clock <= tx_end + 2 * PERIOD
    BY <1>3, <2>1
  <2>3. JustBack(since, 2)'
    BY <1>2, <2>1, <2>2 DEF JustBack
  <2> QED
    BY <1>2, <1>4, <2>3 DEF CanWait, MayRest
<1> QED
  BY <1>2, <1>4, <1>5, <1>6, <1>7

(* The clock waits for thread_jit and for the departure of a packet.        *)
LEMMA TickSteady ==
  ASSUME QueueInOrder, Steady, Tick
  PROVE  Sleeps' /\ CanWait'
<1>1. OnceInv /\ Sleeps /\ CanWait
  BY DEF QueueInOrder, Steady
<1>2. /\ clock' = clock + 1 /\ queue' = queue /\ tx_end' = tx_end /\ aired' = aired
      /\ dropped' = dropped /\ faults' = faults /\ jit_pc' = jit_pc /\ since' = since /\ pkt' = pkt
      /\ jit_pc \notin {"peek", "dequeue", "send"}
      /\ (jit_pc \in {"delay", "emit", "done"} => clock < since + PERIOD)
      /\ (jit_pc = "wait" => ~Departing)
  BY DEF Tick, jitVars
<1>3. /\ clock \in Nat /\ since \in Nat /\ PERIOD \in Nat /\ TCXO_STARTUP \in Nat /\ Horizon \in Nat
  BY <1>1, SteadyNumbers
<1>4. Sleeps'
  BY <1>1, <1>2, <1>3 DEF Sleeps, JustBack
<1>5. ASSUME jit_pc = "wait"
      PROVE  /\ clock + 1 <= Instant(pkt.count_us) /\ Instant(pkt.count_us) <= Horizon
             /\ clock + 1 + TCXO_STARTUP <= Instant(pkt.count_us)
  <2> DEFINE a == Instant(pkt.count_us)
  <2>1. clock <= a /\ a <= Horizon
    BY <1>1, <1>5 DEF CanWait
  <2>2. a \in Nat /\ Signed(Minus(pkt.count_us, Now)) = a - clock
    BY <1>1, <1>5, <2>1, WaitingLead
  <2> HIDE DEF a
  <2>3. ~(a - clock <= TCXO_STARTUP)
    BY <1>2, <1>5, <2>2 DEF Departing
  <2>4. clock + 1 <= a /\ clock + 1 + TCXO_STARTUP <= a
    BY <1>3, <2>2, <2>3
  <2> QED
    BY <2>1, <2>4 DEF a
<1>6. jit_pc = "delay" => MayRest(since)'
  BY <1>1, <1>2 DEF CanWait, MayRest, Ahead, JustBack, Instant
<1>7. CanWait'
  BY <1>2, <1>5, <1>6 DEF CanWait, Instant
<1> QED
  BY <1>4, <1>7

(* The emission: late only when thread_jit is, and while all goes well in   *)
(* the shadow of the emission that kept it away.                            *)
LEMMA SetTxSteady ==
  ASSUME QueueInOrder, Steady, SetTx
  PROVE  Steady'
<1>1. /\ OnceInv /\ Status /\ AirFree /\ Answered /\ Sleeps /\ CanWait /\ StartsInTime /\ Recent
      /\ (Smooth => Shadowed)
  BY DEF QueueInOrder, Steady, OnceInv, IInv, Line
<1>2. /\ clock' = clock /\ queue' = queue /\ pkt' = pkt /\ dropped' = dropped /\ faults' = faults
      /\ jit_pc = "wait" /\ jit_pc' = "emit" /\ since' = clock /\ Departing
  BY DEF SetTx
<1> DEFINE a   == Instant(pkt.count_us)
           new == [pkt |-> pkt.pkt, pkt_type |-> pkt.pkt_type,
                   due |-> clock + Signed(Minus(pkt.count_us, Now)),
                   start |-> clock + TCXO_STARTUP, stop |-> tx_end']
<1>3. aired' = aired \cup {new} /\ tx_end' = clock + TCXO_STARTUP + pkt.post_delay
  BY DEF SetTx
<1>4. /\ new.due = clock + Signed(Minus(pkt.count_us, Now))
      /\ new.start = clock + TCXO_STARTUP /\ new.stop = tx_end'
  OBVIOUS
<1> HIDE DEF new
<1>5. /\ clock \in Nat /\ tx_end \in Int /\ PERIOD \in Nat /\ TCXO_STARTUP \in Nat
      /\ pkt.post_delay \in Nat /\ LONGEST \in Nat /\ a \in Nat
  BY <1>1, <1>2, SteadyNumbers, PktPacket, Sizes DEF InFlight
<1>6. /\ clock <= a /\ a <= Horizon
      /\ clock + TCXO_STARTUP <= a \/ Tardy(clock - PERIOD)
  BY <1>1, <1>2 DEF CanWait
<1>7. new.due = a /\ a - clock <= TCXO_STARTUP
  <2>1. Signed(Minus(pkt.count_us, Now)) = a - clock
    BY <1>1, <1>2, <1>6, WaitingLead
  <2> HIDE DEF a
  <2> QED
    BY <1>2, <1>4, <1>5, <2>1 DEF Departing
<1>8. new.start \in new.due .. new.due + TCXO_STARTUP
  <2> HIDE DEF a
  <2> QED
    BY <1>4, <1>5, <1>6, <1>7
<1>9. StartsInTime'
  BY <1>1, <1>3, <1>8 DEF StartsInTime
<1>10. (Smooth => Shadowed)'
  <2> SUFFICES ASSUME dropped = 0, faults = 0 PROVE Shadowed'
    BY <1>2 DEF Smooth
  <2>1. Shadowed
    BY <1>1 DEF Smooth
  <2>2. new.start = new.due \/ \E f \in aired : f.due < new.due /\ new.start <= f.stop + Recovery
    <3>1. CASE clock + TCXO_STARTUP <= a
      <4> HIDE DEF a
      <4> QED
        BY <1>4, <1>5, <1>7, <3>1
    <3>2. CASE Tardy(clock - PERIOD)
      <4>1. aired # {} /\ clock <= tx_end + 3 * PERIOD
        BY <1>5, <3>2 DEF Tardy, JustBack
      <4>2. PICK f \in aired : f.stop = tx_end
        BY <1>1, <4>1 DEF Sleeps
      <4>3. f.stop < clock /\ f.due \in Int /\ f.start \in Int /\ f.start <= f.stop
        BY <1>1, <1>2 DEF Status, AirFree, Answered
      <4>4. f.due <= f.start
        BY <1>1, <1>5, <4>3 DEF StartsInTime
      <4> HIDE DEF a
      <4>5. f.due < new.due
        BY <1>5, <1>6, <1>7, <4>2, <4>3, <4>4
      <4>6. new.start <= f.stop + Recovery
        BY <1>4, <1>5, <4>1, <4>2 DEF Recovery
      <4> QED
        BY <4>5, <4>6
    <3> QED
      BY <1>6, <3>1, <3>2
  <2> SUFFICES ASSUME NEW e \in aired'
               PROVE  \/ e.start = e.due
                      \/ \E f \in aired' : f.due < e.due /\ e.start <= f.stop + Recovery
    BY DEF Shadowed, Recovery
  <2>3. CASE e \in aired
    BY <1>3, <2>1, <2>3 DEF Shadowed
  <2>4. CASE e = new
    BY <1>3, <2>2, <2>4
  <2> QED
    BY <1>3, <2>3, <2>4
<1>11. Sleeps'
  <2>1. aired' # {} /\ \E e \in aired' : e.stop = tx_end'
    BY <1>3, <1>4
  <2>2. clock <= clock + PERIOD /\ clock <= tx_end' + 0 * PERIOD
    BY <1>3, <1>5
  <2> QED
    BY <1>2, <2>1, <2>2 DEF Sleeps, JustBack
<1>12. CanWait'
  BY <1>2 DEF CanWait
<1>13. Recent'
  <2>1. pkt.post_delay <= LONGEST /\ Ahead(a - TX_JIT_DELAY + 1)
    BY <1>1, <1>2 DEF Recent, InFlight
  <2>2. new.start <= clock + TCXO_STARTUP /\ new.stop <= new.start + LONGEST
    BY <1>3, <1>4, <1>5, <2>1
  <2>3. \A e \in aired' : /\ e.start <= clock + TCXO_STARTUP
                          /\ e.stop <= e.start + LONGEST
                          /\ Ahead(e.due - TX_JIT_DELAY + 1)
    BY <1>1, <1>3, <1>7, <2>1, <2>2 DEF Recent
  <2> QED
    BY <1>2, <2>1, <2>3 DEF Recent, Ahead, Instant
<1> QED
  BY <1>9, <1>10, <1>11, <1>12, <1>13 DEF Steady

(* What the last emissions leave behind stays so when thread_down adds a    *)
(* packet.                                                                  *)
LEMMA DownRecent ==
  ASSUME QueueInOrder, Steady, ThreadDown
  PROVE  Recent'
<1>1. OnceInv /\ Spread /\ StartsInTime /\ Recent /\ AirFree /\ Answered
  BY DEF QueueInOrder, Steady, OnceInv, IInv, Line
<1>2. /\ clock' = clock /\ jit_pc' = jit_pc /\ pkt' = pkt /\ aired' = aired
      /\ tx_status' = tx_status /\ faults' = faults
  BY DEF ThreadDown, Receive, Enqueue, jitVars
<1>3. CASE \E id \in Payload : Receive(id)
  <2>1. queue' = queue
    BY <1>3 DEF Receive
  <2> QED
    BY <1>1, <1>2, <2>1 DEF Recent, Ahead, InFlight, Instant
<1>4. CASE Enqueue
  <2>1. ASSUME NEW t \in Int, t <= clock + PERIOD + TCXO_STARTUP, Ahead(t)
        PROVE  AheadNext(t)
    BY <1>1, <1>4, <2>1, EnqueueAhead
  <2>2. /\ clock \in Nat /\ PERIOD \in Nat /\ TCXO_STARTUP \in Nat /\ TX_JIT_DELAY \in Nat
        /\ PERIOD >= 1 /\ PERIOD + TCXO_STARTUP <= TX_JIT_DELAY
    BY <1>1, SteadyNumbers, TimingAssumption
  <2>3. ASSUME jit_pc \in {"send", "wait"}
        PROVE  AheadNext(Instant(pkt.count_us) - TX_JIT_DELAY + 1)
    <3> DEFINE a == Instant(pkt.count_us)
               t == a - TX_JIT_DELAY + 1
    <3>1. a < clock + TX_JIT_DELAY /\ Ahead(t) /\ a \in Nat
      BY <1>1, <2>3, PktPacket DEF Recent, InFlight
    <3>2. t \in Int /\ t <= clock + PERIOD + TCXO_STARTUP
      <4> HIDE DEF a
      <4> QED
        BY <2>2, <3>1
    <3> QED
      BY <2>1, <3>1, <3>2
  <2>4. ASSUME NEW e \in aired
        PROVE  AheadNext(e.due - TX_JIT_DELAY + 1)
    <3>1. e.due \in Int /\ e.start \in Int /\ e.start <= clock + TCXO_STARTUP
          /\ Ahead(e.due - TX_JIT_DELAY + 1)
      BY <1>1 DEF AirFree, Answered, Recent
    <3>2. e.due <= e.start
      BY <1>1, <2>2, <3>1 DEF StartsInTime
    <3>3. e.due - TX_JIT_DELAY + 1 \in Int /\ e.due - TX_JIT_DELAY + 1 <= clock + PERIOD + TCXO_STARTUP
      BY <2>2, <3>1, <3>2
    <3> QED
      BY <2>1, <3>1, <3>3
  <2> QED
    BY <1>1, <1>2, <2>3, <2>4 DEF Recent, Ahead, AheadNext, InFlight, Instant
<1> QED
  BY <1>3, <1>4 DEF ThreadDown

(* When thread_jit looks at the queue, or takes a packet out, which is due  *)
(* no later than the rest.                                                  *)
LEMMA QueueRecent ==
  ASSUME QueueInOrder, Steady, Peek \/ Dequeue
  PROVE  Recent'
<1>1. OnceInv /\ Spread /\ CanWait /\ Recent /\ AirFree /\ Answered
  BY DEF QueueInOrder, Steady, OnceInv, IInv, Line
<1>2. /\ clock' = clock /\ aired' = aired /\ tx_status' = tx_status /\ faults' = faults
      /\ jit_pc \in {"peek", "dequeue"} /\ jit_pc' \in {"delay", "dequeue", "send"}
  BY DEF Peek, Dequeue, Rest
<1>3. ASSUME NEW t, Ahead(t) PROVE AheadNext(t)
  <2>1. \A i \in DOMAIN queue'.nodes : \E k \in DOMAIN queue.nodes : queue'.nodes[i] = queue.nodes[k]
    BY <1>1, PeekLeaves, DequeueRests
  <2> QED
    BY <1>3, <2>1 DEF Ahead, AheadNext
<1>4. \A e \in aired : /\ e.start <= clock + TCXO_STARTUP
                       /\ e.stop <= e.start + LONGEST
                       /\ AheadNext(e.due - TX_JIT_DELAY + 1)
  BY <1>1, <1>3 DEF Recent
<1>5. (\A e \in aired : /\ e.start <= clock + TCXO_STARTUP
                        /\ e.stop <= e.start + LONGEST
                        /\ Ahead(e.due - TX_JIT_DELAY + 1))'
  BY <1>2, <1>4 DEF Ahead, AheadNext, Instant
<1>6. ~(faults = 0 /\ tx_status = "EMITTING")
  BY <1>1, <1>2 DEF Recent
<1>7. ASSUME jit_pc' = "send"
      PROVE  /\ pkt'.post_delay <= LONGEST
             /\ Instant(pkt'.count_us) < clock + TX_JIT_DELAY
             /\ AheadNext(Instant(pkt'.count_us) - TX_JIT_DELAY + 1)
  <2>1. Dequeue /\ pkt' = queue.nodes[pkt_index]
    BY <1>7 DEF Peek, Dequeue, Rest
  <2> DEFINE c == Instant(queue.nodes[pkt_index].count_us)
             t == clock + PERIOD + TCXO_STARTUP
  <2>2. /\ pkt_index \in DOMAIN queue.nodes /\ c < clock + TX_JIT_DELAY /\ c \in Nat
        /\ AheadNext(t)
    BY <1>1, <2>1, DequeueRests
  <2>3. queue.nodes[pkt_index].post_delay <= LONGEST
    BY <1>1, <2>2 DEF OnceInv, Line, Booked
  <2>4. ASSUME NEW i \in DOMAIN queue'.nodes
        PROVE  c - TX_JIT_DELAY + 1 <= Instant(queue'.nodes[i].count_us)
    <3> DEFINE a == Instant(queue'.nodes[i].count_us)
    <3>1. a \in Nat
      <4>1. PICK k \in DOMAIN queue.nodes : queue'.nodes[i] = queue.nodes[k]
        BY <1>1, <2>1, DequeueRests
      <4> QED
        BY <1>1, <4>1, QueuedPacket
    <3>2. t <= a
      BY <2>2 DEF AheadNext
    <3>3. clock \in Nat /\ PERIOD \in Nat /\ TCXO_STARTUP \in Nat /\ TX_JIT_DELAY \in Nat
      BY <1>1, SteadyNumbers
    <3> HIDE DEF a, c
    <3>4. c - TX_JIT_DELAY + 1 <= a
      BY <2>2, <3>1, <3>2, <3>3
    <3> QED
      BY <3>4 DEF a
  <2> QED
    BY <2>1, <2>2, <2>3, <2>4 DEF AheadNext
<1>8. (jit_pc \in {"send", "wait"} =>
         /\ Instant(pkt.count_us) < clock + TX_JIT_DELAY
         /\ Ahead(Instant(pkt.count_us) - TX_JIT_DELAY + 1))'
  BY <1>2, <1>7 DEF Ahead, AheadNext, Instant
<1>9. (InFlight => pkt.post_delay <= LONGEST)'
  BY <1>2, <1>7 DEF InFlight
<1>10. (faults = 0 /\ tx_status = "EMITTING" => jit_pc \in {"emit", "done"})'
  BY <1>2, <1>6
<1> QED
  BY <1>5, <1>8, <1>9, <1>10 DEF Recent

(* The other steps of thread_jit, and of the clock.                         *)
LEMMA JitRecent ==
  ASSUME QueueInOrder, Steady, [Next]_vars,
         Wake \/ Configure \/ Refuse \/ Poll \/ BackToRx \/ RadioFault \/ Tick
  PROVE  Recent'
<1>1. OnceInv /\ Recent /\ AirFree
  BY DEF QueueInOrder, Steady, OnceInv, IInv
<1>2. CASE Wake \/ Configure \/ Refuse \/ Poll \/ BackToRx \/ RadioFault
  <2>1. clock' = clock /\ queue' = queue /\ aired' = aired
    BY <1>2 DEF Wake, Configure, Refuse, Poll, BackToRx, RadioFault
  <2>2. /\ InFlight' => InFlight /\ pkt' = pkt
        /\ jit_pc' \in {"send", "wait"} => jit_pc \in {"send", "wait"} /\ pkt' = pkt
    BY <1>2 DEF Wake, Configure, Refuse, Poll, BackToRx, RadioFault, Rest, InFlight
  <2>3. faults' = 0 /\ tx_status' = "EMITTING" => jit_pc' \in {"emit", "done"}
    <3>1. CASE RadioFault
      <4>1. faults' = faults + 1 /\ faults \in Nat
        BY <1>1, <3>1, SteadyNumbers DEF RadioFault
      <4>2. faults' # 0
        BY <4>1
      <4> QED
        BY <4>2
    <3>2. CASE Wake \/ Configure \/ Refuse \/ Poll \/ BackToRx
      BY <1>1, <3>2 DEF Wake, Configure, Refuse, Poll, BackToRx, Rest, Recent
    <3> QED
      BY <1>2, <3>1, <3>2
  <2>4. InFlight' => pkt'.post_delay <= LONGEST
    BY <1>1, <2>2 DEF Recent
  <2>5. jit_pc' \in {"send", "wait"} =>
          /\ Instant(pkt'.count_us) < clock + TX_JIT_DELAY
          /\ Ahead(Instant(pkt'.count_us) - TX_JIT_DELAY + 1)
    BY <1>1, <2>2 DEF Recent
  <2> QED
    BY <1>1, <2>1, <2>3, <2>4, <2>5 DEF Recent, Ahead, Instant
<1>3. CASE Tick
  <2>1. /\ clock' = clock + 1 /\ queue' = queue /\ aired' = aired /\ tx_status' = tx_status
        /\ jit_pc' = jit_pc /\ pkt' = pkt /\ faults' = faults
    BY <1>3 DEF Tick, jitVars
  <2>2. clock \in Nat /\ TX_JIT_DELAY \in Nat /\ TCXO_STARTUP \in Nat
    BY <1>1, SteadyNumbers
  <2>3. ASSUME jit_pc \in {"send", "wait"}
        PROVE  Instant(pkt.count_us) < clock + 1 + TX_JIT_DELAY
    <3> DEFINE a == Instant(pkt.count_us)
    <3>1. a \in Nat /\ a < clock + TX_JIT_DELAY
      BY <1>1, <2>3, PktPacket DEF InFlight, Recent
    <3> HIDE DEF a
    <3>2. a < clock + 1 + TX_JIT_DELAY
      BY <2>2, <3>1
    <3> QED
      BY <3>2 DEF a
  <2>4. ASSUME NEW e \in aired PROVE e.start <= clock + 1 + TCXO_STARTUP
    <3>1. e.start \in Int /\ e.start <= clock + TCXO_STARTUP
      BY <1>1 DEF AirFree, Recent
    <3> QED
      BY <2>2, <3>1
  <2> QED
    BY <1>1, <2>1, <2>3, <2>4 DEF Recent, Ahead, InFlight, Instant
<1> QED
  BY <1>2, <1>3

(* Every step, as long as jit_peek leaves no missed packet behind.          *)
LEMMA SteadyInductive ==
  ASSUME QueueInOrder, Steady, [Next]_vars, Purges
  PROVE  Steady'
<1>1. OnceInv
  BY DEF QueueInOrder
<1>2. CASE SetTx
  BY <1>2, SetTxSteady
<1>3. CASE ThreadDown \/ Peek \/ Dequeue
  <2>1. Sleeps' /\ CanWait' /\ Recent'
    BY <1>3, DownSteady, DownRecent, PeekSteady, DequeueSteady, QueueRecent
  <2>2. aired' = aired
    BY <1>3 DEF ThreadDown, Receive, Enqueue, Peek, Dequeue, jitVars
  <2> QED
    BY <1>1, <2>1, <2>2, AirKept DEF Steady
<1>4. CASE Wake \/ Configure \/ Refuse \/ Poll \/ BackToRx \/ RadioFault \/ Tick
  <2>1. Sleeps' /\ CanWait' /\ Recent'
    BY <1>4, JitSteady, FaultSteady, TickSteady, JitRecent
  <2>2. aired' = aired
    BY <1>4 DEF Wake, Configure, Refuse, Poll, BackToRx, RadioFault, Tick, jitVars
  <2> QED
    BY <1>1, <2>1, <2>2, AirKept DEF Steady
<1>5. CASE Over \/ UNCHANGED vars
  <2>1. UNCHANGED vars
    BY <1>5 DEF Over
  <2>2. Sleeps' /\ CanWait'
    BY <2>1 DEF Steady, vars, jitVars, Sleeps, CanWait, MayRest, Tardy, Ahead, JustBack, Instant
  <2>3. Recent'
    BY <2>1 DEF Steady, vars, jitVars, Recent, Ahead, InFlight, Instant
  <2>4. aired' = aired
    BY <2>1 DEF vars, jitVars
  <2> QED
    BY <1>1, <2>2, <2>3, <2>4, AirKept DEF Steady
<1> QED
  BY <1>2, <1>3, <1>4, <1>5 DEF Next, ThreadJit

(* Before the first request.                                                *)
LEMMA SteadyInitially == Init => Steady
<1> SUFFICES ASSUME Init PROVE Steady
  OBVIOUS
<1>1. DOMAIN queue.nodes = {} /\ jit_pc = "delay" /\ aired = {} /\ clock = 0 /\ since = 0
      /\ tx_status = "FREE"
  BY DEF Init, EmptyQueue
<1>2. 0 <= 0 + PERIOD
  BY TimingAssumption
<1>3. Sleeps /\ CanWait
  BY <1>1, <1>2 DEF Sleeps, CanWait, MayRest, Ahead
<1>4. StartsInTime /\ Shadowed /\ Recent
  BY <1>1 DEF StartsInTime, Shadowed, Recent, InFlight
<1> QED
  BY <1>3, <1>4 DEF Steady

(* Up to the first packet that is given up.                                 *)
SteadyAtFirst == QueueInOrder /\ (dropped = 0 => Steady)

LEMMA SteadyAtFirstInvariance == Spec => []SteadyAtFirst
<1>1. SteadyAtFirst /\ [Next]_vars => SteadyAtFirst'
  <2> SUFFICES ASSUME SteadyAtFirst, [Next]_vars, dropped' = 0 PROVE Steady'
    BY InOrderInductive DEF SteadyAtFirst
  <2>1. QueueInOrder /\ OnceInv /\ (dropped = 0 => Steady)
    BY DEF SteadyAtFirst, QueueInOrder
  <2>2. dropped = 0
    <3>1. dropped \in Nat /\ dropped <= dropped'
      BY <2>1, NothingUndone
    <3> QED
      BY <3>1
  <2>3. Purges
    <3> SUFFICES ASSUME Peek PROVE AheadNext(clock)
      BY DEF Purges
    <3> DEFINE a == Len(queue.nodes)
               b == Len(queue'.nodes)
    <3>1. a \in Nat /\ b \in Nat
      BY <2>1, PeekLeaves
    <3>2. dropped' = dropped + (a - b)
      BY DEF Peek
    <3> HIDE DEF a, b
    <3>3. b = a
      BY <2>2, <3>1, <3>2
    <3> QED
      BY <2>1, <3>3, PeekDropsNothing DEF a, b
  <2> QED
    BY <2>1, <2>2, <2>3, SteadyInductive
<1>2. Init => SteadyAtFirst
  BY SteadyInitially, InOrderInitially DEF SteadyAtFirst
<1> QED
  BY <1>1, <1>2, PTL DEF Spec

(* In every run, with any timing and any radio errors: a packet leaves at   *)
(* its timestamp, or late by no more than the start of the oscillator,      *)
(* because thread_jit comes back late from the emission before it (within   *)
(* three sleeps of its end) or after an error; once a packet was given up   *)
(* this is said of the packets with a timestamp only.                       *)
THEOREM LeavesOnTime == Spec => []OnTime
<1>1. ASSUME SteadyAtFirst PROVE OnTime
  <2>1. /\ OnceInv /\ Punctual
        /\ dropped = 0 => StartsInTime /\ (Smooth => Shadowed)
    BY <1>1 DEF SteadyAtFirst, QueueInOrder, OnceInv, Line, Steady
  <2>2. dropped \in Nat /\ faults \in Nat
    BY <2>1, SteadyNumbers
  <2>3. CASE dropped = 0
    <3>1. StartsInTime /\ (Smooth => Shadowed)
      BY <2>1, <2>3
    <3>2. CASE faults = 0
      BY <2>3, <3>1, <3>2 DEF StartsInTime, Shadowed, Smooth, OnTime
    <3>3. CASE faults > 0
      BY <3>1, <3>3 DEF StartsInTime, OnTime
    <3> QED
      BY <2>2, <3>2, <3>3
  <2>4. CASE dropped > 0
    BY <2>1, <2>4 DEF Punctual, OnTime
  <2> QED
    BY <2>2, <2>3, <2>4
<1> QED
  BY <1>1, SteadyAtFirstInvariance, PTL


-----------------------------------------------------------------------------
(* The service of TxService *)

(* The queue and thread_jit keep the time that the service promises.        *)
InStep == QueueInOrder /\ Steady

(* A packet as the service sees it.                                         *)
At(node) == [pkt  |-> node.pkt,
             due  |-> Instant(node.count_us),
             stop |-> Instant(node.count_us) + node.post_delay]

(* The instant that the service reads off the counter.                      *)
LEMMA DueInstant ==
  ASSUME NEW t \in Time, NEW count \in Time,
         Instant(count) <= Horizon, t <= Instant(count) + Grace
  PROVE  t + Signed(Minus(count, Plus(START_COUNT, t))) = Instant(count)
<1> DEFINE a == Instant(count)
           l == Minus(count, Plus(START_COUNT, t))
<1>1. a \in Nat /\ l = IF a >= t THEN a - t ELSE M - (t - a)
  BY LeadOfInstant
<1>2. t \in Nat /\ M \in Nat /\ Grace \in Nat /\ 2 * Grace < M
  <2>1. PERIOD \in Nat
    BY TimingAssumption
  <2> QED
    BY <2>1, InstantOfTime, Sizes, WakeAssumption DEF Grace
<1>3. a <= Horizon /\ t <= a + Grace
  OBVIOUS
<1> HIDE DEF a, l
<1>4. CASE a >= t
  <2>1. l = a - t /\ 2 * l < M
    BY <1>1, <1>2, <1>3, <1>4, Sizes
  <2> QED
    BY <1>1, <1>2, <2>1 DEF Signed, a, l
<1>5. CASE ~(a >= t)
  <2>1. l = M - (t - a) /\ ~(2 * l < M) /\ l - M = a - t
    BY <1>1, <1>2, <1>3, <1>5
  <2>2. Signed(l) = a - t
    BY <2>1 DEF Signed
  <2>3. t + Signed(l) = a
    BY <1>1, <1>2, <2>2
  <2> QED
    BY <2>3 DEF a, l
<1> QED
  BY <1>4, <1>5

(* The emission that keeps thread_jit away ended soon after the packets     *)
(* that are still in the queue were due.                                    *)
LEMMA LeftBehindEmission ==
  ASSUME InStep, JustBack(clock, 3), NEW i \in DOMAIN queue.nodes
  PROVE  clock + PERIOD <= Instant(queue.nodes[i].count_us) + Grace
<1> DEFINE a == Instant(queue.nodes[i].count_us)
<1>1. /\ OnceInv /\ Spread /\ Sleeps /\ StartsInTime /\ Recent /\ AirFree /\ Answered
  BY DEF InStep, QueueInOrder, Steady, OnceInv, IInv, Line
<1>2. /\ a \in Nat /\ clock \in Nat /\ tx_end \in Int
      /\ PERIOD \in Nat /\ TCXO_STARTUP \in Nat /\ TX_JIT_DELAY \in Nat /\ LONGEST \in Nat
      /\ Grace = LONGEST + TCXO_STARTUP + TX_JIT_DELAY + 4 * PERIOD
  BY <1>1, QueuedPacket, SteadyNumbers, Sizes DEF Grace
<1>3. aired # {} /\ clock <= tx_end + 3 * PERIOD
  BY DEF JustBack
<1>4. PICK e \in aired : e.stop = tx_end
  BY <1>1, <1>3 DEF Sleeps
<1>5. /\ e.start \in Int /\ e.stop \in Int /\ e.due \in Int
      /\ e.stop <= e.start + LONGEST /\ e.due - TX_JIT_DELAY + 1 <= a
  BY <1>1 DEF AirFree, Answered, Recent, Ahead
<1>6. e.start <= e.due + TCXO_STARTUP
  BY <1>1, <1>2, <1>5 DEF StartsInTime
<1> HIDE DEF a
<1>7. clock + PERIOD <= a + Grace
  BY <1>2, <1>3, <1>4, <1>5, <1>6
<1> QED
  BY <1>7 DEF a

(* A packet is not left in the queue much longer than thread_jit rests.     *)
LEMMA LeftBehindRest ==
  ASSUME InStep, NEW i \in DOMAIN queue.nodes, NEW t \in Int, clock <= t + PERIOD, MayRest(t)
  PROVE  clock + PERIOD <= Instant(queue.nodes[i].count_us) + Grace
<1> DEFINE a == Instant(queue.nodes[i].count_us)
<1>1. OnceInv /\ Spread
  BY DEF InStep, QueueInOrder
<1>2. /\ a \in Nat /\ clock \in Nat /\ tx_end \in Int
      /\ PERIOD \in Nat /\ TCXO_STARTUP \in Nat /\ TX_JIT_DELAY \in Nat /\ LONGEST \in Nat
      /\ Grace = LONGEST + TCXO_STARTUP + TX_JIT_DELAY + 4 * PERIOD
  BY <1>1, QueuedPacket, SteadyNumbers, Sizes DEF Grace
<1>3. CASE JustBack(t, 2)
  BY <1>2, <1>3, LeftBehindEmission DEF JustBack
<1>4. CASE ~JustBack(t, 2)
  <2>1. t + PERIOD + TCXO_STARTUP <= a \/ t <= a \/ t - TX_JIT_DELAY + 1 <= a
    BY <1>4 DEF MayRest, Ahead
  <2> HIDE DEF a
  <2>2. clock + PERIOD <= a + Grace
    BY <1>2, <2>1
  <2> QED
    BY <2>2 DEF a
<1> QED
  BY <1>3, <1>4

(* No packet is left behind in the queue for longer than an emission and a  *)
(* few sleeps.                                                              *)
LEMMA LeftBehind ==
  ASSUME InStep, NEW i \in DOMAIN queue.nodes
  PROVE  clock + PERIOD <= Instant(queue.nodes[i].count_us) + Grace
<1> DEFINE a == Instant(queue.nodes[i].count_us)
<1>1. OnceInv /\ Spread /\ Sleeps /\ CanWait /\ Recent
  BY DEF InStep, QueueInOrder, Steady
<1>2. /\ a \in Nat /\ clock \in Nat /\ since \in Nat /\ tx_end \in Int
      /\ PERIOD \in Nat /\ TCXO_STARTUP \in Nat /\ TX_JIT_DELAY \in Nat /\ LONGEST \in Nat
      /\ Grace = LONGEST + TCXO_STARTUP + TX_JIT_DELAY + 4 * PERIOD
  BY <1>1, QueuedPacket, SteadyNumbers, Sizes DEF Grace
<1>3. CASE jit_pc \in {"delay", "emit", "done"}
  <2>1. clock <= since + PERIOD
    BY <1>1, <1>3 DEF Sleeps
  <2>2. JustBack(since, 0) \/ JustBack(since, 1) => JustBack(since, 2)
    BY <1>2 DEF JustBack
  <2>3. MayRest(since)
    BY <1>1, <1>3, <2>2 DEF Sleeps, CanWait, MayRest
  <2> QED
    BY <1>2, <2>1, <2>3, LeftBehindRest
<1>4. CASE jit_pc \in {"peek", "dequeue"}
  <2>1. MayRest(clock - PERIOD) /\ clock - PERIOD \in Int /\ clock <= clock - PERIOD + PERIOD
    BY <1>1, <1>2, <1>4 DEF CanWait
  <2> QED
    BY <2>1, LeftBehindRest
<1>5. CASE jit_pc = "send"
  <2>1. clock + PERIOD + TCXO_STARTUP <= a
    BY <1>1, <1>5 DEF CanWait, Ahead
  <2> HIDE DEF a
  <2>2. clock + PERIOD <= a + Grace
    BY <1>2, <2>1
  <2> QED
    BY <2>2 DEF a
<1>6. CASE jit_pc = "wait"
  <2> DEFINE c == Instant(pkt.count_us)
  <2>1. clock <= c /\ c - TX_JIT_DELAY + 1 <= a
    BY <1>1, <1>6 DEF CanWait, Recent, Ahead
  <2>2. c \in Nat
    BY <1>1, <1>6, PktPacket DEF InFlight
  <2> HIDE DEF a, c
  <2>3. clock + PERIOD <= a + Grace
    BY <1>2, <2>1, <2>2
  <2> QED
    BY <2>3 DEF a
<1> QED
  BY <1>1, <1>3, <1>4, <1>5, <1>6 DEF OnceInv, IInv, QueueInv, TypeOK

(* What the service sees of the queue and of thread_jit.                    *)
LEMMA Seen ==
  ASSUME InStep
  PROVE  /\ \A i \in DOMAIN queue.nodes : SlotOf(queue.nodes[i]) = At(queue.nodes[i])
         /\ Waiting = {At(queue.nodes[i]) : i \in DOMAIN queue.nodes}
         /\ Committed = IF jit_pc \in {"send", "wait"} THEN {At(pkt)} ELSE {}
<1>1. /\ OnceInv /\ Spread /\ CanWait /\ clock \in Time /\ clock \in Nat /\ PERIOD \in Nat
      /\ Grace \in Nat
  <2>1. OnceInv /\ Spread /\ CanWait
    BY DEF InStep, QueueInOrder, Steady
  <2>2. clock \in Time /\ clock \in Nat /\ PERIOD \in Nat
    BY <2>1, SteadyNumbers DEF OnceInv, IInv, QueueInv, TypeOK
  <2>3. Grace \in Nat
    BY <2>1, SteadyNumbers, Sizes DEF Grace
  <2> QED
    BY <2>1, <2>2, <2>3
<1>2. ASSUME NEW i \in DOMAIN queue.nodes
      PROVE  SlotOf(queue.nodes[i]) = At(queue.nodes[i])
  <2> DEFINE a == Instant(queue.nodes[i].count_us)
  <2>1. queue.nodes[i].count_us \in Time /\ a \in Nat /\ a <= Horizon /\ clock + PERIOD <= a + Grace
    BY <1>1, QueuedPacket, LeftBehind
  <2>2. clock <= a + Grace
    <3> HIDE DEF a
    <3> QED
      BY <1>1, <2>1
  <2>3. Due(queue.nodes[i]) = a
    BY <1>1, <2>1, <2>2, DueInstant DEF Due, Now
  <2> QED
    BY <2>3 DEF SlotOf, At
<1>3. ASSUME jit_pc \in {"send", "wait"} PROVE SlotOf(pkt) = At(pkt)
  <2> DEFINE a == Instant(pkt.count_us)
  <2>1. pkt.count_us \in Time /\ a \in Nat /\ clock <= a /\ a <= Horizon
    BY <1>1, <1>3, PktPacket DEF CanWait, InFlight
  <2>2. clock <= a + Grace
    <3> HIDE DEF a
    <3> QED
      BY <1>1, <2>1
  <2>3. Due(pkt) = a
    BY <1>1, <2>1, <2>2, DueInstant DEF Due, Now
  <2> QED
    BY <2>3 DEF SlotOf, At
<1> QED
  BY <1>2, <1>3 DEF Waiting, Committed

(* The last emission is the one that ends at tx_end.                        *)
LEMMA LastSeen ==
  ASSUME InStep, aired # {}
  PROVE  \E e \in aired : /\ e.stop = tx_end
                          /\ LastEmission = [due |-> e.due, stop |-> e.stop]
<1>1. Sleeps /\ AirFree /\ Answered /\ OneEmission
  BY DEF InStep, QueueInOrder, Steady, OnceInv, IInv, Line
<1>2. PICK e \in aired : e.stop = tx_end
  BY <1>1 DEF Sleeps
<1>3. ASSUME NEW f \in aired, f # e PROVE f.start < e.start
  BY <1>1, <1>2, <1>3 DEF AirFree, Answered, OneEmission
<1>4. \A f \in aired : f.start \in Int
  BY <1>1 DEF AirFree
<1> DEFINE g == CHOOSE g \in aired : \A f \in aired : f.start <= g.start
<1>5. g \in aired /\ \A f \in aired : f.start <= g.start
  <2>1. \A f \in aired : f.start <= e.start
    BY <1>3, <1>4
  <2> QED
    BY <2>1
<1> HIDE DEF g
<1>6. g = e
  BY <1>3, <1>4, <1>5
<1>7. LastEmission = [due |-> g.due, stop |-> g.stop]
  BY DEF LastEmission, g
<1> QED
  BY <1>2, <1>6, <1>7

(* Two packets in the queue are two for the service.                        *)
LEMMA SeenApart ==
  InStep => \A i, j \in DOMAIN queue.nodes : i # j =>
    /\ Service!Spaced(At(queue.nodes[i]), At(queue.nodes[j]))
    /\ At(queue.nodes[i]).due # At(queue.nodes[j]).due
<1> SUFFICES ASSUME InStep, NEW i \in DOMAIN queue.nodes, NEW j \in DOMAIN queue.nodes, i # j
             PROVE  /\ Service!Spaced(At(queue.nodes[i]), At(queue.nodes[j]))
                    /\ At(queue.nodes[i]).due # At(queue.nodes[j]).due
  OBVIOUS
<1> DEFINE x == queue.nodes[i]
           y == queue.nodes[j]
           a == Instant(x.count_us)
           b == Instant(y.count_us)
<1>1. OnceInv /\ Spread
  BY DEF InStep, QueueInOrder
<1>2. a \in Nat /\ b \in Nat /\ x.post_delay \in Nat /\ y.post_delay \in Nat
  BY <1>1, QueuedPacket
<1>3. /\ At(x).due = a /\ At(y).due = b
      /\ At(x).stop = a + x.post_delay /\ At(y).stop = b + y.post_delay
  BY DEF At
<1>4. /\ a <= b => a + x.post_delay + TX_START_DELAY + TX_JIT_DELAY + TX_MARGIN_DELAY < b
      /\ b <= a => b + y.post_delay + TX_START_DELAY + TX_JIT_DELAY + TX_MARGIN_DELAY < a
  BY <1>1, QueuedApart
<1> HIDE DEF a, b, x, y
<1>5. /\ a + x.post_delay + (TX_START_DELAY + TX_JIT_DELAY + TX_MARGIN_DELAY) < b
         \/ b + y.post_delay + (TX_START_DELAY + TX_JIT_DELAY + TX_MARGIN_DELAY) < a
      /\ a # b
  BY <1>2, <1>4, Sizes
<1>6. Service!Spaced(At(x), At(y)) /\ At(x).due # At(y).due
  BY <1>3, <1>5 DEF Service!Spaced
<1> QED
  BY <1>6 DEF x, y

(* thread_down books a packet, or rejects it.                               *)
LEMMA EnqueueBooks ==
  ASSUME InStep, Enqueue, InStep'
  PROVE  Service!Book \/ UNCHANGED Service!vars
<1>1. /\ OnceInv /\ Spread
      /\ Waiting = {At(queue.nodes[i]) : i \in DOMAIN queue.nodes}
      /\ Committed = IF jit_pc \in {"send", "wait"} THEN {At(pkt)} ELSE {}
  BY Seen DEF InStep, QueueInOrder
<1>2. (InStep =>
         /\ Waiting = {At(queue.nodes[i]) : i \in DOMAIN queue.nodes}
         /\ Committed = IF jit_pc \in {"send", "wait"} THEN {At(pkt)} ELSE {})'
  BY Seen, PTL
<1>3. /\ Waiting' = {At(queue'.nodes[i]) : i \in DOMAIN queue'.nodes}
      /\ Committed' = IF jit_pc' \in {"send", "wait"} THEN {At(pkt')} ELSE {}
  BY <1>2 DEF At, Instant
<1>4. /\ clock' = clock /\ jit_pc' = jit_pc /\ pkt' = pkt /\ aired' = aired
      /\ dropped' = dropped /\ faults' = faults
  BY DEF Enqueue, jitVars
<1>5. /\ Committed' = Committed /\ LastEmission' = LastEmission
      /\ (faults > 0)' = (faults > 0) /\ (dropped > 0)' = (dropped > 0)
  BY <1>1, <1>3, <1>4 DEF LastEmission, Recovery
<1>6. CASE queue' = queue
  <2>1. Waiting' = Waiting
    BY <1>1, <1>3, <1>6
  <2> QED
    BY <1>4, <1>5, <2>1 DEF Service!vars
<1>7. CASE queue' # queue
  <2>1. PICK new \in Node :
          /\ \E i \in DOMAIN queue'.nodes : queue'.nodes[i] = new
          /\ \A i \in DOMAIN queue'.nodes :
               (\E k \in DOMAIN queue.nodes : queue'.nodes[i] = queue.nodes[k])
                 \/ queue'.nodes[i] = new
          /\ Instant(new.count_us) \in Nat
          /\ \/ clock + PERIOD + TCXO_STARTUP < Instant(new.count_us)
             \/ /\ 1 \in DOMAIN queue.nodes
                /\ Instant(queue.nodes[1].count_us) <= Instant(new.count_us)
          /\ \A k \in DOMAIN queue.nodes : queue.nodes[k] # new
    BY <1>1, <1>7, EnqueueNodes
  <2>2. \A k \in DOMAIN queue.nodes : \E i \in DOMAIN queue'.nodes : queue'.nodes[i] = queue.nodes[k]
    BY <1>1, EnqueueNodes
  <2> DEFINE p == At(new)
  <2>3. Waiting' = Waiting \cup {p}
    BY <1>1, <1>3, <2>1, <2>2
  <2>4. (InStep => \A i, j \in DOMAIN queue.nodes : i # j =>
           /\ Service!Spaced(At(queue.nodes[i]), At(queue.nodes[j]))
           /\ At(queue.nodes[i]).due # At(queue.nodes[j]).due)'
    BY SeenApart, PTL
  <2>5. ASSUME NEW k \in DOMAIN queue.nodes
        PROVE  Service!Spaced(p, At(queue.nodes[k])) /\ p.due # At(queue.nodes[k]).due
    <3>1. PICK i \in DOMAIN queue'.nodes : queue'.nodes[i] = new
      BY <2>1
    <3>2. PICK j \in DOMAIN queue'.nodes : queue'.nodes[j] = queue.nodes[k]
      BY <2>2
    <3>3. i # j
      BY <2>1, <3>1, <3>2
    <3> QED
      BY <2>4, <3>1, <3>2, <3>3 DEF Service!Spaced, At, Instant
  <2>6. p \notin Waiting /\ \A b \in Waiting : Service!Spaced(p, b)
    BY <1>1, <2>5
  <2>7. p.due > clock \/ \E b \in Waiting : b.due < clock /\ b.due < p.due
    <3> DEFINE a == Instant(new.count_us)
               h == Instant(queue.nodes[1].count_us)
    <3>1. p.due = a /\ At(queue.nodes[1]).due = h
      BY DEF At
    <3>2. /\ clock \in Nat /\ PERIOD \in Nat /\ TCXO_STARTUP \in Nat
          /\ 1 \in DOMAIN queue.nodes => h \in Nat
      BY <1>1, SteadyNumbers, QueuedPacket
    <3>3. CASE clock + PERIOD + TCXO_STARTUP < a
      <4> HIDE DEF a
      <4>1. a > clock
        BY <2>1, <3>2, <3>3 DEF a
      <4> QED
        BY <3>1, <4>1
    <3>4. CASE 1 \in DOMAIN queue.nodes /\ h <= a
      <4>1. h # a /\ At(queue.nodes[1]) \in Waiting
        BY <1>1, <2>5, <3>1, <3>4
      <4> HIDE DEF a, h
      <4>2. a > clock \/ (h < clock /\ h < a)
        BY <2>1, <3>2, <3>4, <4>1 DEF a
      <4> QED
        BY <3>1, <4>1, <4>2
    <3> QED
      BY <2>1, <3>3, <3>4
  <2> HIDE DEF p
  <2>8. Service!Book
    BY <1>4, <1>5, <2>3, <2>6, <2>7 DEF Service!Book
  <2> QED
    BY <2>8
<1> QED
  BY <1>6, <1>7

(* The same for the state after a step.                                     *)
LEMMA SeenNext ==
  ASSUME InStep'
  PROVE  /\ Waiting' = {At(queue'.nodes[i]) : i \in DOMAIN queue'.nodes}
         /\ Committed' = IF jit_pc' \in {"send", "wait"} THEN {At(pkt')} ELSE {}
<1>1. (InStep =>
         /\ Waiting = {At(queue.nodes[i]) : i \in DOMAIN queue.nodes}
         /\ Committed = IF jit_pc \in {"send", "wait"} THEN {At(pkt)} ELSE {})'
  BY Seen, PTL
<1> QED
  BY <1>1 DEF At, Instant

(* What is left in the queue when thread_jit takes out the packet it chose. *)
LEMMA DequeueSeen ==
  ASSUME InStep, Dequeue
  PROVE  LET b == At(queue.nodes[pkt_index])
         IN  /\ b \in Waiting /\ Waiting' = Waiting \ {b}
             /\ \A j \in DOMAIN queue.nodes : j = pkt_index \/ At(queue.nodes[j]).due # b.due
<1> DEFINE K == DOMAIN queue.nodes \ {pkt_index}
           b == At(queue.nodes[pkt_index])
           s == queue'.nodes
<1>1. /\ \A i \in DOMAIN queue.nodes : SlotOf(queue.nodes[i]) = At(queue.nodes[i])
      /\ Waiting = {At(queue.nodes[i]) : i \in DOMAIN queue.nodes}
      /\ queue.nodes \in Seq(Node) /\ pkt_index \in DOMAIN queue.nodes
  <2>1. OnceInv /\ jit_pc = "dequeue"
    BY DEF InStep, QueueInOrder, Dequeue
  <2> QED
    BY <2>1, Seen DEF OnceInv, IInv, QueueInv, SoundQueue, Queues, Held
<1>2. clock' = clock /\ s \in Sorted(queue.nodes, K)
  BY DEF Dequeue, JitDequeue, Keeping
<1>3. PICK f \in Bijection(DOMAIN s, K) : \A i \in DOMAIN s : s[i] = queue.nodes[f[i]]
  <2>1. K \in SUBSET DOMAIN queue.nodes
    OBVIOUS
  <2> QED
    BY <1>1, <1>2, <2>1, SortedOnto
<1>4. f \in [DOMAIN s -> K] /\ \A k \in K : \E i \in DOMAIN s : f[i] = k
  BY DEF Bijection, Injection, Surjection
<1>5. Waiting' = {At(queue.nodes[k]) : k \in K}
  <2>1. Waiting' = {SlotOf(s[i]) : i \in DOMAIN s}
    BY <1>2 DEF Waiting, SlotOf, Due, Now
  <2>2. \A i \in DOMAIN s : SlotOf(s[i]) = At(s[i])
    BY <1>1, <1>3, <1>4
  <2> QED
    BY <1>3, <1>4, <2>1, <2>2
<1>6. \A j \in DOMAIN queue.nodes : j = pkt_index \/ At(queue.nodes[j]).due # b.due
  BY <1>1, SeenApart
<1> HIDE DEF b
<1>7. \A k \in DOMAIN queue.nodes : k \in K \/ At(queue.nodes[k]) = b
  BY DEF b
<1>8. \A k \in K : At(queue.nodes[k]) # b
  BY <1>6
<1>9. b \in Waiting
  BY <1>1 DEF b
<1>10. Waiting' = Waiting \ {b}
  BY <1>1, <1>5, <1>7, <1>8
<1> QED
  BY <1>6, <1>9, <1>10 DEF b

(* thread_jit takes the next packet out of the queue, in time.              *)
LEMMA DequeueCommits ==
  ASSUME InStep, Dequeue, jit_pc' = "send", InStep'
  PROVE  Service!Commit
<1> DEFINE b == At(queue.nodes[pkt_index])
<1>1. /\ OnceInv /\ Spread /\ ChosenDue /\ CanWait
      /\ Waiting = {At(queue.nodes[i]) : i \in DOMAIN queue.nodes}
      /\ Committed = IF jit_pc \in {"send", "wait"} THEN {At(pkt)} ELSE {}
  BY Seen DEF InStep, QueueInOrder, Steady
<1>2. Committed' = IF jit_pc' \in {"send", "wait"} THEN {At(pkt')} ELSE {}
  BY SeenNext
<1>3. /\ clock' = clock /\ aired' = aired /\ faults' = faults /\ jit_pc = "dequeue"
      /\ pkt' = queue.nodes[pkt_index] /\ dropped' = dropped
  BY DEF Dequeue, Rest
<1>4. Committed = {} /\ Committed' = {b}
  BY <1>1, <1>2, <1>3
<1>5. b \in Waiting /\ Waiting' = Waiting \ {b} /\ pkt_index \in DOMAIN queue.nodes
  BY <1>1, <1>3, DequeueSeen DEF OnceInv, IInv, QueueInv, Held
<1>6. b.due >= clock /\ b.due < clock + TX_JIT_DELAY
  <2>1. b.due = Instant(queue.nodes[pkt_index].count_us) /\ b.due \in Nat /\ clock \in Nat
    BY <1>1, <1>5, QueuedPacket, SteadyNumbers DEF At
  <2>2. clock <= b.due /\ b.due < clock + TX_JIT_DELAY
    BY <1>1, <1>3, <1>5, <2>1 DEF CanWait, ChosenDue, Ahead
  <2> HIDE DEF b
  <2> QED
    BY <2>1, <2>2
<1>7. ASSUME NEW j \in DOMAIN queue.nodes
      PROVE  b.due <= At(queue.nodes[j]).due
  <2> DEFINE a == Instant(queue.nodes[j].count_us)
             c == Instant(queue.nodes[pkt_index].count_us)
  <2>1. b.due = c /\ At(queue.nodes[j]).due = a
    BY DEF At
  <2>2. a \in Nat /\ c \in Nat /\ clock \in Nat /\ TX_JIT_DELAY \in Nat
    BY <1>1, <1>5, QueuedPacket, SteadyNumbers
  <2>3. clock <= a /\ c < clock + TX_JIT_DELAY
    BY <1>1, <1>3 DEF CanWait, ChosenDue, Ahead
  <2>4. j # pkt_index /\ a <= c => a + TX_JIT_DELAY < c
    BY <1>1, <1>5, QueuedApart
  <2>5. j = pkt_index => a = c
    OBVIOUS
  <2> HIDE DEF a, c
  <2>6. c <= a
    BY <2>2, <2>3, <2>4, <2>5
  <2> QED
    BY <2>1, <2>6
<1> HIDE DEF b
<1>8. LastEmission' = LastEmission /\ (faults > 0)' = (faults > 0) /\ (dropped > 0)' = (dropped > 0)
  BY <1>3 DEF LastEmission, Recovery
<1>9. \A c \in Waiting : b.due <= c.due \/ c.due < clock
  BY <1>1, <1>7
<1> QED
  BY <1>3, <1>4, <1>5, <1>6, <1>8, <1>9 DEF Service!Commit

(* A radio that an error left emitting makes it give up the packet.         *)
LEMMA DequeueForgets ==
  ASSUME InStep, Dequeue, jit_pc' # "send"
  PROVE  Service!Forget
<1> DEFINE b == At(queue.nodes[pkt_index])
<1>1. OnceInv /\ Spread /\ Recent /\ jit_pc = "dequeue" /\ pkt_index \in DOMAIN queue.nodes
  BY DEF InStep, QueueInOrder, Steady, Dequeue, OnceInv, IInv, QueueInv, Held
<1>2. dropped \in Nat /\ faults \in Nat
  BY <1>1, SteadyNumbers
<1>3. queue.nodes[pkt_index].pkt_type # BEACON
  BY <1>1, QueuedPacket
<1>4. /\ clock' = clock /\ aired' = aired /\ faults' = faults /\ jit_pc' = "delay"
      /\ dropped' = dropped + 1 /\ tx_status = "EMITTING"
  BY <1>3 DEF Dequeue, RadioBusy, Rest
<1>5. faults > 0
  BY <1>1, <1>2, <1>4 DEF Recent
<1>6. Committed = {} /\ Committed' = {} /\ LastEmission' = LastEmission
      /\ (faults > 0)' = (faults > 0) /\ (dropped > 0)' = TRUE
  BY <1>1, <1>2, <1>4 DEF Committed, LastEmission, Recovery
<1>7. b \in Waiting /\ Waiting' = Waiting \ {b}
  BY DequeueSeen
<1> HIDE DEF b
<1>8. Waiting' \subseteq Waiting /\ Waiting' # Waiting
  BY <1>7
<1> QED
  BY <1>4, <1>5, <1>6, <1>8 DEF Service!Forget

(* The emission that keeps thread_jit away is the last one that the service *)
(* knows of.                                                                *)
LEMMA AwayAfterLast ==
  ASSUME InStep, NEW t \in Int, t <= clock + TCXO_STARTUP,
         Tardy(clock - PERIOD), ~(faults > 0)
  PROVE  /\ Service!Away(t)
         /\ \E e \in aired : LastEmission = [due |-> e.due, stop |-> e.stop]
<1>1. OnceInv
  BY DEF InStep, QueueInOrder
<1>2. /\ clock \in Nat /\ tx_end \in Int /\ PERIOD \in Nat /\ TCXO_STARTUP \in Nat
      /\ Recovery = 3 * PERIOD + TCXO_STARTUP /\ dropped \in Nat
  BY <1>1, SteadyNumbers DEF Recovery
<1>3. /\ aired # {}
      /\ \/ clock - PERIOD <= tx_end + 2 * PERIOD
         \/ dropped > 0 /\ clock - PERIOD <= tx_end + 3 * PERIOD
  BY DEF Tardy, JustBack
<1>4. PICK e \in aired : e.stop = tx_end /\ LastEmission = [due |-> e.due, stop |-> e.stop]
  BY <1>3, LastSeen
<1>5. LastEmission.stop = tx_end
  BY <1>4
<1>6. t <= tx_end + Recovery + (IF dropped > 0 THEN PERIOD ELSE 0)
  BY <1>2, <1>3
<1> QED
  BY <1>4, <1>5, <1>6 DEF Service!Away

(* The emission.                                                            *)
LEMMA SetTxAirs ==
  ASSUME InStep, SetTx, InStep'
  PROVE  Service!Air
<1>1. /\ OnceInv /\ CanWait /\ StartsInTime /\ AirFree /\ Answered /\ Status
      /\ Waiting = {At(queue.nodes[i]) : i \in DOMAIN queue.nodes}
      /\ Committed = IF jit_pc \in {"send", "wait"} THEN {At(pkt)} ELSE {}
  BY Seen DEF InStep, QueueInOrder, Steady, OnceInv, IInv, Line
<1>2. /\ Waiting' = {At(queue'.nodes[i]) : i \in DOMAIN queue'.nodes}
      /\ Committed' = IF jit_pc' \in {"send", "wait"} THEN {At(pkt')} ELSE {}
  BY SeenNext
<1>3. /\ clock' = clock /\ queue' = queue /\ faults' = faults /\ dropped' = dropped
      /\ jit_pc = "wait" /\ jit_pc' = "emit" /\ Departing
      /\ tx_end' = clock + TCXO_STARTUP + pkt.post_delay
  BY DEF SetTx
<1>4. /\ Waiting' = Waiting /\ Committed = {At(pkt)} /\ Committed' = {}
      /\ (faults > 0)' = (faults > 0) /\ (dropped > 0)' = (dropped > 0)
  BY <1>1, <1>2, <1>3
<1> DEFINE a   == Instant(pkt.count_us)
           new == [pkt |-> pkt.pkt, pkt_type |-> pkt.pkt_type,
                   due |-> clock + Signed(Minus(pkt.count_us, Now)),
                   start |-> clock + TCXO_STARTUP, stop |-> tx_end']
           late == clock + TCXO_STARTUP - a
<1>5. /\ clock \in Nat /\ a \in Nat /\ pkt.post_delay \in Nat /\ faults \in Nat
      /\ tx_end \in Int /\ PERIOD \in Nat /\ TCXO_STARTUP \in Nat
  BY <1>1, <1>3, PktPacket, SteadyNumbers DEF InFlight
<1>6. /\ clock <= a /\ a <= Horizon
      /\ clock + TCXO_STARTUP <= a \/ Tardy(clock - PERIOD)
  BY <1>1, <1>3 DEF CanWait
<1>7. Signed(Minus(pkt.count_us, Now)) = a - clock
  BY <1>1, <1>3, <1>6, WaitingLead
<1>8. late \in 0 .. TCXO_STARTUP
  <2>1. a - clock <= TCXO_STARTUP
    BY <1>3, <1>7 DEF Departing
  <2> HIDE DEF a
  <2> QED
    BY <1>5, <1>6, <2>1
<1>9. new.due = a /\ new.start = clock + TCXO_STARTUP /\ new.stop = tx_end'
  <2>1. clock + (a - clock) = a
    <3> HIDE DEF a
    <3> QED
      BY <1>5
  <2> QED
    BY <1>7, <2>1
<1>10. aired' = aired \cup {new}
  BY DEF SetTx
<1> HIDE DEF new
<1>11. LastEmission' = [due |-> a, stop |-> tx_end']
  <2>1. \A f \in aired : f.start \in Int /\ f.start < new.start
    BY <1>1, <1>3, <1>5, <1>9 DEF Status, AirFree, Answered
  <2> DEFINE g == CHOOSE g \in aired' : \A f \in aired' : f.start <= g.start
  <2>2. g \in aired' /\ \A f \in aired' : f.start <= g.start
    <3>1. new \in aired' /\ \A f \in aired' : f.start <= new.start
      BY <1>5, <1>9, <1>10, <2>1
    <3> QED
      BY <3>1
  <2>3. LastEmission' = [due |-> g.due, stop |-> g.stop]
    BY <1>10 DEF LastEmission
  <2> HIDE DEF g
  <2>4. g = new
    BY <1>5, <1>9, <1>10, <2>1, <2>2
  <2> QED
    BY <1>9, <2>3, <2>4
<1>12. \/ late = 0
       \/ faults > 0
       \/ LastEmission.due < a /\ Service!Away(clock + TCXO_STARTUP)
  <2>1. CASE clock + TCXO_STARTUP <= a
    <3>1. late = 0
      <4> HIDE DEF a
      <4> QED
        BY <1>5, <1>8, <2>1
    <3> QED
      BY <3>1
  <2>2. CASE ~(clock + TCXO_STARTUP <= a) /\ ~(faults > 0)
    <3>1. Tardy(clock - PERIOD) /\ clock + TCXO_STARTUP \in Int /\ clock + TCXO_STARTUP <= clock + TCXO_STARTUP
      BY <1>5, <1>6, <2>2
    <3>2. Service!Away(clock + TCXO_STARTUP)
      BY <2>2, <3>1, AwayAfterLast
    <3>3. PICK e \in aired : LastEmission = [due |-> e.due, stop |-> e.stop]
      BY <2>2, <3>1, AwayAfterLast
    <3>4. e.stop \in Int /\ e.stop < clock /\ e.due \in Int /\ e.start \in Int /\ e.start <= e.stop
      BY <1>1, <1>3 DEF Status, AirFree, Answered
    <3>5. e.due <= e.start
      BY <1>1, <1>5, <3>4 DEF StartsInTime
    <3>6. LastEmission.due = e.due
      BY <3>3
    <3> HIDE DEF a
    <3>7. e.due < a
      BY <1>5, <1>6, <3>4, <3>5
    <3> QED
      BY <3>2, <3>6, <3>7
  <2> QED
    BY <2>1, <2>2
<1>13. At(pkt).due = a /\ At(pkt).stop = a + pkt.post_delay
  BY DEF At
<1> HIDE DEF a
<1>14. tx_end' = At(pkt).stop + late /\ late \in Int /\ (late = 0 \/ late \in 1 .. TCXO_STARTUP)
  BY <1>3, <1>5, <1>8, <1>13
<1> HIDE DEF late
<1>15. LET l == clock + TCXO_STARTUP - At(pkt).due
       IN  /\ \/ l = 0
              \/ /\ l \in 1 .. TCXO_STARTUP
                 /\ faults > 0 \/ (LastEmission.due < At(pkt).due /\ Service!Away(clock + TCXO_STARTUP))
           /\ LastEmission' = [due |-> At(pkt).due, stop |-> At(pkt).stop + l]
  BY <1>11, <1>12, <1>13, <1>14 DEF late
<1> QED
  BY <1>3, <1>4, <1>15 DEF Service!Air

(* A packet that jit_peek finds outdated lies past the horizon, or was      *)
(* missed because the last emission or an error kept thread_jit away.       *)
LEMMA OutdatedMissed ==
  ASSUME InStep, Peek, NEW i \in DOMAIN queue.nodes, Outdated(queue.nodes[i], jit_time)
  PROVE  LET b == At(queue.nodes[i])
         IN  \/ faults > 0
             \/ b.due >= clock + TX_MAX_ADVANCE_DELAY
             \/ LastEmission.due < b.due + TX_JIT_DELAY /\ Service!Away(b.due)
<1> DEFINE a == Instant(queue.nodes[i].count_us)
           l == Lead(queue.nodes[i], jit_time)
<1>1. OnceInv /\ Spread /\ Recent /\ CanWait /\ Answered /\ jit_pc = "peek" /\ jit_time = Now
  BY DEF InStep, QueueInOrder, Steady, OnceInv, Line, InTime, Peek
<1>2. queue.nodes[i].count_us \in Time /\ a \in Nat /\ At(queue.nodes[i]).due = a
  BY <1>1, QueuedPacket DEF At
<1>3. clock \in Time /\ clock \in Nat /\ PERIOD \in Nat /\ TCXO_STARTUP \in Nat /\ TX_JIT_DELAY \in Nat
  BY <1>1, SteadyNumbers DEF OnceInv, IInv, QueueInv, TypeOK
<1>4. l >= TX_MAX_ADVANCE_DELAY /\ l = IF a >= clock THEN a - clock ELSE M - (clock - a)
  BY <1>1, <1>2, <1>3, LeadOfInstant DEF Outdated, Lead, Now
<1>5. CASE a >= clock
  <2> HIDE DEF a, l
  <2>1. a >= clock + TX_MAX_ADVANCE_DELAY
    BY <1>2, <1>3, <1>4, <1>5, Sizes DEF a
  <2> QED
    BY <1>2, <2>1
<1>6. CASE ~(a >= clock) /\ ~(faults > 0)
  <2>1. MayRest(clock - PERIOD)
    BY <1>1 DEF CanWait
  <2>2. ~Ahead(clock - PERIOD + PERIOD + TCXO_STARTUP)
    <3> HIDE DEF a
    <3>1. ~(clock - PERIOD + PERIOD + TCXO_STARTUP <= a)
      BY <1>2, <1>3, <1>6 DEF a
    <3> QED
      BY <3>1 DEF Ahead, a
  <2>3. Tardy(clock - PERIOD)
    BY <2>1, <2>2 DEF MayRest, Tardy
  <2>4. a \in Int /\ a <= clock + TCXO_STARTUP
    <3> HIDE DEF a
    <3> QED
      BY <1>2, <1>3, <1>6 DEF a
  <2>5. Service!Away(a)
    BY <1>6, <2>3, <2>4, AwayAfterLast
  <2>6. PICK e \in aired : LastEmission = [due |-> e.due, stop |-> e.stop]
    BY <1>6, <2>3, <2>4, AwayAfterLast
  <2>7. e.due \in Int /\ e.due - TX_JIT_DELAY + 1 <= a
    BY <1>1 DEF Answered, Recent, Ahead
  <2>8. LastEmission.due = e.due
    BY <2>6
  <2> HIDE DEF a
  <2>9. e.due < a + TX_JIT_DELAY
    BY <1>3, <2>4, <2>7
  <2> QED
    BY <1>2, <2>5, <2>8, <2>9
<1> QED
  BY <1>5, <1>6

(* jit_peek leaves the queue as it is, or drops what the service allows to  *)
(* forget.                                                                  *)
LEMMA PeekForgets ==
  ASSUME InStep, Peek
  PROVE  Service!Forget \/ UNCHANGED Service!vars
<1> DEFINE K == PeekKept(queue.nodes, jit_time)
           s == queue'.nodes
<1>1. /\ OnceInv
      /\ \A i \in DOMAIN queue.nodes : SlotOf(queue.nodes[i]) = At(queue.nodes[i])
      /\ Waiting = {At(queue.nodes[i]) : i \in DOMAIN queue.nodes}
  BY Seen DEF InStep, QueueInOrder
<1>2. /\ queue.nodes \in Seq(Node) /\ s \in Seq(Node) /\ s \in Sorted(queue.nodes, K)
      /\ K \in SUBSET DOMAIN queue.nodes /\ Len(s) <= Len(queue.nodes)
      /\ K # DOMAIN queue.nodes => Len(s) < Len(queue.nodes)
  BY <1>1, PeekLeaves
<1>3. /\ clock' = clock /\ aired' = aired /\ faults' = faults /\ jit_pc = "peek"
      /\ jit_pc' \in {"delay", "dequeue"}
      /\ dropped' = dropped + (Len(queue.nodes) - Len(s))
  BY DEF Peek, Rest
<1>4. /\ Committed = {} /\ Committed' = {} /\ LastEmission' = LastEmission
      /\ (faults > 0)' = (faults > 0)
  BY <1>3 DEF Committed, LastEmission, Recovery
<1>5. PICK f \in Bijection(DOMAIN s, K) : \A i \in DOMAIN s : s[i] = queue.nodes[f[i]]
  BY <1>2, SortedOnto
<1>6. f \in [DOMAIN s -> K] /\ \A k \in K : \E i \in DOMAIN s : f[i] = k
  BY DEF Bijection, Injection, Surjection
<1>7. Waiting' = {At(queue.nodes[k]) : k \in K}
  <2>1. Waiting' = {SlotOf(s[i]) : i \in DOMAIN s}
    BY <1>3 DEF Waiting, SlotOf, Due, Now
  <2>2. \A i \in DOMAIN s : SlotOf(s[i]) = At(s[i])
    BY <1>1, <1>2, <1>5, <1>6
  <2> QED
    BY <1>5, <1>6, <2>1, <2>2
<1>8. dropped \in Nat /\ Len(s) \in Nat /\ Len(queue.nodes) \in Nat
  BY <1>1, <1>2, SteadyNumbers
<1>9. CASE K = DOMAIN queue.nodes
  <2>1. Waiting' = Waiting
    BY <1>1, <1>7, <1>9
  <2>2. Len(s) = Len(queue.nodes)
    <3>1. Len(s) = Cardinality(K)
      BY <1>2, SortedNodes
    <3>2. Cardinality(DOMAIN queue.nodes) = Len(queue.nodes)
      BY <1>2, IntervalCard
    <3> QED
      BY <1>9, <3>1, <3>2
  <2>3. dropped' = dropped
    <3> HIDE DEF s
    <3> QED
      BY <1>3, <1>8, <2>2
  <2> QED
    BY <1>3, <1>4, <2>1, <2>3 DEF Service!vars
<1>10. CASE K # DOMAIN queue.nodes
  <2>1. PICK k \in DOMAIN queue.nodes : k \notin K
    BY <1>2, <1>10
  <2>2. Waiting' \subseteq Waiting /\ Waiting' # Waiting
    <3>1. Waiting' \subseteq Waiting
      BY <1>1, <1>2, <1>7
    <3>2. \A j \in K : At(queue.nodes[j]) # At(queue.nodes[k])
      BY <1>2, <2>1, SeenApart
    <3>3. At(queue.nodes[k]) \in Waiting /\ At(queue.nodes[k]) \notin Waiting'
      BY <1>1, <1>7, <3>2
    <3> QED
      BY <3>1, <3>3
  <2>3. (dropped > 0)' = TRUE
    <3> DEFINE n == Len(queue.nodes)
               m == Len(s)
    <3>1. m < n /\ m \in Nat /\ n \in Nat /\ dropped' = dropped + (n - m)
      BY <1>2, <1>3, <1>8, <1>10
    <3> HIDE DEF n, m
    <3>2. dropped' > 0
      BY <1>8, <3>1
    <3> QED
      BY <3>2
  <2>4. \A b \in Waiting \ Waiting' :
          \/ faults > 0
          \/ b.due >= clock + TX_MAX_ADVANCE_DELAY
          \/ LastEmission.due < b.due + TX_JIT_DELAY /\ Service!Away(b.due)
    <3> SUFFICES ASSUME NEW b \in Waiting, b \notin Waiting'
                 PROVE  \/ faults > 0
                        \/ b.due >= clock + TX_MAX_ADVANCE_DELAY
                        \/ LastEmission.due < b.due + TX_JIT_DELAY /\ Service!Away(b.due)
      OBVIOUS
    <3>1. PICK i \in DOMAIN queue.nodes : b = At(queue.nodes[i])
      BY <1>1
    <3>2. i \notin K
      BY <1>7, <3>1
    <3>3. Outdated(queue.nodes[i], jit_time)
      BY <3>2 DEF PeekKept
    <3> QED
      BY <3>1, <3>3, OutdatedMissed
  <2>5. Service!Forget
    BY <1>3, <1>4, <2>2, <2>3, <2>4 DEF Service!Forget
  <2> QED
    BY <2>5
<1> QED
  BY <1>9, <1>10

(* The radio refuses the packet, or fails.                                  *)
LEMMA RefuseOrBreak ==
  ASSUME InStep
  PROVE  /\ Refuse => Service!Refuse
         /\ RadioFault => Service!Break
<1>1. /\ OnceInv
      /\ Committed = IF jit_pc \in {"send", "wait"} THEN {At(pkt)} ELSE {}
  BY Seen DEF InStep, QueueInOrder
<1>2. ASSUME Refuse \/ RadioFault
      PROVE  /\ Waiting' = Waiting /\ Committed' = {} /\ LastEmission' = LastEmission
             /\ clock' = clock /\ (dropped > 0)' = (dropped > 0)
  <2>1. /\ clock' = clock /\ queue' = queue /\ aired' = aired /\ dropped' = dropped
        /\ jit_pc' = "delay"
    BY <1>2 DEF Refuse, RadioFault, Rest
  <2>2. Waiting' = Waiting
    BY <2>1 DEF Waiting, SlotOf, Due, Now
  <2> QED
    BY <2>1, <2>2 DEF Committed, LastEmission, Recovery
<1>3. ASSUME Refuse PROVE Service!Refuse
  <2>1. jit_pc = "send" /\ ~(pkt.post_delay > 0) /\ faults' = faults
    BY <1>3 DEF Refuse, Emittable
  <2>2. pkt.post_delay \in Nat /\ Instant(pkt.count_us) \in Nat
    BY <1>1, <2>1, PktPacket DEF InFlight
  <2>3. Committed = {At(pkt)} /\ At(pkt).due = Instant(pkt.count_us)
        /\ At(pkt).stop = Instant(pkt.count_us) + pkt.post_delay
    BY <1>1, <2>1 DEF At
  <2>4. pkt.post_delay = 0
    BY <2>1, <2>2
  <2>5. At(pkt).stop = At(pkt).due
    BY <2>2, <2>3, <2>4
  <2> QED
    BY <1>2, <1>3, <2>1, <2>3, <2>5 DEF Service!Refuse
<1>4. ASSUME RadioFault PROVE Service!Break
  <2>1. faults' = faults + 1 /\ faults \in Nat
    BY <1>1, <1>4, SteadyNumbers DEF RadioFault
  <2>2. (faults > 0)' = TRUE
    BY <2>1
  <2> QED
    BY <1>2, <1>4, <2>2 DEF Service!Break
<1> QED
  BY <1>3, <1>4

(* Time passes for the service as well.                                     *)
LEMMA TickTicks ==
  ASSUME InStep, Tick, InStep'
  PROVE  Service!Tick
<1>1. /\ OnceInv /\ Spread /\ CanWait
      /\ Waiting = {At(queue.nodes[i]) : i \in DOMAIN queue.nodes}
      /\ Committed = IF jit_pc \in {"send", "wait"} THEN {At(pkt)} ELSE {}
  BY Seen DEF InStep, QueueInOrder, Steady
<1>2. /\ Waiting' = {At(queue'.nodes[i]) : i \in DOMAIN queue'.nodes}
      /\ Committed' = IF jit_pc' \in {"send", "wait"} THEN {At(pkt')} ELSE {}
  BY SeenNext
<1>3. /\ clock' = clock + 1 /\ queue' = queue /\ jit_pc' = jit_pc /\ pkt' = pkt /\ aired' = aired
      /\ faults' = faults /\ dropped' = dropped /\ jit_pc # "send" /\ (jit_pc = "wait" => ~Departing)
  BY DEF Tick, jitVars
<1>4. /\ Waiting' = Waiting /\ Committed' = Committed /\ LastEmission' = LastEmission
      /\ (faults > 0)' = (faults > 0) /\ (dropped > 0)' = (dropped > 0)
  BY <1>1, <1>2, <1>3 DEF LastEmission, Recovery
<1>5. ASSUME jit_pc = "wait" PROVE clock < At(pkt).due - TCXO_STARTUP
  <2> DEFINE a == Instant(pkt.count_us)
  <2>1. /\ clock \in Nat /\ clock \in Time /\ a \in Nat /\ pkt.count_us \in Time
        /\ TCXO_STARTUP \in Nat /\ Horizon \in Nat
    BY <1>1, <1>5, PktPacket, SteadyNumbers DEF InFlight, OnceInv, IInv, QueueInv, TypeOK
  <2>2. clock <= a /\ a <= Horizon
    BY <1>1, <1>5 DEF CanWait
  <2>3. Minus(pkt.count_us, Now) = IF a >= clock THEN a - clock ELSE M - (clock - a)
    BY <2>1, LeadOfInstant DEF Now
  <2> HIDE DEF a
  <2>4. Minus(pkt.count_us, Now) = a - clock /\ 2 * (a - clock) < M
    BY <2>1, <2>2, <2>3, Sizes
  <2>5. Signed(Minus(pkt.count_us, Now)) = a - clock
    BY <2>4 DEF Signed
  <2>6. ~(a - clock <= TCXO_STARTUP)
    BY <1>3, <1>5, <2>5 DEF Departing
  <2>7. clock < a - TCXO_STARTUP
    BY <2>1, <2>6
  <2> QED
    BY <2>7 DEF a, At
<1>6. ASSUME NEW i \in DOMAIN queue.nodes
      PROVE  clock + 1 <= At(queue.nodes[i]).due + Grace
  <2> DEFINE a == Instant(queue.nodes[i].count_us)
  <2>1. /\ a \in Nat /\ clock \in Nat /\ PERIOD \in Nat \ {0} /\ Grace \in Nat
    <3>1. Grace \in Nat
      BY <1>1, SteadyNumbers, Sizes DEF Grace
    <3> QED
      BY <1>1, <3>1, QueuedPacket, SteadyNumbers, TimingAssumption
  <2>2. clock + PERIOD <= a + Grace
    BY LeftBehind
  <2>3. At(queue.nodes[i]).due = a
    BY DEF At
  <2> HIDE DEF a
  <2>4. clock + 1 <= a + Grace
    BY <2>1, <2>2
  <2> QED
    BY <2>3, <2>4
<1>7. \A f \in Committed : clock < f.due - TCXO_STARTUP
  BY <1>1, <1>3, <1>5
<1>8. \A b \in Waiting : clock + 1 <= b.due + Grace
  BY <1>1, <1>6
<1> QED
  BY <1>3, <1>4, <1>7, <1>8 DEF Service!Tick

(* The other steps do not concern the service.                              *)
LEMMA Hidden ==
  ASSUME (\E id \in Payload : Receive(id)) \/ Wake \/ Configure \/ Poll \/ BackToRx \/ Over
           \/ UNCHANGED vars
  PROVE  UNCHANGED Service!vars
<1>1. /\ clock' = clock /\ queue' = queue /\ aired' = aired /\ faults' = faults
      /\ dropped' = dropped
  BY DEF Receive, Wake, Configure, Poll, BackToRx, Over, vars, jitVars
<1>2. Waiting' = Waiting
  BY <1>1 DEF Waiting, SlotOf, Due, Now
<1>3. \/ jit_pc' = jit_pc /\ pkt' = pkt
      \/ jit_pc \in {"send", "wait"} /\ jit_pc' \in {"send", "wait"} /\ pkt' = pkt
      \/ jit_pc \notin {"send", "wait"} /\ jit_pc' \notin {"send", "wait"}
  BY DEF Receive, Wake, Configure, Poll, BackToRx, Over, vars, jitVars, Rest
<1>4. Committed' = Committed
  BY <1>1, <1>3 DEF Committed, SlotOf, Due, Now
<1> QED
  BY <1>1, <1>2, <1>4 DEF Service!vars, LastEmission, Recovery

(* Every step of the two threads is one that the service allows, or one that*)
(* it does not see.                                                         *)
LEMMA StepImplements ==
  ASSUME InStep, [Next]_vars, dropped' = dropped => InStep'
  PROVE  Service!Next \/ UNCHANGED Service!vars
<1>1. CASE (\E id \in Payload : Receive(id)) \/ Wake \/ Configure \/ Poll \/ BackToRx \/ Over
             \/ UNCHANGED vars
  BY <1>1, Hidden
<1>2. CASE Enqueue
  <2>1. dropped' = dropped
    BY <1>2 DEF Enqueue
  <2> QED
    BY <1>2, <2>1, EnqueueBooks DEF Service!Next
<1>3. CASE Peek
  BY <1>3, PeekForgets DEF Service!Next
<1>4. CASE Dequeue
  <2>1. jit_pc' = "send" => dropped' = dropped
    BY <1>4 DEF Dequeue, Rest
  <2> QED
    BY <1>4, <2>1, DequeueCommits, DequeueForgets DEF Service!Next
<1>5. CASE SetTx
  <2>1. dropped' = dropped
    BY <1>5 DEF SetTx
  <2> QED
    BY <1>5, <2>1, SetTxAirs DEF Service!Next
<1>6. CASE Refuse \/ RadioFault
  BY <1>6, RefuseOrBreak DEF Service!Next
<1>7. CASE Tick
  <2>1. dropped' = dropped
    BY <1>7 DEF Tick
  <2> QED
    BY <1>7, <2>1, TickTicks DEF Service!Next
<1> QED
  BY <1>1, <1>2, <1>3, <1>4, <1>5, <1>6, <1>7 DEF Next, ThreadDown, ThreadJit

(* A run begins as the service does.                                        *)
LEMMA BeginsAsService == Init => Service!Init
<1> SUFFICES ASSUME Init PROVE Service!Init
  OBVIOUS
<1>1. DOMAIN queue.nodes = {} /\ aired = {} /\ jit_pc = "delay" /\ clock = 0
      /\ faults = 0 /\ dropped = 0
  BY DEF Init, EmptyQueue
<1>2. Waiting = {} /\ Committed = {}
  BY <1>1 DEF Waiting, Committed
<1>3. LastEmission = Service!Silence
  BY <1>1 DEF LastEmission, Service!Silence
<1>4. (faults > 0) = FALSE /\ (dropped > 0) = FALSE
  BY <1>1
<1> QED
  BY <1>1, <1>2, <1>3, <1>4 DEF Service!Init

(* The service, up to and including the first packet that is given up.      *)
ServiceAtFirst == Service!Init /\ [][dropped = 0 => [Service!Next]_(Service!vars)]_vars

(* Up to the first packet that is given up, this one included, and with any *)
(* radio errors, every step of the two threads is one that the service      *)
(* allows, or one that it does not see: a packet that leaves the queue is on*)
(* the air in time or has one of the reasons of the service not to be.      *)
THEOREM ImplementsService == Spec => ServiceAtFirst
<1>1. SteadyAtFirst /\ SteadyAtFirst' /\ [Next]_vars
        => [dropped = 0 => [Service!Next]_(Service!vars)]_vars
  <2> SUFFICES ASSUME SteadyAtFirst, SteadyAtFirst', [Next]_vars, dropped = 0
               PROVE  Service!Next \/ UNCHANGED Service!vars
    OBVIOUS
  <2>1. InStep /\ (dropped' = dropped => InStep')
    BY DEF SteadyAtFirst, InStep
  <2> QED
    BY <2>1, StepImplements
<1> QED
  BY <1>1, BeginsAsService, SteadyAtFirstInvariance, PTL DEF Spec, ServiceAtFirst

(* Runs in which jit_peek takes out every packet that was missed: the one   *)
(* that it skips, behind a head that it drops, was not missed itself.       *)
Purged == [][Purges]_vars

(* In such a run thread_down and thread_jit implement the service to the    *)
(* end, over packets given up and radio errors, for any requests and timing,*)
(* and for packets of any length.                                           *)
THEOREM ImplementsServicePurged == Spec /\ Purged => Refines
<1>1. InStep /\ [Next]_vars /\ [Purges]_vars => InStep'
  <2> SUFFICES ASSUME InStep, [Next]_vars, [Purges]_vars PROVE InStep'
    OBVIOUS
  <2>1. QueueInOrder /\ Steady
    BY DEF InStep
  <2>2. Purges
    <3>1. CASE UNCHANGED vars
      <4>1. jit_pc' = jit_pc
        BY <3>1 DEF vars, jitVars
      <4>2. ~Peek
        BY <4>1 DEF Peek, Rest
      <4> QED
        BY <4>2 DEF Purges
    <3> QED
      BY <3>1
  <2>3. QueueInOrder'
    BY <2>1, InOrderInductive
  <2>4. Steady'
    BY <2>1, <2>2, SteadyInductive
  <2> QED
    BY <2>3, <2>4 DEF InStep
<1>2. InStep /\ InStep' /\ [Next]_vars => [Service!Next]_(Service!vars)
  BY StepImplements
<1>3. Init => InStep
  BY InOrderInitially, SteadyInitially DEF InStep
<1> QED
  BY <1>1, <1>2, <1>3, BeginsAsService, PTL DEF Spec, Purged, Refines, Service!Spec
=============================================================================
