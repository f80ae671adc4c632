---------------------------- MODULE JitQueueOps ----------------------------
(***************************************************************************)
(* The just-in-time downlink queue of the hub (lorahub/main/jitqueue.c):   *)
(* what jit_enqueue, jit_dequeue and jit_peek compute.  The modules        *)
(* JitQueue (the queue under arbitrary calls) and Downlink (the two        *)
(* threads that share it) turn these operators into actions.               *)
(*                                                                         *)
(* Every instant is a value of the 32-bit microsecond counter, which wraps *)
(* every 71 minutes; the modulus M stands for 2^32.  The delays of the     *)
(* code are constants, so that a small counter keeps their order.          *)
(***************************************************************************)
EXTENDS Integers, Sequences, FiniteSets

CONSTANTS
  M,                     \* the counter takes the values 0 .. M-1
  TX_START_DELAY,        \* time the radio needs to start an emission
  TX_MARGIN_DELAY,       \* margin between two emissions
  TX_JIT_DELAY,          \* lead with which a packet is handed to the radio
  TX_MAX_ADVANCE_DELAY,  \* horizon beyond which a packet is not plausible
  BEACON_GUARD,          \* interval kept free before a beacon
  BEACON_RESERVED,       \* time on air of a beacon
  ASAP_DELAY,            \* the "1 second margin" of an immediate downlink
  JIT_QUEUE_MAX,         \* capacity of the queue
  Payload,               \* identities of the packets
  TimeOnAir,             \* the times on air lgw_time_on_air can return
  PktTypes               \* the packet types the callers use

CLASS_A == "CLASS_A"
CLASS_B == "CLASS_B"
CLASS_C == "CLASS_C"
BEACON  == "BEACON"

Time  == 0 .. M-1
Delay == 0 .. M-1

ASSUME CounterAssumption == M \in Nat /\ M > 1

ASSUME DelayAssumption ==
  /\ TX_START_DELAY \in Nat
  /\ TX_MARGIN_DELAY \in Nat
  /\ TX_JIT_DELAY \in Nat
  /\ TX_MAX_ADVANCE_DELAY \in Nat
  /\ BEACON_GUARD \in Nat
  /\ BEACON_RESERVED \in Nat
  /\ ASAP_DELAY \in Delay
  /\ TimeOnAir \subseteq Nat
  /\ \A post \in TimeOnAir \cup {BEACON_RESERVED} :
       TX_START_DELAY + BEACON_GUARD + TX_JIT_DELAY + post + TX_MARGIN_DELAY < M
  /\ TX_START_DELAY + 2 * TX_JIT_DELAY + TX_MARGIN_DELAY < M

ASSUME QueueAssumption ==
  /\ JIT_QUEUE_MAX \in Nat \ {0}
  /\ PktTypes \subseteq {CLASS_A, CLASS_B, CLASS_C, BEACON}

-----------------------------------------------------------------------------
(* 32-bit unsigned arithmetic, for operands that are counter values. *)

(* Definitions whose name has an underscore suffix, such as Plus_Unbounded,  *)
(* are mistakes the code could have made in the definition that follows.    *)
Plus_Unbounded(a, b) == a + b

Minus(a, b) == IF a >= b THEN a - b ELSE (a - b) + M
Plus(a, b)  == IF a + b < M THEN a + b ELSE (a + b) - M

NotAfter_Unsigned(a, b) == a <= b

(* compare(): the sign of the 32-bit difference of two counts. *)
NotAfter(a, b) == a = b \/ 2 * Minus(a, b) >= M

-----------------------------------------------------------------------------
(* struct jit_node_s and struct jit_queue_s. num_pkt is Len(nodes). *)

Node == [pkt        : Payload,
         count_us   : Time,
         pkt_type   : PktTypes,
         pre_delay  : Delay,
         post_delay : Delay]

EmptyQueue == [nodes |-> << >>, num_beacon |-> 0]

(* A packet as the caller hands it over; count_us is not used in class C. *)
Packet == [pkt : Payload, count_us : Time, pkt_type : PktTypes, toa : TimeOnAir]

PreDelay_NoJit(type) ==
  IF type = BEACON THEN TX_START_DELAY + BEACON_GUARD ELSE TX_START_DELAY

PreDelay(type) ==
  IF type = BEACON THEN TX_START_DELAY + BEACON_GUARD + TX_JIT_DELAY
                   ELSE TX_START_DELAY + TX_JIT_DELAY

PostDelay(p) == IF p.pkt_type = BEACON THEN BEACON_RESERVED ELSE p.toa

NodeOf(p, count) == [pkt        |-> p.pkt,
                     count_us   |-> count,
                     pkt_type   |-> p.pkt_type,
                     pre_delay  |-> PreDelay(p.pkt_type),
                     post_delay |-> PostDelay(p)]

-----------------------------------------------------------------------------
(* jit_sort_queue: the nodes at the positions K, in ascending order. The   *)
(* functions f are the permutations qsort_r may end with. The order is     *)
(* the circular one of compare(), between neighbours.                      *)

Ascending(s) ==
  \A k \in 1 .. Len(s)-1 : NotAfter(s[k].count_us, s[k+1].count_us)

Sorted(nodes, K) ==
  {s \in {[k \in 1 .. Cardinality(K) |-> nodes[f[k]]] :
            f \in {g \in [1 .. Cardinality(K) -> K] :
                     \A i, j \in 1 .. Cardinality(K) : g[i] = g[j] => i = j}} :
     Ascending(s)}

Beacons(nodes, K) == {i \in K : nodes[i].pkt_type = BEACON}

Keeping_Uncounted(q, K) ==
  {[nodes |-> s, num_beacon |-> q.num_beacon] : s \in Sorted(q.nodes, K)}

(* The queue that keeps the nodes at positions K and drops the others. *)
Keeping(q, K) ==
  {[nodes |-> s,
    num_beacon |-> q.num_beacon - Cardinality(Beacons(q.nodes, DOMAIN q.nodes \ K))] :
     s \in Sorted(q.nodes, K)}

-----------------------------------------------------------------------------
(* jit_enqueue *)

jit_collision_test_OneSided(p1, pre1, post1, p2, pre2, post2) ==
  Minus(p1, p2) <= pre1 + post2 + TX_MARGIN_DELAY

jit_collision_test(p1, pre1, post1, p2, pre2, post2) ==
  \/ Minus(p1, p2) <= pre1 + post2 + TX_MARGIN_DELAY
  \/ Minus(p2, p1) <= pre2 + post1 + TX_MARGIN_DELAY

(* Class A and C downlinks may use the guard time of a beacon. *)
TargetPreDelay(type, node) ==
  IF type \in {CLASS_A, CLASS_C} /\ node.pkt_type = BEACON
    THEN TX_START_DELAY
    ELSE node.pre_delay

Collides(new, node) ==
  jit_collision_test(new.count_us, new.pre_delay, new.post_delay,
                     node.count_us, TargetPreDelay(new.pkt_type, node), node.post_delay)

(* The class C search for a slot always counts the whole pre-delay. *)
Overlaps(new, node) ==
  jit_collision_test(new.count_us, new.pre_delay, new.post_delay,
                     node.count_us, node.pre_delay, node.post_delay)

(* time_us + 1E6 is computed in double and converted back to uint32_t: past *)
(* the end of the counter the conversion is undefined, and a build either   *)
(* wraps or saturates.                                                      *)
AsapCounts(time) ==
  IF time + ASAP_DELAY < M THEN {time + ASAP_DELAY}
                           ELSE {Plus(time, ASAP_DELAY), M - 1}

SlotAfter_NoMargin(node, pre) == Plus(Plus(node.count_us, node.post_delay), pre)

SlotAfter(node, pre) ==
  Plus(Plus(node.count_us, node.post_delay), pre + TX_JIT_DELAY + TX_MARGIN_DELAY)

(* Positions after which an immediate downlink fits before the next node;   *)
(* after the last node it is not tested.                                    *)
Gaps(nodes, p) ==
  {i \in DOMAIN nodes :
     i < Len(nodes) =>
       ~Overlaps(NodeOf(p, SlotAfter(nodes[i], PreDelay(p.pkt_type))), nodes[i+1])}

ClassCSlots(nodes, p, asap) ==
  IF \A i \in DOMAIN nodes : ~Overlaps(NodeOf(p, asap), nodes[i])
    THEN {asap}
    ELSE {SlotAfter(nodes[i], PreDelay(p.pkt_type)) :
            i \in {g \in Gaps(nodes, p) : \A h \in Gaps(nodes, p) : g <= h}}

(* The departure instants the packet may be given: its own, or for class C  *)
(* the first slot available from now on.                                    *)
Departures(q, time, p) ==
  IF p.pkt_type = CLASS_C
    THEN UNION {ClassCSlots(q.nodes, p, asap) : asap \in AsapCounts(time)}
    ELSE {p.count_us}

FirstHit(nodes, new) ==
  CHOOSE i \in DOMAIN nodes :
    Collides(new, nodes[i]) /\ \A j \in 1 .. i-1 : ~Collides(new, nodes[j])

JitVerdict(q, time, new) ==
  LET lead == Minus(new.count_us, time)
  IN  IF Len(q.nodes) = JIT_QUEUE_MAX THEN "FULL"
      ELSE IF lead <= TX_START_DELAY + TX_MARGIN_DELAY + TX_JIT_DELAY THEN "TOO_LATE"
      ELSE IF new.pkt_type \in {CLASS_A, CLASS_B} /\ lead > TX_MAX_ADVANCE_DELAY
        THEN "TOO_EARLY"
      ELSE IF \A i \in DOMAIN q.nodes : ~Collides(new, q.nodes[i]) THEN "OK"
      ELSE IF q.nodes[FirstHit(q.nodes, new)].pkt_type = BEACON
        THEN "COLLISION_BEACON" ELSE "COLLISION_PACKET"

Inserted(q, new) ==
  {[nodes |-> s,
    num_beacon |-> IF new.pkt_type = BEACON THEN q.num_beacon + 1 ELSE q.num_beacon] :
     s \in Sorted(Append(q.nodes, new), 1 .. Len(q.nodes) + 1)}

(* One call: the error code, and the queues it may leave. *)
JitEnqueue(q, time, p) ==
  UNION {LET new     == NodeOf(p, count)
             verdict == JitVerdict(q, time, new)
         IN  {[err |-> verdict, node |-> new, queue |-> q2] :
                q2 \in IF verdict = "OK" THEN Inserted(q, new) ELSE {q}} :
         count \in Departures(q, time, p)}

-----------------------------------------------------------------------------
(* jit_dequeue, for an index inside the queue *)

JitDequeue_Keeps(q, index) == {q}

JitDequeue(q, index) == Keeping(q, DOMAIN q.nodes \ {index})

-----------------------------------------------------------------------------
(* jit_peek                                                                *)

Lead_Signed(node, time) ==
  LET d == Minus(node.count_us, time) IN IF 2 * d < M THEN d ELSE d - M

Lead(node, time) == Minus(node.count_us, time)

Outdated_Never(node, time) == FALSE

Outdated(node, time) == Lead(node, time) >= TX_MAX_ADVANCE_DELAY

(* The loop drops the outdated nodes it meets. After a drop it restarts     *)
(* with i = 0 and `continue`, and the increment of the for loop takes it to *)
(* the second node: when the head was dropped, the node that replaces it is *)
(* not looked at in this call.                                              *)
HeadDropped(nodes, time) == nodes # << >> /\ Outdated(nodes[1], time)

PeekKept(nodes, time) ==
  {i \in DOMAIN nodes : IF i = 1 THEN ~Outdated(nodes[1], time)
                        ELSE \/ ~Outdated(nodes[i], time)
                             \/ i = 2 /\ HeadDropped(nodes, time)}

PeekIndex_RawCounts(kept, first, time) ==
  LET examined == {i \in DOMAIN kept : i >= first}
      due == {i \in examined :
                /\ Lead(kept[i], time) < TX_JIT_DELAY
                /\ \A j \in examined \ {i} : kept[i].count_us < kept[j].count_us}
  IN  IF due = {} THEN 0 ELSE CHOOSE i \in due : TRUE

(* The first examined node with the shortest lead, when that is below       *)
(* TX_JIT_DELAY; 0 stands for the -1 of the code.                           *)
PeekIndex(kept, first, time) ==
  LET examined == {i \in DOMAIN kept : i >= first}
      due      == {i \in examined :
                     /\ Lead(kept[i], time) < TX_JIT_DELAY
                     /\ \A j \in examined :
                          IF j < i THEN Lead(kept[i], time) < Lead(kept[j], time)
                                   ELSE Lead(kept[i], time) <= Lead(kept[j], time)}
  IN  IF due = {} THEN 0 ELSE CHOOSE i \in due : TRUE

JitPeek(q, time) ==
  {[queue |-> q2,
    index |-> PeekIndex(q2.nodes, IF HeadDropped(q.nodes, time) THEN 2 ELSE 1, time)] :
     q2 \in Keeping(q, PeekKept(q.nodes, time))}

=============================================================================
