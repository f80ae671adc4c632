------------------------------ MODULE JitQueue ------------------------------
(***************************************************************************)
(* The just-in-time queue as a component: one action per public function   *)
(* of jitqueue.h that changes it, called by anyone with the current time,  *)
(* and the counter that moves on between the calls. Every function runs    *)
(* under mx_jit_queue, so a call is one step. How the two threads of the   *)
(* packet forwarder interleave around the calls is the subject of Downlink.*)
(***************************************************************************)
EXTENDS JitQueueOps

CONSTANTS
  Leads,     \* distances from now of the timestamps that callers ask for
  Steps,     \* distances the counter moves between two calls
  MAX_LATE,  \* bound: how long a missed packet waits for the next peek
  LONGEST,   \* longest time on air of a packet or a beacon
  HORIZON    \* how far ahead of now a packet can be booked

ASSUME InputAssumption ==
  /\ Leads \subseteq Delay
  /\ Steps \subseteq Delay
  /\ MAX_LATE \in Nat

(* An immediate downlink fits between two packets that are further apart.   *)
WideGap == 2 * (LONGEST + TX_START_DELAY + TX_MARGIN_DELAY) + 3 * TX_JIT_DELAY + BEACON_GUARD

(* The packets of a queue lie within half a turn of the counter, where the  *)
(* order of compare() is total. Requests are within TX_MAX_ADVANCE_DELAY    *)
(* (512 s); immediate downlinks are put behind one another, which takes a   *)
(* full queue of packets of 9 s on air (SF12) about 670 s, of a half turn   *)
(* of 2147 s.                                                               *)
ASSUME SpanAssumption ==
  /\ LONGEST \in Nat /\ HORIZON \in Nat
  /\ \A post \in TimeOnAir \cup {BEACON_RESERVED} : post <= LONGEST
  /\ TX_MAX_ADVANCE_DELAY <= HORIZON
  /\ BEACON \in PktTypes => \A lead \in Leads : lead <= HORIZON
  /\ ASAP_DELAY + (JIT_QUEUE_MAX - 1) * WideGap <= HORIZON
  /\ 2 * (MAX_LATE + HORIZON) < M
  /\ \A d \in Steps : 2 * (MAX_LATE + d) < M

(* The slot behind a packet, and one second from now, are clear of the      *)
(* packet and late enough to be accepted.                                   *)
ASSUME SlotAssumption ==
  /\ TX_JIT_DELAY > 0
  /\ TX_JIT_DELAY <= TX_START_DELAY + BEACON_RESERVED + TX_MARGIN_DELAY
  /\ ASAP_DELAY > TX_START_DELAY + TX_MARGIN_DELAY + TX_JIT_DELAY

VARIABLES
  queue,   \* struct jit_queue_s
  now,     \* lgw_get_instcnt: the low 32 bits of the microsecond timer
  peeked   \* the index thread_jit holds from jit_peek, 0 when none

vars == <<queue, now, peeked>>

TypeOK ==
  /\ queue \in [nodes : Seq(Node), num_beacon : Int]
  /\ now \in Time
  /\ peeked \in Nat

-----------------------------------------------------------------------------
(* jit_queue_init *)
Init ==
  /\ queue = EmptyQueue
  /\ now \in Time
  /\ peeked = 0

(* thread_down may enqueue at any time, also between the peek and the       *)
(* dequeue of thread_jit: mx_jit_queue is released between the two calls.   *)
Enqueue(p) ==
  /\ queue' \in {r.queue : r \in JitEnqueue(queue, now, p)}
  /\ UNCHANGED <<now, peeked>>

Peek ==
  /\ peeked = 0
  /\ queue.nodes # << >>
  /\ \E r \in JitPeek(queue, now) : queue' = r.queue /\ peeked' = r.index
  /\ UNCHANGED now

(* Callers only pass the index that jit_peek returned.                      *)
Dequeue ==
  /\ peeked \in DOMAIN queue.nodes
  /\ queue' \in JitDequeue(queue, peeked)
  /\ peeked' = 0
  /\ UNCHANGED now

(* thread_jit peeks every 10 ms and dequeues at once: the counter does not  *)
(* move between the two. An emission keeps thread_jit away for longer: the  *)
(* bound MAX_LATE on how far the counter passes a missed packet is only     *)
(* that of SpanAssumption, a part of a half turn, and not that of a slot.   *)
Tick(d) ==
  /\ peeked = 0
  /\ now' = Plus(now, d)
  /\ \A i \in DOMAIN queue.nodes :
       LET late == Minus(now', queue.nodes[i].count_us)
       IN  2 * late < M => late <= MAX_LATE
  /\ UNCHANGED <<queue, peeked>>

Requests ==
  {[pkt |-> id, count_us |-> Plus(now, lead), pkt_type |-> type, toa |-> toa] :
     id \in Payload, lead \in Leads, type \in PktTypes, toa \in TimeOnAir}

Next ==
  \/ \E p \in Requests : Enqueue(p)
  \/ Peek
  \/ Dequeue
  \/ \E d \in Steps : Tick(d)

Spec == Init /\ [][Next]_vars

-----------------------------------------------------------------------------
(* Safety *)

(* The instants a queued packet keeps the radio busy: from the start of its *)
(* programming to the end of its time on air.                               *)
Airtime(node) ==
  {Plus(Minus(node.count_us, TX_START_DELAY), t) : t \in 0 .. TX_START_DELAY + node.post_delay}

(* Whatever sequence of calls built the queue, with class C slots searched  *)
(* between other packets and beacon guards ignored by class A and C, no     *)
(* instant of the counter, across its roll-over, is booked twice            *)
(* (jit_collision_test and the loop at the end of jit_enqueue).             *)
RadioNeverDoubleBooked ==
  \A i, j \in DOMAIN queue.nodes :
    i # j => Airtime(queue.nodes[i]) \cap Airtime(queue.nodes[j]) = {}

(* Among the packets that are not outdated, the position in the queue is    *)
(* the order of departure as seen from now, also when some counts have      *)
(* rolled over and some have not (compare, jit_sort_queue).                 *)
DueFirst ==
  \A i, j \in DOMAIN queue.nodes :
    /\ i < j
    /\ ~Outdated(queue.nodes[i], now)
    /\ ~Outdated(queue.nodes[j], now)
    => Lead(queue.nodes[i], now) < Lead(queue.nodes[j], now)

(* num_beacon is the number of beacons in the queue, whichever of enqueue,  *)
(* dequeue and the purge of jit_peek put them in or took them out, and the  *)
(* queue stays within its array.                                            *)
CountersMatch ==
  /\ queue.num_beacon = Cardinality(Beacons(queue.nodes, DOMAIN queue.nodes))
  /\ Len(queue.nodes) <= JIT_QUEUE_MAX

(* While no node is outdated, jit_peek answers exactly: an index if and     *)
(* only if some packet leaves within TX_JIT_DELAY, and then the index of    *)
(* the first packet to leave; and it removes nothing.                       *)
PeekExact ==
  (\A i \in DOMAIN queue.nodes : ~Outdated(queue.nodes[i], now)) =>
    \A r \in JitPeek(queue, now) :
      /\ r.queue = queue
      /\ r.index = 0 <=> \A i \in DOMAIN queue.nodes :
                           Lead(queue.nodes[i], now) >= TX_JIT_DELAY
      /\ r.index # 0 => \A i \in DOMAIN queue.nodes :
                          Lead(queue.nodes[r.index], now) <= Lead(queue.nodes[i], now)

(* The departure of a packet is now or to come, and not missed: on the      *)
(* circle of the counter, within the half turn ahead of now.                *)
Future(node) == 2 * Lead(node, now) < M

(* Whatever thread_down has inserted and re-sorted since the peek, the      *)
(* index that thread_jit holds never designates a packet that departs later *)
(* than a due one. It is the packet that is due, unless an immediate        *)
(* downlink was put in the past, behind a packet that was missed and that   *)
(* the peek left (jit_peek skips the second node after it has dropped the   *)
(* head, and the slot search of jit_enqueue does not compare with the       *)
(* time): what it designates then is a packet whose departure has passed.   *)
PeekedStaysDue ==
  peeked # 0 =>
    /\ peeked \in DOMAIN queue.nodes
    /\ Future(queue.nodes[peeked]) => Lead(queue.nodes[peeked], now) < TX_JIT_DELAY

(* While no packet is late and the counter does not roll over within the    *)
(* margin, the slot search of jit_enqueue always finds an immediate         *)
(* downlink a place: only a full queue refuses it.                          *)
ClassCFits ==
  (/\ now + ASAP_DELAY < M
   /\ \A i \in DOMAIN queue.nodes : Future(queue.nodes[i]))
  => \A p \in {q \in Requests : q.pkt_type = CLASS_C} :
       \A r \in JitEnqueue(queue, now, p) : r.err \in {"OK", "FULL"}

-----------------------------------------------------------------------------
(* Statements of the sources that the code does not keep *)

(* After it has dropped a packet, jit_peek says it will "restart loop after *)
(* purge to find packet to be sent": it returns an index whenever a packet  *)
(* leaves within TX_JIT_DELAY.                                              *)
PeekFindsDue ==
  \A r \in JitPeek(queue, now) :
    (\E i \in DOMAIN queue.nodes : Lead(queue.nodes[i], now) < TX_JIT_DELAY)
      => r.index # 0

(* jitqueue.c gives an immediate downlink "1 second margin" from now when   *)
(* the queue is empty, roll-over included.                                  *)
ClassCMargin ==
  queue.nodes = << >> =>
    \A p \in {q \in Requests : q.pkt_type = CLASS_C} :
      \A count \in Departures(queue, now, p) : Lead([count_us |-> count], now) = ASAP_DELAY

=============================================================================
