--------------------------- MODULE DownlinkProofs ---------------------------
(***************************************************************************)
(* Theorems about Downlink, for every timing of the two threads, any number*)
(* of requests and of radio errors: the types, that the radio is never told*)
(* to emit while it emits, and that every request is accounted for; and    *)
(* what a PULL_RESP with a timestamp may expect of the radio: it is emitted*)
(* at most once, however often the network delivers it, and at its         *)
(* timestamp or later by no more than the start of the oscillator. The     *)
(* queue is in the order of departure, so whatever thread_down adds between*)
(* jit_peek and jit_dequeue, thread_jit does not take a packet whose       *)
(* timestamp has passed.                                                   *)
(***************************************************************************)
EXTENDS Downlink, JitQueueLemmas

(* A PULL_RESP as thread_down has parsed it: only one with a frequency of   *)
(* the region has a time on air.                                            *)
Parsed(p) ==
  /\ p.pkt \in Payload /\ p.count_us \in Time /\ p.pkt_type \in PktTypes
  /\ p.freq_ok => p.toa \in TimeOnAir

(* What thread_down is about to enqueue has been parsed and is in the band. *)
Requested ==
  /\ \A id \in Payload : requests[id] = NoRequest \/ Parsed(requests[id])
  /\ DOMAIN requests = Payload
  /\ down # Listening => Parsed(requests[down.id]) /\ requests[down.id].freq_ok

(* thread_down only adds to the queue: the index of jit_peek stays inside.  *)
Held == jit_pc = "dequeue" => pkt_index \in DOMAIN queue.nodes

QueueInv == TypeOK /\ SoundQueue(queue) /\ Requested /\ Held

(* tx_status along lgw_send; an earlier call that failed may have left it   *)
(* EMITTING, and then no packet passes the test of thread_jit.              *)
Status ==
  /\ jit_pc = "send" => tx_status # "EMITTING"
  /\ jit_pc = "wait" => tx_status = "SCHEDULED"
  /\ jit_pc \in {"emit", "done"} => tx_status = "EMITTING"

(* No emission outlasts the last one; thread_jit is past TX_DONE when it    *)
(* returns to reception; and once the status says so, the air is free.      *)
AirFree ==
  /\ tx_end \in Int
  /\ \A e \in aired : e.start \in Int /\ e.stop \in Int /\ e.stop <= tx_end
  /\ jit_pc = "done" => tx_end <= since
  /\ tx_status # "EMITTING" => \A e \in aired : e.stop < clock

IInv == QueueInv /\ Status /\ AirFree /\ OneEmission /\ TxAccounted

-----------------------------------------------------------------------------
(* The current time is a value of the counter.                              *)
LEMMA NowType == TypeOK => Now \in Time
BY TimingAssumption, PlusType DEF TypeOK, Now, Time, Delay

(* Whatever the server asks for is a request that can be parsed.            *)
LEMMA NewRequestsParsed ==
  ASSUME TypeOK, NEW id \in Payload, NEW p \in NewRequests(id)
  PROVE  Parsed(p)
<1>1. \A lead \in Leads : Plus(Now, lead) \in Time
  BY NowType, PlusType, TimingAssumption
<1>2. 0 \in Time
  BY CounterAssumption DEF Time
<1>3. CLASS_A \in PktTypes /\ CLASS_C \in PktTypes
  BY TimingAssumption
<1>4. CASE \E lead \in Leads, toa \in TimeOnAir :
             p = [pkt |-> id, count_us |-> Plus(Now, lead), pkt_type |-> CLASS_A,
                  toa |-> toa, freq_ok |-> TRUE]
  BY <1>1, <1>3, <1>4 DEF Parsed
<1>5. CASE \E toa \in TimeOnAir :
             p = [pkt |-> id, count_us |-> 0, pkt_type |-> CLASS_C, toa |-> toa, freq_ok |-> TRUE]
  BY <1>2, <1>3, <1>5 DEF Parsed
<1>6. CASE p = [pkt |-> id, count_us |-> 0, pkt_type |-> CLASS_C, toa |-> 0, freq_ok |-> FALSE]
  BY <1>2, <1>3, <1>6 DEF Parsed
<1> QED
  BY <1>4, <1>5, <1>6 DEF NewRequests

(* The queue as a list of nodes, and the sizes that count.                  *)
LEMMA QueueFacts ==
  ASSUME NEW q, SoundQueue(q)
  PROVE  /\ q \in [nodes : Seq(Node), num_beacon : Int]
         /\ q.nodes \in Seq(Node) /\ Len(q.nodes) \in Nat
         /\ DOMAIN q.nodes = 1 .. Len(q.nodes)
         /\ DOMAIN q.nodes \subseteq 0 .. JIT_QUEUE_MAX
<1>1. q \in [nodes : Seq(Node), num_beacon : Int] /\ Len(q.nodes) <= JIT_QUEUE_MAX
  BY DEF SoundQueue, Queues, Counted
<1>2. q.nodes \in Seq(Node)
  BY <1>1
<1> QED
  BY <1>1, <1>2, QueueAssumption

-----------------------------------------------------------------------------
(* The initial states *)

(* The invariant holds before the first request.                            *)
LEMMA InitInv == Init => IInv
<1> SUFFICES ASSUME Init PROVE IInv
  OBVIOUS
<1>1. SoundQueue(queue)
  BY EmptySound DEF Init
<1>2. queue.nodes = << >> /\ Len(queue.nodes) = 0
  BY DEF Init, EmptyQueue
<1>3. TypeOK
  <2>1. clock \in Time /\ since \in 0 .. clock /\ jit_time \in Time
    BY TimingAssumption, CounterAssumption DEF Init, Time
  <2>2. queue \in [nodes : Seq(Node), num_beacon : Int]
    BY <1>1, QueueFacts
  <2>3. received \in 0 .. MAX_RECV /\ faults \in 0 .. MAX_FAULTS /\ dropped \in Nat
    BY TimingAssumption DEF Init
  <2>4. pkt_index \in 0 .. JIT_QUEUE_MAX
    BY QueueAssumption DEF Init
  <2>5. meas \in [requested : Nat, rejected : Nat, ok : Nat, fail : Nat]
    BY DEF Init
  <2> QED
    BY <2>1, <2>2, <2>3, <2>4, <2>5 DEF Init, TypeOK, InFlight
<1>4. Requested /\ Held
  BY DEF Init, Requested, Held
<1>5. Status /\ AirFree /\ OneEmission
  BY DEF Init, Status, AirFree, OneEmission
<1>6. TxAccounted
  BY <1>2 DEF Init, TxAccounted, InFlight
<1> QED
  BY <1>1, <1>3, <1>4, <1>5, <1>6 DEF IInv, QueueInv

-----------------------------------------------------------------------------
(* The types and the queue *)

(* A request that arrives is parsed before it reaches jit_enqueue.          *)
LEMMA ReceiveQueue ==
  ASSUME QueueInv, NEW id \in Payload, Receive(id)
  PROVE  QueueInv'
<1>1. Now \in Time /\ clock \in Nat
  BY NowType, CounterAssumption DEF QueueInv, TypeOK, Time
<1>2. PICK p \in IF requests[id] = NoRequest THEN NewRequests(id) ELSE {requests[id]} :
        /\ requests' = [requests EXCEPT ![id] = p]
        /\ down' = IF p.freq_ok THEN [pc |-> "enqueue", id |-> id, time |-> Now, at |-> clock]
                                ELSE Listening
  BY DEF Receive
<1>3. Parsed(p)
  BY <1>2, NewRequestsParsed DEF QueueInv, Requested
<1>4. Requested'
  <2>1. DOMAIN requests' = Payload /\ requests'[id] = p
        /\ \A i \in Payload : i # id => requests'[i] = requests[i]
    BY <1>2 DEF QueueInv, Requested
  <2>2. \A i \in Payload : requests'[i] = NoRequest \/ Parsed(requests'[i])
    BY <1>3, <2>1 DEF QueueInv, Requested
  <2>3. down' # Listening => p.freq_ok /\ down'.id = id
    BY <1>2
  <2> QED
    BY <1>3, <2>1, <2>2, <2>3 DEF Requested, Parsed
<1>5. TypeOK'
  <2>1. received' \in 0 .. MAX_RECV
    BY TimingAssumption DEF QueueInv, TypeOK, Receive
  <2>2. down' = Listening
        \/ down' \in [pc : {"enqueue"}, id : Payload, time : Time, at : 0 .. clock]
    BY <1>1, <1>2
  <2> QED
    BY <2>1, <2>2 DEF QueueInv, TypeOK, Receive, jitVars, InFlight
<1>6. SoundQueue(queue)' /\ Held'
  BY DEF QueueInv, Held, Receive, jitVars, SoundQueue, Spaced, Reserved, Counted
<1> QED
  BY <1>4, <1>5, <1>6 DEF QueueInv

(* The counters of thread_down: one request more, which is queued or not.   *)
LEMMA Requests ==
  ASSUME NEW m \in [requested : Nat, rejected : Nat, ok : Nat, fail : Nat], NEW err, NEW n
  PROVE  n = [m EXCEPT !.requested = @ + 1, !.rejected = IF err = "OK" THEN @ ELSE @ + 1]
           => /\ n \in [requested : Nat, rejected : Nat, ok : Nat, fail : Nat]
              /\ n.requested = m.requested + 1
              /\ n.rejected = IF err = "OK" THEN m.rejected ELSE m.rejected + 1
              /\ n.ok = m.ok /\ n.fail = m.fail
<1> DEFINE k == IF err = "OK" THEN m.rejected ELSE m.rejected + 1
           w == [requested |-> m.requested + 1, rejected |-> k, ok |-> m.ok, fail |-> m.fail]
<1>1. m.requested + 1 \in Nat /\ k \in Nat /\ m.ok \in Nat /\ m.fail \in Nat
  OBVIOUS
<1>2. m = [requested |-> m.requested, rejected |-> m.rejected, ok |-> m.ok, fail |-> m.fail]
  OBVIOUS
<1>3. ASSUME n = [m EXCEPT !.requested = @ + 1, !.rejected = IF err = "OK" THEN @ ELSE @ + 1]
      PROVE  n = w
  BY <1>2, <1>3
<1>4. w.requested = m.requested + 1 /\ w.rejected = k /\ w.ok = m.ok /\ w.fail = m.fail
  OBVIOUS
<1>5. w \in [requested : Nat, rejected : Nat, ok : Nat, fail : Nat]
  BY <1>1
<1> HIDE DEF w
<1> QED
  BY <1>3, <1>4, <1>5

(* jit_enqueue keeps the queue sound, and the index of thread_jit inside.   *)
LEMMA EnqueueQueue ==
  ASSUME QueueInv, Enqueue
  PROVE  /\ QueueInv'
         /\ meas'.requested = meas.requested + 1
         /\ meas'.rejected + Len(queue'.nodes) = meas.rejected + Len(queue.nodes) + 1
         /\ meas'.ok = meas.ok /\ meas'.fail = meas.fail
         /\ meas'.rejected \in Nat /\ Len(queue'.nodes) \in Nat
<1>1. PICK r \in JitEnqueue(queue, down.time, requests[down.id]) :
        /\ queue' = r.queue
        /\ meas' = [meas EXCEPT !.requested = @ + 1,
                                !.rejected = IF r.err = "OK" THEN @ ELSE @ + 1]
  BY DEF Enqueue
<1>2. down # Listening /\ down.time \in Time
  BY DEF QueueInv, TypeOK, Enqueue, Listening
<1> DEFINE p == requests[down.id]
<1>3. p.pkt \in Payload /\ p.count_us \in Time /\ p.pkt_type \in PktTypes /\ p.toa \in TimeOnAir
  BY <1>2 DEF QueueInv, Requested, Parsed
<1>4. SoundQueue(queue)
  BY DEF QueueInv
<1> HIDE DEF p
<1>5. /\ SoundQueue(r.queue)
      /\ Len(r.queue.nodes) = IF r.err = "OK" THEN Len(queue.nodes) + 1 ELSE Len(queue.nodes)
  <2>1. r \in JitEnqueue(queue, down.time, p)
    BY <1>1 DEF p
  <2> QED
    BY <1>2, <1>3, <1>4, <2>1, EnqueueSound
<1>6. SoundQueue(queue')
  BY <1>1, <1>5
<1>7. Len(queue'.nodes) = IF r.err = "OK" THEN Len(queue.nodes) + 1 ELSE Len(queue.nodes)
  BY <1>1, <1>5
<1>8. Held'
  <2>1. /\ DOMAIN queue.nodes = 1 .. Len(queue.nodes) /\ Len(queue.nodes) \in Nat
        /\ DOMAIN queue'.nodes = 1 .. Len(queue'.nodes)
    BY <1>4, <1>6, QueueFacts
  <2>2. DOMAIN queue.nodes \subseteq DOMAIN queue'.nodes
    BY <1>7, <2>1
  <2> QED
    BY <2>2 DEF QueueInv, Held, Enqueue, jitVars
<1>9. TypeOK'
  <2>1. queue' \in [nodes : Seq(Node), num_beacon : Int]
    BY <1>6, QueueFacts
  <2>2. meas' \in [requested : Nat, rejected : Nat, ok : Nat, fail : Nat]
    BY <1>1, Requests DEF QueueInv, TypeOK
  <2> QED
    BY <2>1, <2>2 DEF QueueInv, TypeOK, Enqueue, jitVars, InFlight
<1>10. Requested'
  BY DEF QueueInv, Requested, Enqueue
<1>11. /\ meas'.requested = meas.requested + 1
       /\ meas'.rejected + Len(queue'.nodes) = meas.rejected + Len(queue.nodes) + 1
       /\ meas'.ok = meas.ok /\ meas'.fail = meas.fail
       /\ meas'.rejected \in Nat /\ Len(queue'.nodes) \in Nat
  <2>1. meas \in [requested : Nat, rejected : Nat, ok : Nat, fail : Nat]
    BY DEF QueueInv, TypeOK
  <2>2. meas.requested \in Nat /\ meas.rejected \in Nat /\ Len(queue.nodes) \in Nat
    BY <1>4, <2>1, QueueFacts
  <2>3. /\ meas'.requested = meas.requested + 1
        /\ meas'.rejected = IF r.err = "OK" THEN meas.rejected ELSE meas.rejected + 1
        /\ meas'.ok = meas.ok /\ meas'.fail = meas.fail
    BY <1>1, <2>1, Requests
  <2> DEFINE len == Len(queue.nodes) len2 == Len(queue'.nodes)
  <2>4. /\ len \in Nat /\ len2 = IF r.err = "OK" THEN len + 1 ELSE len
    BY <1>7, <2>2
  <2> HIDE DEF len, len2
  <2>5. CASE r.err = "OK"
    <3>1. meas'.rejected = meas.rejected /\ len2 = len + 1
      BY <2>3, <2>4, <2>5
    <3>2. meas'.rejected \in Nat /\ len2 \in Nat /\ meas'.rejected + len2 = meas.rejected + len + 1
      BY <2>2, <2>4, <3>1
    <3> QED
      BY <2>3, <3>2 DEF len, len2
  <2>6. CASE r.err # "OK"
    <3>1. meas'.rejected = meas.rejected + 1 /\ len2 = len
      BY <2>3, <2>4, <2>6
    <3>2. meas'.rejected \in Nat /\ len2 \in Nat /\ meas'.rejected + len2 = meas.rejected + len + 1
      BY <2>2, <2>4, <3>1
    <3> QED
      BY <2>3, <3>2 DEF len, len2
  <2> QED
    BY <2>5, <2>6
<1> QED
  BY <1>6, <1>8, <1>9, <1>10, <1>11 DEF QueueInv

(* jit_peek, with the packets it drops.                                     *)
LEMMA PeekQueue ==
  ASSUME QueueInv, Peek
  PROVE  QueueInv' /\ Len(queue'.nodes) \in Nat /\ Len(queue'.nodes) <= Len(queue.nodes)
<1>1. PICK r \in JitPeek(queue, jit_time) :
        /\ queue' = r.queue
        /\ dropped' = dropped + (Len(queue.nodes) - Len(r.queue.nodes))
        /\ IF r.index = 0 THEN Rest
           ELSE jit_pc' = "dequeue" /\ pkt_index' = r.index /\ UNCHANGED <<since, pkt>>
  BY DEF Peek
<1>2. SoundQueue(queue)
  BY DEF QueueInv
<1>3. /\ SoundQueue(queue') /\ r.index \in {0} \cup DOMAIN queue'.nodes
      /\ Len(queue'.nodes) <= Len(queue.nodes)
  BY <1>1, <1>2, PeekSound
<1>4. /\ Len(queue.nodes) \in Nat /\ Len(queue'.nodes) \in Nat
      /\ queue' \in [nodes : Seq(Node), num_beacon : Int]
      /\ DOMAIN queue'.nodes \subseteq 0 .. JIT_QUEUE_MAX
  BY <1>2, <1>3, QueueFacts
<1>5. TypeOK'
  <2>1. dropped' \in Nat
    BY <1>1, <1>3, <1>4 DEF QueueInv, TypeOK
  <2>2. /\ pkt_index' \in 0 .. JIT_QUEUE_MAX /\ jit_pc' \in {"delay", "dequeue"}
        /\ since' \in 0 .. clock /\ pkt' = << >>
    <3>1. CASE r.index = 0
      BY <1>1, <3>1, CounterAssumption, QueueAssumption DEF QueueInv, TypeOK, Time, Rest
    <3>2. CASE r.index # 0
      BY <1>1, <1>3, <1>4, <3>2 DEF QueueInv, TypeOK, InFlight, Peek
    <3> QED
      BY <3>1, <3>2
  <2> QED
    BY <1>4, <2>1, <2>2 DEF QueueInv, TypeOK, Peek, downVars, InFlight
<1>6. Held'
  BY <1>1, <1>3 DEF Held, Rest
<1>7. Requested'
  BY DEF QueueInv, Requested, Peek, downVars
<1> QED
  BY <1>3, <1>4, <1>5, <1>6, <1>7 DEF QueueInv

(* jit_dequeue takes the packet that jit_peek found.                        *)
LEMMA DequeueQueue ==
  ASSUME QueueInv, Dequeue
  PROVE  QueueInv' /\ Len(queue'.nodes) = Len(queue.nodes) - 1 /\ Len(queue.nodes) \in Nat
<1>1. SoundQueue(queue) /\ pkt_index \in DOMAIN queue.nodes /\ queue' \in JitDequeue(queue, pkt_index)
  BY DEF QueueInv, Held, Dequeue
<1>2. SoundQueue(queue') /\ Len(queue'.nodes) = Len(queue.nodes) - 1
  BY <1>1, DequeueSound
<1>3. /\ Len(queue.nodes) \in Nat /\ queue.nodes \in Seq(Node)
      /\ queue' \in [nodes : Seq(Node), num_beacon : Int]
  BY <1>1, <1>2, QueueFacts
<1>4. queue.nodes[pkt_index] \in Node
  BY <1>1, <1>3
<1>5. /\ pkt_index' \in 0 .. JIT_QUEUE_MAX /\ since' \in 0 .. clock
      /\ dropped' \in Nat
      /\ \/ jit_pc' = "delay" /\ pkt' = << >>
         \/ jit_pc' = "send" /\ pkt' \in Node
  BY <1>4, CounterAssumption, QueueAssumption DEF QueueInv, TypeOK, Dequeue, Rest, Time
<1>6. TypeOK'
  BY <1>3, <1>5 DEF QueueInv, TypeOK, Dequeue, downVars, InFlight
<1>7. Requested' /\ Held'
  BY <1>5 DEF QueueInv, Requested, Held, Dequeue, downVars
<1> QED
  BY <1>2, <1>3, <1>6, <1>7 DEF QueueInv

(* The steps of lgw_send, and the passing of time, leave the queue alone.   *)
LEMMA SendQueue ==
  ASSUME QueueInv,
         Wake \/ Configure \/ Refuse \/ SetTx \/ Poll \/ BackToRx \/ RadioFault \/ Tick
         \/ UNCHANGED vars
  PROVE  QueueInv'
<1>1. queue' = queue /\ requests' = requests /\ down' = down /\ received' = received
  BY DEF Wake, Configure, Refuse, SetTx, Poll, BackToRx, RadioFault, Tick, vars, downVars
<1>2. SoundQueue(queue)' /\ Requested'
  BY <1>1 DEF QueueInv, Requested, SoundQueue, Spaced, Reserved, Counted
<1>3. Held'
  BY <1>1 DEF QueueInv, Held, Wake, Configure, Refuse, SetTx, Poll, BackToRx, RadioFault,
              Rest, Tick, vars, jitVars
<1>4. clock \in Nat /\ Now \in Time
  BY NowType, CounterAssumption DEF QueueInv, TypeOK, Time
<1>5. TypeOK'
  <2>1. CASE Wake
    BY <1>4, <2>1 DEF QueueInv, TypeOK, Wake, downVars, InFlight
  <2>2. CASE Configure
    BY <1>4, <2>2 DEF QueueInv, TypeOK, Configure, downVars, InFlight
  <2>3. CASE Refuse
    <3>1. meas' \in [requested : Nat, rejected : Nat, ok : Nat, fail : Nat]
      BY <2>3 DEF QueueInv, TypeOK, Refuse
    <3> QED
      BY <1>4, <2>3, <3>1, QueueAssumption DEF QueueInv, TypeOK, Refuse, Rest, downVars, InFlight
  <2>4. CASE SetTx
    BY <1>4, <2>4 DEF QueueInv, TypeOK, SetTx, downVars, InFlight
  <2>5. CASE Poll
    BY <1>4, <2>5 DEF QueueInv, TypeOK, Poll, downVars, InFlight
  <2>6. CASE BackToRx
    <3>1. meas' \in [requested : Nat, rejected : Nat, ok : Nat, fail : Nat]
      BY <2>6 DEF QueueInv, TypeOK, BackToRx
    <3> QED
      BY <1>4, <2>6, <3>1, QueueAssumption DEF QueueInv, TypeOK, BackToRx, Rest, downVars, InFlight
  <2>7. CASE RadioFault
    <3>1. meas' \in [requested : Nat, rejected : Nat, ok : Nat, fail : Nat]
      BY <2>7 DEF QueueInv, TypeOK, RadioFault
    <3>2. faults' \in 0 .. MAX_FAULTS
      <4>1. faults \in 0 .. MAX_FAULTS /\ faults < MAX_FAULTS /\ faults' = faults + 1
        BY <2>7 DEF QueueInv, TypeOK, RadioFault
      <4>2. MAX_FAULTS \in Nat
        BY TimingAssumption
      <4> QED
        BY <4>1, <4>2
    <3> QED
      BY <1>4, <2>7, <3>1, <3>2, QueueAssumption
         DEF QueueInv, TypeOK, RadioFault, Rest, downVars, InFlight
  <2>8. CASE Tick
    <3>a. TX_MAX_ADVANCE_DELAY \in Nat
      BY DelayAssumption
    <3>b. clock' = clock + 1 /\ clock + 1 + TX_MAX_ADVANCE_DELAY \in Time /\ UNCHANGED since
      BY <2>8 DEF Tick, jitVars
    <3>c. since \in 0 .. clock
      BY DEF QueueInv, TypeOK
    <3>1. clock' \in Time /\ since' \in 0 .. clock' /\ 0 .. clock \subseteq 0 .. clock'
      BY <1>4, <3>a, <3>b, <3>c, CounterAssumption DEF Time
    <3>2. down' = Listening
          \/ down' \in [pc : {"enqueue"}, id : Payload, time : Time, at : 0 .. clock']
      BY <1>1, <3>1 DEF QueueInv, TypeOK
    <3> QED
      BY <2>8, <3>1, <3>2 DEF QueueInv, TypeOK, Tick, downVars, jitVars, InFlight
  <2>9. CASE UNCHANGED vars
    BY <2>9 DEF QueueInv, TypeOK, vars, downVars, jitVars, InFlight
  <2> QED
    BY <2>1, <2>2, <2>3, <2>4, <2>5, <2>6, <2>7, <2>8, <2>9
<1> QED
  BY <1>2, <1>3, <1>5 DEF QueueInv

(* Every step.                                                              *)
LEMMA QueueInductive == QueueInv /\ [Next]_vars => QueueInv'
<1> SUFFICES ASSUME QueueInv, [Next]_vars PROVE QueueInv'
  OBVIOUS
<1>1. CASE ThreadDown
  BY <1>1, ReceiveQueue, EnqueueQueue DEF ThreadDown
<1>2. CASE ThreadJit
  BY <1>2, PeekQueue, DequeueQueue, SendQueue DEF ThreadJit
<1>3. CASE RadioFault \/ Tick \/ Over \/ UNCHANGED vars
  BY <1>3, SendQueue DEF Over
<1> QED
  BY <1>1, <1>2, <1>3 DEF Next

-----------------------------------------------------------------------------
(* The air *)

(* A new emission begins after every earlier one has ended.                 *)
LEMMA SetTxAir ==
  ASSUME TypeOK, Status, AirFree, OneEmission, SetTx
  PROVE  Status' /\ AirFree' /\ OneEmission'
<1> DEFINE new == [pkt |-> pkt.pkt, pkt_type |-> pkt.pkt_type,
                   due |-> clock + Signed(Minus(pkt.count_us, Now)),
                   start |-> clock + TCXO_STARTUP, stop |-> tx_end']
<1>1. clock \in Nat /\ TCXO_STARTUP \in Nat /\ pkt.post_delay \in Nat
  BY TimingAssumption, CounterAssumption DEF TypeOK, SetTx, InFlight, Node, Time, Delay
<1>2. /\ aired' = aired \cup {new} /\ tx_end' = clock + TCXO_STARTUP + pkt.post_delay
      /\ jit_pc' = "emit" /\ tx_status' = "EMITTING"
  BY DEF SetTx
<1>3. \A e \in aired : e.start \in Int /\ e.stop \in Int /\ e.stop < clock
  BY DEF Status, AirFree, SetTx
<1>4. new.start = clock + TCXO_STARTUP /\ new.stop = tx_end'
  OBVIOUS
<1> HIDE DEF new
<1>5. Status'
  BY <1>2 DEF Status
<1>6. AirFree'
  BY <1>1, <1>2, <1>3, <1>4 DEF AirFree
<1>7. OneEmission'
  <2> SUFFICES ASSUME NEW e \in aired', NEW f \in aired', e # f
               PROVE  e.stop < f.start \/ f.stop < e.start
    BY DEF OneEmission
  <2>1. CASE e \in aired /\ f \in aired
    BY <2>1 DEF OneEmission
  <2>2. CASE e \in aired /\ f = new
    BY <1>1, <1>3, <1>4, <2>2
  <2>3. CASE e = new /\ f \in aired
    BY <1>1, <1>3, <1>4, <2>3
  <2> QED
    BY <1>2, <2>1, <2>2, <2>3
<1> QED
  BY <1>5, <1>6, <1>7

(* Every step.                                                              *)
LEMMA AirInductive ==
  TypeOK /\ Status /\ AirFree /\ OneEmission /\ [Next]_vars
    => Status' /\ AirFree' /\ OneEmission'
<1> SUFFICES ASSUME TypeOK, Status, AirFree, OneEmission, [Next]_vars
             PROVE  Status' /\ AirFree' /\ OneEmission'
  OBVIOUS
<1>1. CASE SetTx
  BY <1>1, SetTxAir
<1> SUFFICES ASSUME ~SetTx PROVE Status' /\ AirFree' /\ OneEmission'
  BY <1>1
<1>2. /\ aired' = aired /\ tx_end' = tx_end
      /\ clock' = clock \/ (clock' = clock + 1 /\ Tick)
  BY DEF Next, ThreadDown, ThreadJit, Receive, Enqueue, Wake, Peek, Dequeue, Configure, Refuse,
         Poll, BackToRx, RadioFault, Tick, Over, vars, downVars, jitVars
<1>3. OneEmission'
  BY <1>2 DEF OneEmission
<1>4. clock \in Nat /\ since \in Nat /\ since <= clock
  BY CounterAssumption DEF TypeOK, Time
<1>5. Status' /\ (jit_pc' = "done" => tx_end' <= since')
  <2>1. CASE ThreadDown \/ Tick \/ Over \/ UNCHANGED vars
    BY <1>2, <2>1 DEF Status, AirFree, ThreadDown, Receive, Enqueue, Tick, Over, vars, jitVars
  <2>2. CASE Wake \/ Peek \/ Refuse \/ RadioFault \/ BackToRx
    BY <1>2, <2>2 DEF Status, Wake, Peek, Refuse, RadioFault, BackToRx, Rest
  <2>3. CASE Dequeue \/ Configure
    BY <2>3 DEF Status, Dequeue, RadioBusy, Configure, Rest
  <2>4. CASE Poll
    BY <1>2, <1>4, <2>4 DEF Status, AirFree, Poll
  <2> QED
    BY <2>1, <2>2, <2>3, <2>4 DEF Next, ThreadJit
<1>6. tx_status' # "EMITTING" => \A e \in aired : e.stop < clock
  <2>1. CASE BackToRx
    BY <1>4, <2>1 DEF AirFree, BackToRx
  <2>2. CASE Configure
    BY <2>2 DEF Status, AirFree, Configure
  <2>3. CASE ~BackToRx /\ ~Configure
    <3>1. tx_status' = tx_status
      BY <2>3 DEF Next, ThreadDown, ThreadJit, Receive, Enqueue, Wake, Peek, Dequeue, Refuse,
             Poll, RadioFault, Tick, Over, vars, downVars, jitVars
    <3> QED
      BY <3>1 DEF AirFree
  <2> QED
    BY <2>1, <2>2, <2>3
<1>7. AirFree'
  BY <1>2, <1>4, <1>5, <1>6 DEF AirFree
<1> QED
  BY <1>3, <1>5, <1>7

-----------------------------------------------------------------------------
(* The counters *)

(* The two accounts that are not counters: the queue and lgw_send.          *)
Pending  == Len(queue.nodes)
Carried  == IF InFlight THEN 1 ELSE 0
Balanced == meas.requested = meas.rejected + Pending + Carried + meas.ok + meas.fail + dropped

(* All of them are numbers.                                                 *)
LEMMA AccountType ==
  ASSUME QueueInv
  PROVE  /\ meas.requested \in Nat /\ meas.rejected \in Nat /\ meas.ok \in Nat
         /\ meas.fail \in Nat /\ dropped \in Nat /\ Pending \in Nat /\ Carried \in {0, 1}
<1>1. /\ meas.requested \in Nat /\ meas.rejected \in Nat /\ meas.ok \in Nat
      /\ meas.fail \in Nat /\ dropped \in Nat
  BY DEF QueueInv, TypeOK
<1>2. Pending \in Nat
  BY QueueFacts DEF QueueInv, Pending
<1> QED
  BY <1>1, <1>2 DEF Carried

(* Every step moves a request from one account to another.                  *)
LEMMA AccountInductive == QueueInv /\ TxAccounted /\ [Next]_vars => TxAccounted'
<1> SUFFICES ASSUME QueueInv, Balanced, [Next]_vars PROVE Balanced'
  BY DEF TxAccounted, Balanced, Pending, Carried
<1>1. /\ meas.requested \in Nat /\ meas.rejected \in Nat /\ meas.ok \in Nat
      /\ meas.fail \in Nat /\ dropped \in Nat /\ Pending \in Nat /\ Carried \in {0, 1}
  BY AccountType
<1>2. CASE Enqueue
  <2>1. dropped' = dropped /\ Carried' = Carried
    BY <1>2 DEF Enqueue, jitVars, Carried, InFlight
  <2>2. /\ meas'.requested = meas.requested + 1
        /\ meas'.rejected + Pending' = meas.rejected + Pending + 1
        /\ meas'.ok = meas.ok /\ meas'.fail = meas.fail
        /\ meas'.rejected \in Nat /\ Pending' \in Nat
    BY <1>2, EnqueueQueue DEF Pending
  <2> QED
    BY <1>1, <2>1, <2>2 DEF Balanced
<1>3. CASE Peek
  <2>1. dropped' = dropped + (Pending - Pending') /\ Pending' \in Nat
    BY <1>3, PeekQueue DEF Peek, Pending
  <2>2. meas' = meas /\ Carried = 0 /\ Carried' = 0
    BY <1>3 DEF Peek, Rest, InFlight, Carried
  <2> QED
    BY <1>1, <2>1, <2>2 DEF Balanced
<1>4. CASE Dequeue
  <2>1. Pending' = Pending - 1
    BY <1>4, DequeueQueue DEF Pending
  <2>2. meas' = meas /\ Carried = 0
    BY <1>4 DEF Dequeue, InFlight, Carried
  <2>3. \/ Carried' = 0 /\ dropped' = dropped + 1
        \/ Carried' = 1 /\ dropped' = dropped
    BY <1>4 DEF Dequeue, Rest, InFlight, Carried
  <2> QED
    BY <1>1, <2>1, <2>2, <2>3 DEF Balanced
<1>5. CASE BackToRx \/ Refuse \/ RadioFault
  <2>1. Pending' = Pending /\ dropped' = dropped
    BY <1>5 DEF BackToRx, Refuse, RadioFault, Pending
  <2>2. Carried = 1 /\ Carried' = 0
    BY <1>5 DEF BackToRx, Refuse, RadioFault, Rest, Carried, InFlight
  <2>3. /\ meas'.requested = meas.requested /\ meas'.rejected = meas.rejected
        /\ \/ meas'.ok = meas.ok + 1 /\ meas'.fail = meas.fail
           \/ meas'.ok = meas.ok /\ meas'.fail = meas.fail + 1
    BY <1>5 DEF BackToRx, Refuse, RadioFault, QueueInv, TypeOK
  <2> QED
    BY <1>1, <2>1, <2>2, <2>3 DEF Balanced
<1>6. CASE Wake \/ Configure \/ SetTx \/ Poll
  <2>1. Pending' = Pending /\ dropped' = dropped /\ Carried' = Carried /\ meas' = meas
    BY <1>6 DEF Wake, Configure, SetTx, Poll, Pending, Carried, InFlight
  <2> QED
    BY <2>1 DEF Balanced
<1>7. CASE (\E id \in Payload : Receive(id)) \/ Tick \/ Over \/ UNCHANGED vars
  <2>1. Pending' = Pending /\ dropped' = dropped /\ Carried' = Carried /\ meas' = meas
    BY <1>7 DEF Receive, Tick, Over, vars, jitVars, Pending, Carried, InFlight
  <2> QED
    BY <2>1 DEF Balanced
<1> QED
  BY <1>2, <1>3, <1>4, <1>5, <1>6, <1>7 DEF Next, ThreadDown, ThreadJit

-----------------------------------------------------------------------------
(* Theorems *)

(* The invariant holds in every state.                                     *)
LEMMA Invariance == Spec => []IInv
<1>1. IInv /\ [Next]_vars => IInv'
  BY QueueInductive, AirInductive, AccountInductive DEF IInv, QueueInv
<1> QED
  BY InitInv, <1>1, PTL DEF Spec

(* The type invariant, which includes that thread_jit holds a packet exactly*)
(* while it is in lgw_send, and an index inside the array otherwise.        *)
THEOREM TypeCorrect == Spec => []TypeOK
<1>1. IInv => TypeOK
  BY DEF IInv, QueueInv
<1> QED
  BY <1>1, Invariance, PTL

(* The radio is never told to emit while it emits, whatever the sleeps of   *)
(* thread_jit, the times on air and the errors of the radio: tx_status and  *)
(* the last sleep of lgw_send are enough.                                   *)
THEOREM EmissionsApart == Spec => []OneEmission
<1>1. IInv => OneEmission
  BY DEF IInv
<1> QED
  BY <1>1, Invariance, PTL

(* Every request is accounted for, in the queue, in flight, or in one of the*)
(* counters, for any number of requests, repeats, drops and errors.         *)
THEOREM RequestsAccounted == Spec => []TxAccounted
<1>1. IInv => TxAccounted
  BY DEF IInv
<1> QED
  BY <1>1, Invariance, PTL

-----------------------------------------------------------------------------
(* Packets with a timestamp *)

(* An instant of the counter on the axis of clock.                          *)
Instant(count) == Minus(count, START_COUNT)

(* No packet is booked later than this after k calls of jit_enqueue.        *)
Reach(k) == RECV_UNTIL + TX_MAX_ADVANCE_DELAY + ASAP_DELAY + k * Stride

Horizon == Reach(MAX_RECV)

(* What thread_down holds carries the time at which it arrived, and every   *)
(* call of jit_enqueue was preceded by a PULL_RESP of its own.              *)
Stamped ==
  /\ down # Listening =>
       /\ down.time = Plus(START_COUNT, down.at) /\ down.at <= RECV_UNTIL
       /\ clock <= down.at + DOWN_LAG
       /\ requests[down.id] # NoRequest
  /\ meas.requested + (IF down = Listening THEN 0 ELSE 1) <= received

(* A PULL_RESP keeps its contents under one identity.                       *)
Identified ==
  \A id \in Payload : requests[id] # NoRequest =>
    requests[id].pkt = id /\ requests[id].pkt_type \in {CLASS_A, CLASS_C}

(* A packet is the request of its identity, with the timestamp of it unless *)
(* the hub chose one.                                                       *)
OwnRequest(node) ==
  /\ requests[node.pkt] # NoRequest
  /\ node.pkt_type = requests[node.pkt].pkt_type
  /\ node.pkt_type # CLASS_C => node.count_us = requests[node.pkt].count_us

Booked(nodes) ==
  /\ Within(START_COUNT, Reach(meas.requested), nodes)
  /\ Ordered(START_COUNT, nodes)
  /\ \A i \in DOMAIN nodes : OwnRequest(nodes[i]) /\ nodes[i].post_delay <= LONGEST

(* A packet whose timestamp has passed can only be the head of the queue,   *)
(* which jit_peek did not look at, and is not the one that it chose.        *)
Missed(node) == node.pkt_type = CLASS_A /\ Instant(node.count_us) < clock

Chosen ==
  jit_pc = "dequeue" =>
    \A i \in DOMAIN queue.nodes : Missed(queue.nodes[i]) => i = 1 /\ pkt_index > 1

(* thread_jit works with the current time, and is in time for a packet with *)
(* a timestamp until it departs.                                            *)
InTime ==
  /\ clock + TX_MAX_ADVANCE_DELAY \in Time
  /\ jit_pc \in {"peek", "dequeue"} => jit_time = Now
  /\ InFlight => OwnRequest(pkt)
  /\ jit_pc \in {"send", "wait"} /\ pkt.pkt_type = CLASS_A =>
       clock <= Instant(pkt.count_us) /\ Instant(pkt.count_us) <= Horizon

(* Every emission is that of a request.                                     *)
Answered ==
  \A e \in aired :
    /\ e.pkt \in Payload /\ requests[e.pkt] # NoRequest
    /\ e.pkt_type = requests[e.pkt].pkt_type
    /\ e.due \in Int /\ e.start <= e.stop

(* A packet with a timestamp never leaves early, nor later than the radio   *)
(* needs to start its oscillator, whatever keeps thread_jit away: what it   *)
(* is too late for it drops.                                                *)
Punctual ==
  \A e \in aired : e.pkt_type = CLASS_A =>
    /\ e.due = Instant(requests[e.pkt].count_us)
    /\ e.start \in e.due .. e.due + TCXO_STARTUP

Line == /\ Stamped /\ Identified /\ Booked(queue.nodes) /\ Chosen /\ InTime
        /\ Answered /\ Punctual /\ AtMostOnce

OnceInv == IInv /\ Line

-----------------------------------------------------------------------------
(* Instants and spans *)

(* The orders of magnitude that the assumptions fix.                        *)
LEMMA Sizes ==
  /\ RECV_UNTIL \in Nat /\ MAX_RECV \in Nat /\ TX_MAX_ADVANCE_DELAY \in Nat /\ ASAP_DELAY \in Nat
  /\ TX_START_DELAY \in Nat /\ TX_MARGIN_DELAY \in Nat /\ TX_JIT_DELAY \in Nat
  /\ LONGEST \in Nat /\ Stride \in Nat /\ DOWN_LAG \in Nat /\ TCXO_STARTUP \in Nat
  /\ START_COUNT \in Time /\ M \in Nat
  /\ Horizon \in Nat /\ 2 * Horizon < M
  /\ \A k \in Nat : /\ Reach(k) \in Nat /\ Reach(k + 1) = Reach(k) + Stride
                    /\ k <= MAX_RECV => Reach(k) <= Horizon
                    /\ RECV_UNTIL + TX_MAX_ADVANCE_DELAY <= Reach(k)
                    /\ RECV_UNTIL + ASAP_DELAY <= Reach(k)
<1>1. /\ RECV_UNTIL \in Nat /\ MAX_RECV \in Nat /\ TX_MAX_ADVANCE_DELAY \in Nat /\ ASAP_DELAY \in Nat
      /\ TX_START_DELAY \in Nat /\ TX_MARGIN_DELAY \in Nat /\ TX_JIT_DELAY \in Nat
      /\ LONGEST \in Nat /\ DOWN_LAG \in Nat /\ TCXO_STARTUP \in Nat
      /\ START_COUNT \in Time /\ M \in Nat
  BY TimingAssumption, RunAssumption, DelayAssumption, CounterAssumption DEF Delay
<1>2. Stride \in Nat
  BY <1>1 DEF Stride
<1> DEFINE a    == RECV_UNTIL + TX_MAX_ADVANCE_DELAY + ASAP_DELAY
           t(k) == k * Stride
<1>3. \A k \in Nat : t(k) \in Nat /\ t(k + 1) = t(k) + Stride /\ (k <= MAX_RECV => t(k) <= t(MAX_RECV))
  BY <1>1, <1>2, TimesStep
<1>4. 2 * (a + t(MAX_RECV)) < M /\ \A k : Reach(k) = a + t(k)
  BY RunAssumption DEF Reach
<1> HIDE DEF t
<1>5. t(MAX_RECV) \in Nat
  BY <1>1, <1>3
<1>6. Horizon = a + t(MAX_RECV)
  BY <1>4 DEF Horizon
<1>7. ASSUME NEW k \in Nat
      PROVE  /\ Reach(k) \in Nat /\ Reach(k + 1) = Reach(k) + Stride
             /\ k <= MAX_RECV => Reach(k) <= Horizon
             /\ RECV_UNTIL + TX_MAX_ADVANCE_DELAY <= Reach(k)
             /\ RECV_UNTIL + ASAP_DELAY <= Reach(k)
  <2>1. Reach(k) = a + t(k) /\ Reach(k + 1) = a + t(k + 1)
    BY <1>4
  <2>2. t(k) \in Nat /\ t(k + 1) = t(k) + Stride /\ (k <= MAX_RECV => t(k) <= t(MAX_RECV))
    BY <1>3
  <2> QED
    BY <1>1, <1>2, <1>5, <1>6, <2>1, <2>2
<1> QED
  BY <1>1, <1>2, <1>4, <1>5, <1>6, <1>7

(* One more call of jit_enqueue.                                            *)
LEMMA ReachStep ==
  ASSUME NEW k \in Nat, k + 1 <= MAX_RECV
  PROVE  /\ Reach(k) \in Nat /\ Reach(k + 1) \in Nat /\ Reach(k) <= Reach(k + 1)
         /\ Reach(k + 1) = Reach(k) + Stride
         /\ Reach(k + 1) <= Horizon /\ 2 * Reach(k + 1) < M
<1>1. Reach(k) \in Nat /\ Reach(k + 1) = Reach(k) + Stride /\ Stride \in Nat
  BY Sizes
<1>2. k + 1 \in Nat /\ Reach(k + 1) \in Nat
  BY <1>1
<1>3. Reach(k + 1) <= Horizon
  BY <1>2, Sizes
<1>4. Horizon \in Nat /\ 2 * Horizon < M /\ M \in Nat
  BY Sizes
<1> QED
  BY <1>1, <1>2, <1>3, <1>4

(* The counter shows START_COUNT + t at the instant t.                      *)
LEMMA InstantOfTime ==
  ASSUME NEW t \in Time
  PROVE  /\ Plus(START_COUNT, t) \in Time /\ t \in Nat
         /\ Instant(Plus(START_COUNT, t)) = t
<1>1. START_COUNT \in Time /\ t \in Delay
  BY Sizes DEF Time, Delay
<1> QED
  BY <1>1, CounterAssumption DEF Instant, Plus, Minus, Time

(* The lead of a packet, on the axis of clock.                              *)
LEMMA LeadOfInstant ==
  ASSUME NEW t \in Time, NEW count \in Time
  PROVE  /\ Instant(count) \in Time /\ Instant(count) \in Nat
         /\ Minus(count, Plus(START_COUNT, t))
              = IF Instant(count) >= t THEN Instant(count) - t ELSE M - (t - Instant(count))
<1>1. START_COUNT \in Time
  BY Sizes
<1>2. Instant(count) \in Time
  BY <1>1, MinusType DEF Instant
<1>3. Instant(count) \in Nat
  BY <1>2, CounterAssumption DEF Time
<1>4. Plus(START_COUNT, t) \in Time /\ Minus(Plus(START_COUNT, t), START_COUNT) = t
  BY InstantOfTime DEF Instant
<1> QED
  BY <1>1, <1>2, <1>3, <1>4, MinusByOffset DEF Instant

(* What is less than one horizon ahead of t has not gone round the counter. *)
LEMMA AheadOf ==
  ASSUME NEW t \in Time, NEW count \in Time, NEW d \in Nat,
         Minus(count, Plus(START_COUNT, t)) <= d, t + d < M
  PROVE  Instant(count) = t + Minus(count, Plus(START_COUNT, t))
<1> DEFINE a == Instant(count)
           l == Minus(count, Plus(START_COUNT, t))
<1>1. a \in Nat /\ l = IF a >= t THEN a - t ELSE M - (t - a)
  BY LeadOfInstant
<1>2. t \in Nat /\ M \in Nat
  BY InstantOfTime, Sizes
<1> HIDE DEF a, l
<1>3. l <= d
  BY DEF l
<1>4. a = t + l
  BY <1>1, <1>2, <1>3
<1> QED
  BY <1>4 DEF a, l

(* An immediate downlink is asked for within ASAP_DELAY.                    *)
LEMMA AsapLead ==
  ASSUME NEW time \in Time, NEW asap \in AsapCounts(time)
  PROVE  asap \in Time /\ Minus(asap, time) <= ASAP_DELAY
<1>1. ASAP_DELAY \in Nat /\ ASAP_DELAY < M
  BY DelayAssumption, CounterAssumption DEF Delay
<1>2. asap \in Time
  BY <1>1, CounterAssumption DEF AsapCounts, Plus, Time
<1> QED
  BY <1>1, <1>2, CounterAssumption DEF AsapCounts, Plus, Minus, Time

-----------------------------------------------------------------------------
(* thread_down *)

(* The request that thread_down hands to jit_enqueue.                       *)
LEMMA Handed ==
  ASSUME OnceInv, down # Listening
  PROVE  /\ requests[down.id].pkt = down.id /\ down.id \in Payload
         /\ requests[down.id].count_us \in Time /\ requests[down.id].pkt_type \in PktTypes
         /\ requests[down.id].pkt_type \in {CLASS_A, CLASS_C}
         /\ requests[down.id].toa \in TimeOnAir /\ requests[down.id].toa <= LONGEST
         /\ down.at \in Nat /\ down.at \in Time /\ down.time = Plus(START_COUNT, down.at)
         /\ down.time \in Time /\ down.at <= RECV_UNTIL
         /\ clock \in Nat /\ clock <= down.at + DOWN_LAG
         /\ meas.requested \in Nat /\ meas.requested + 1 <= MAX_RECV
<1>1. /\ TypeOK /\ Requested /\ Stamped /\ Identified
  BY DEF OnceInv, Line, IInv, QueueInv
<1>2. down \in [pc : {"enqueue"}, id : Payload, time : Time, at : 0 .. clock] /\ clock \in Time
  BY <1>1 DEF TypeOK
<1>3. down.id \in Payload /\ down.time \in Time /\ down.at \in 0 .. clock
  BY <1>2
<1>4. clock \in Nat /\ down.at \in Nat /\ down.at \in Time
  BY <1>2, <1>3, CounterAssumption DEF Time
<1>5. Parsed(requests[down.id]) /\ requests[down.id].freq_ok /\ requests[down.id] # NoRequest
  BY <1>1 DEF Requested, Stamped
<1>6. requests[down.id].toa <= LONGEST
  BY <1>5, RunAssumption DEF Parsed
<1>7. meas.requested \in Nat /\ received \in 0 .. MAX_RECV /\ meas.requested + 1 <= received
  BY <1>1 DEF TypeOK, Stamped
<1>8. meas.requested + 1 <= MAX_RECV
  BY <1>7, Sizes
<1> QED
  BY <1>1, <1>3, <1>4, <1>5, <1>6, <1>7, <1>8 DEF Stamped, Identified, Parsed

(* Where jit_enqueue puts a packet that it accepts: not too far ahead, and  *)
(* not in the past, unless it is an immediate downlink that follows a       *)
(* packet which is.                                                         *)
LEMMA AcceptedInstant ==
  ASSUME OnceInv, down # Listening,
         NEW count \in Departures(queue, down.time, requests[down.id]),
         JitVerdict(queue, down.time, NodeOf(requests[down.id], count)) = "OK"
  PROVE  /\ count \in Time /\ Instant(count) \in Nat
         /\ Instant(count) <= Reach(meas.requested + 1)
         /\ \/ /\ clock <= Instant(count)
               /\ clock + TX_START_DELAY + TX_MARGIN_DELAY + TX_JIT_DELAY < Instant(count) + DOWN_LAG
            \/ /\ requests[down.id].pkt_type = CLASS_C
               /\ 1 \in DOMAIN queue.nodes
               /\ Offset(START_COUNT, queue.nodes[1]) <= Instant(count)
<1> DEFINE p == requests[down.id]
           t == down.at
           k == meas.requested
<1>1. /\ p.count_us \in Time /\ p.pkt_type \in {CLASS_A, CLASS_C}
      /\ t \in Nat /\ t \in Time /\ down.time = Plus(START_COUNT, t) /\ down.time \in Time
      /\ t <= RECV_UNTIL /\ clock \in Nat /\ clock <= t + DOWN_LAG
      /\ k \in Nat /\ k + 1 <= MAX_RECV
  BY Handed
<1>2. /\ queue \in Queues /\ queue.nodes \in Seq(Node)
      /\ Booked(queue.nodes)
  BY DEF OnceInv, Line, IInv, QueueInv, SoundQueue, Queues
<1>3. count \in Time
  BY <1>1, <1>2, DeparturesType
<1>4. Instant(count) \in Nat /\ Minus(count, down.time) \in Nat
  BY <1>1, <1>3, LeadOfInstant, MinusType, CounterAssumption DEF Time
<1>5. /\ Minus(count, down.time) > TX_START_DELAY + TX_MARGIN_DELAY + TX_JIT_DELAY
      /\ p.pkt_type = CLASS_A => Minus(count, down.time) <= TX_MAX_ADVANCE_DELAY
  <2>1. NodeOf(p, count).count_us = count /\ NodeOf(p, count).pkt_type = p.pkt_type
    BY DEF NodeOf
  <2>2. /\ ~(Minus(count, down.time) <= TX_START_DELAY + TX_MARGIN_DELAY + TX_JIT_DELAY)
        /\ p.pkt_type = CLASS_A => ~(Minus(count, down.time) > TX_MAX_ADVANCE_DELAY)
    BY <2>1 DEF JitVerdict
  <2> QED
    BY <1>4, <2>2, Sizes
<1>6. ASSUME NEW d \in Nat, Minus(count, down.time) <= d, RECV_UNTIL + d <= Reach(k + 1)
      PROVE  /\ Instant(count) <= Reach(k + 1) /\ clock <= Instant(count)
             /\ clock + TX_START_DELAY + TX_MARGIN_DELAY + TX_JIT_DELAY < Instant(count) + DOWN_LAG
  <2>1. Reach(k + 1) \in Nat /\ Reach(k + 1) <= Horizon /\ Horizon \in Nat /\ 2 * Horizon < M
    BY <1>1, Sizes
  <2>2. t + d < M /\ t + d <= Reach(k + 1)
    BY <1>1, <1>6, <2>1, Sizes
  <2>3. Instant(count) = t + Minus(count, down.time)
    BY <1>1, <1>3, <1>6, <2>2, AheadOf
  <2>4. DOWN_LAG <= TX_START_DELAY + TX_MARGIN_DELAY + TX_JIT_DELAY
    BY RunAssumption
  <2> HIDE DEF t, k
  <2> QED
    BY <1>1, <1>4, <1>5, <1>6, <2>1, <2>2, <2>3, <2>4, Sizes
<1>7. CASE p.pkt_type = CLASS_A
  <2>1. RECV_UNTIL + TX_MAX_ADVANCE_DELAY <= Reach(k + 1) /\ TX_MAX_ADVANCE_DELAY \in Nat
    BY <1>1, Sizes
  <2> QED
    BY <1>3, <1>4, <1>5, <1>6, <1>7, <2>1
<1>8. CASE p.pkt_type # CLASS_A
  <2>1. p.pkt_type = CLASS_C
    BY <1>1, <1>8
  <2>2. PICK asap \in AsapCounts(down.time) : count \in ClassCSlots(queue.nodes, p, asap)
    BY <2>1 DEF Departures
  <2>3. CASE count = asap
    <3>1. Minus(count, down.time) <= ASAP_DELAY
      BY <1>1, <2>3, AsapLead
    <3>2. RECV_UNTIL + ASAP_DELAY <= Reach(k + 1) /\ ASAP_DELAY \in Nat
      BY <1>1, Sizes
    <3> QED
      BY <1>3, <1>4, <1>6, <3>1, <3>2
  <2>4. CASE count # asap
    <3>1. PICK g \in DOMAIN queue.nodes : count = SlotAfter(queue.nodes[g], PreDelay(CLASS_C))
      BY <2>1, <2>2, <2>4 DEF ClassCSlots, Gaps
    <3> DEFINE node == queue.nodes[g]
               o    == Offset(START_COUNT, node)
    <3>2. node \in Node /\ node.post_delay <= LONGEST /\ o <= Reach(k)
      BY <1>2 DEF Booked, Within
    <3>3. node.post_delay \in Nat /\ o \in Nat
      <4>1. START_COUNT \in Time
        BY Sizes
      <4>2. o \in Nat
        BY <1>2, <4>1, OffsetType
      <4>3. node.post_delay \in Delay
        BY <3>2 DEF Node
      <4> QED
        BY <4>2, <4>3, CounterAssumption DEF Delay
    <3> HIDE DEF o, node
    <3>4. Behind(node) \in Nat /\ Behind(node) <= Stride
      BY <3>2, <3>3, Sizes DEF Behind, Stride
    <3>5. /\ Reach(k) \in Nat /\ Reach(k + 1) = Reach(k) + Stride /\ Reach(k + 1) \in Nat
          /\ Reach(k + 1) <= Horizon /\ Horizon \in Nat /\ 2 * Horizon < M
      BY <1>1, Sizes
    <3>6. o + Behind(node) <= Reach(k + 1) /\ o + Behind(node) < M
      BY <3>2, <3>3, <3>4, <3>5, Sizes
    <3>7. Instant(count) = o + Behind(node)
      BY <3>1, <3>2, <3>6, SlotOffset, Sizes DEF Instant, o, node
    <3>8. 1 \in DOMAIN queue.nodes /\ Offset(START_COUNT, queue.nodes[1]) <= o
      <4>1. DOMAIN queue.nodes = 1 .. Len(queue.nodes) /\ Len(queue.nodes) \in Nat /\ g \in Nat
        BY <1>2
      <4>2. 1 \in DOMAIN queue.nodes /\ (g = 1 \/ 1 < g)
        BY <4>1
      <4>3. g # 1 => Offset(START_COUNT, queue.nodes[1]) < o
        BY <1>2, <4>2 DEF Booked, Ordered, o, node
      <4>4. Offset(START_COUNT, queue.nodes[1]) \in Nat
        BY <1>2, <4>2, OffsetType, Sizes
      <4> QED
        BY <3>3, <4>2, <4>3, <4>4 DEF o, node
    <3>9. Offset(START_COUNT, queue.nodes[1]) \in Nat
      BY <1>2, <3>8, OffsetType, Sizes
    <3>10. Offset(START_COUNT, queue.nodes[1]) <= Instant(count) /\ Instant(count) <= Reach(k + 1)
      BY <3>3, <3>4, <3>6, <3>7, <3>8, <3>9
    <3> QED
      BY <1>3, <1>4, <2>1, <3>8, <3>10
  <2> QED
    BY <2>3, <2>4
<1> QED
  BY <1>7, <1>8

(* The packet that jit_enqueue accepts takes its place in the order, and    *)
(* the head of the queue stays the head when it is a missed packet.         *)
LEMMA AcceptedBooked ==
  ASSUME OnceInv, down # Listening,
         NEW count \in Departures(queue, down.time, requests[down.id]),
         JitVerdict(queue, down.time, NodeOf(requests[down.id], count)) = "OK",
         NEW s \in Sorted(Append(queue.nodes, NodeOf(requests[down.id], count)),
                          1 .. Len(queue.nodes) + 1)
  PROVE  /\ Within(START_COUNT, Reach(meas.requested + 1), s)
         /\ Ordered(START_COUNT, s)
         /\ \A i \in DOMAIN s : OwnRequest(s[i]) /\ s[i].post_delay <= LONGEST
         /\ Chosen /\ jit_pc = "dequeue" =>
              \A i \in DOMAIN s : Missed(s[i]) => i = 1 /\ pkt_index > 1
<1> DEFINE p     == requests[down.id]
           new   == NodeOf(p, count)
           old   == queue.nodes
           n     == Len(old)
           nodes == Append(old, new)
           k     == meas.requested
<1>1. /\ p.pkt = down.id /\ down.id \in Payload /\ p.count_us \in Time /\ p.pkt_type \in PktTypes
      /\ p.pkt_type \in {CLASS_A, CLASS_C} /\ p.toa \in TimeOnAir /\ p.toa <= LONGEST
      /\ clock \in Nat /\ k \in Nat /\ k + 1 <= MAX_RECV /\ down.time \in Time
  BY Handed
<1>2. /\ SoundQueue(queue) /\ old \in Seq(Node) /\ Spaced(old) /\ Reserved(old)
      /\ Within(START_COUNT, Reach(k), old) /\ Ordered(START_COUNT, old)
      /\ \A i \in DOMAIN old : OwnRequest(old[i]) /\ old[i].post_delay <= LONGEST
  BY DEF OnceInv, Line, IInv, QueueInv, SoundQueue, Queues, Booked
<1>3. /\ count \in Time /\ Instant(count) \in Nat /\ Instant(count) <= Reach(k + 1)
      /\ \/ clock <= Instant(count)
         \/ /\ p.pkt_type = CLASS_C
            /\ 1 \in DOMAIN old /\ Offset(START_COUNT, old[1]) <= Instant(count)
  BY AcceptedInstant
<1>4. /\ new \in Node /\ new.pre_delay >= TX_START_DELAY
      /\ new.count_us = count /\ new.pkt_type = p.pkt_type /\ new.pkt = p.pkt
      /\ new.post_delay = p.toa
  <2>1. new \in Node /\ new.pre_delay >= TX_START_DELAY
    BY <1>1, <1>3, NodeOfType
  <2>2. p.pkt_type # BEACON
    BY <1>1 DEF CLASS_A, CLASS_C, BEACON
  <2> QED
    BY <2>1, <2>2 DEF NodeOf, PostDelay
<1>5. \A i \in DOMAIN old : Clear(new, old[i]) /\ Clear(old[i], new)
  BY <1>2, <1>4, AcceptedClear
<1>6. OwnRequest(new) /\ new.post_delay <= LONGEST
  <2>1. requests[down.id] # NoRequest
    BY DEF OnceInv, Line, Stamped
  <2>2. new.pkt_type # CLASS_C => new.count_us = p.count_us
    BY <1>4 DEF Departures
  <2> QED
    BY <1>1, <1>4, <2>1, <2>2 DEF OwnRequest
<1>7. START_COUNT \in Time /\ Reach(k + 1) \in Nat /\ 2 * Reach(k + 1) < M /\ Reach(k) <= Reach(k + 1)
  <2>1. START_COUNT \in Time
    BY Sizes
  <2> QED
    BY <1>1, <2>1, ReachStep
<1> HIDE DEF new
<1>8. /\ nodes \in Seq(Node) /\ Len(nodes) = n + 1 /\ n \in Nat /\ DOMAIN nodes = 1 .. n + 1
      /\ DOMAIN old = 1 .. n
      /\ nodes[n + 1] = new /\ \A i \in 1 .. n : nodes[i] = old[i]
  BY <1>2, <1>4
<1>9. s \in Sorted(nodes, DOMAIN nodes)
  BY <1>8 DEF new
<1> HIDE DEF nodes, old, n
<1>10. PICK f \in [DOMAIN s -> DOMAIN nodes] : \A i \in DOMAIN s : s[i] = nodes[f[i]]
  <2>1. PICK f \in [DOMAIN s -> DOMAIN nodes] :
          /\ \A i, j \in DOMAIN s : f[i] = f[j] => i = j
          /\ \A i \in DOMAIN s : s[i] = nodes[f[i]]
    BY <1>8, <1>9, SortedNodes
  <2> QED
    BY <2>1
<1>11. \A i \in DOMAIN nodes : Offset(START_COUNT, nodes[i]) <= Reach(k + 1)
  <2> SUFFICES ASSUME NEW i \in 1 .. n + 1 PROVE Offset(START_COUNT, nodes[i]) <= Reach(k + 1)
    BY <1>8
  <2>1. CASE i = n + 1
    BY <1>3, <1>4, <1>8, <2>1 DEF Offset, Instant
  <2>2. CASE i \in 1 .. n
    <3>1. Offset(START_COUNT, old[i]) <= Reach(k) /\ Offset(START_COUNT, old[i]) \in Nat
      BY <1>2, <1>7, <1>8, <2>2, OffsetType DEF Within
    <3>2. Reach(k) \in Nat
      BY <1>1, Sizes
    <3> QED
      BY <1>7, <1>8, <2>2, <3>1, <3>2
  <2> QED
    BY <1>8, <2>1, <2>2
<1>12. Spaced(nodes) /\ Reserved(nodes)
  <2>1. ASSUME NEW i \in 1 .. n + 1, NEW j \in 1 .. n + 1, i # j PROVE Clear(nodes[i], nodes[j])
    <3>1. CASE i \in 1 .. n /\ j \in 1 .. n
      BY <1>2, <1>8, <2>1, <3>1 DEF Spaced
    <3>2. CASE i = n + 1
      <4>1. j \in 1 .. n
        BY <1>8, <2>1, <3>2
      <4> QED
        BY <1>5, <1>8, <3>2, <4>1
    <3>3. CASE j = n + 1
      <4>1. i \in 1 .. n
        BY <1>8, <2>1, <3>3
      <4> QED
        BY <1>5, <1>8, <3>3, <4>1
    <3> QED
      BY <1>8, <3>1, <3>2, <3>3
  <2>2. ASSUME NEW i \in 1 .. n + 1 PROVE nodes[i].pre_delay >= TX_START_DELAY
    BY <1>2, <1>4, <1>8 DEF Reserved
  <2> QED
    BY <1>8, <2>1, <2>2 DEF Spaced, Reserved
<1>13. Within(START_COUNT, Reach(k + 1), s) /\ Ordered(START_COUNT, s)
  BY <1>7, <1>8, <1>9, <1>11, <1>12, SortedOrdered
<1>14. \A i \in DOMAIN nodes : OwnRequest(nodes[i]) /\ nodes[i].post_delay <= LONGEST
  BY <1>2, <1>6, <1>8
<1>15. \A i \in DOMAIN s : OwnRequest(s[i]) /\ s[i].post_delay <= LONGEST
  BY <1>10, <1>14
<1>16. ASSUME Chosen, jit_pc = "dequeue", NEW i \in DOMAIN s, Missed(s[i])
       PROVE  i = 1 /\ pkt_index > 1
  <2>1. f[i] \in 1 .. n + 1 /\ Missed(nodes[f[i]])
    BY <1>8, <1>10, <1>16
  <2>2. ~Missed(new)
    <3>1. CASE p.pkt_type = CLASS_C
      BY <1>4, <3>1 DEF Missed, CLASS_A, CLASS_C
    <3>2. CASE p.pkt_type # CLASS_C
      <4>1. clock <= Instant(count)
        BY <1>3, <3>2
      <4>2. ~(Instant(count) < clock)
        BY <1>1, <1>3, <4>1
      <4> QED
        BY <1>4, <4>2 DEF Missed
    <3> QED
      BY <3>1, <3>2
  <2>3. f[i] \in 1 .. n
    BY <1>8, <2>1, <2>2
  <2>4. Missed(old[f[i]])
    BY <1>8, <2>1, <2>3
  <2>5. f[i] = 1 /\ pkt_index > 1
    BY <1>8, <1>16, <2>3, <2>4 DEF Chosen, old
  <2> DEFINE o(x) == Offset(START_COUNT, x)
  <2>6. 1 \in DOMAIN old /\ o(old[1]) \in Nat /\ o(old[1]) < clock
    <3>1. 1 \in DOMAIN old
      BY <1>8, <2>3, <2>5
    <3>2. Instant(old[1].count_us) < clock
      BY <2>4, <2>5 DEF Missed
    <3> QED
      BY <1>2, <1>7, <3>1, <3>2, OffsetType DEF Offset, Instant
  <2>7. o(old[1]) < Instant(count)
    <3>1. CASE clock <= Instant(count)
      BY <1>1, <1>3, <2>6, <3>1
    <3>2. CASE o(old[1]) <= Instant(count)
      <4>1. Spaced(nodes) /\ 1 \in DOMAIN nodes /\ n + 1 \in DOMAIN nodes /\ 1 # n + 1
        BY <1>8, <1>12, <2>6
      <4>2. Offset(START_COUNT, nodes[1]) # Offset(START_COUNT, nodes[n + 1])
        BY <1>7, <1>8, <4>1, SpacedApart
      <4>3. o(old[1]) # Instant(count)
        BY <1>4, <1>8, <2>6, <4>2 DEF Offset, Instant
      <4> QED
        BY <1>3, <2>6, <3>2, <4>3
    <3> QED
      BY <1>3, <3>1, <3>2
  <2>8. ASSUME NEW x \in 1 .. 1, NEW j \in DOMAIN nodes, x < j
        PROVE  Offset(START_COUNT, nodes[x]) < Offset(START_COUNT, nodes[j])
    <3>1. x = 1 /\ nodes[x] = old[1]
      BY <1>8, <2>6
    <3>2. CASE j = n + 1
      BY <1>4, <1>8, <2>7, <3>1, <3>2 DEF Offset, Instant
    <3>3. CASE j \in 1 .. n
      BY <1>2, <1>8, <2>6, <2>8, <3>1, <3>3 DEF Ordered
    <3> QED
      BY <1>8, <3>2, <3>3
  <2>9. s \in Seq(Node) /\ Len(s) = Len(nodes) /\ s[1] = nodes[1]
    <3>1. 1 \in 0 .. Len(nodes)
      BY <1>8
    <3>2. s \in Seq(Node) /\ Len(s) = Len(nodes) /\ \A m \in 1 .. 1 : s[m] = nodes[m]
      BY <1>7, <1>8, <1>9, <1>13, <2>8, <3>1, PrefixKept
    <3> QED
      BY <3>2
  <2>10. s[i] = s[1] /\ DOMAIN s = 1 .. Len(s) /\ 1 \in DOMAIN s
    BY <1>8, <1>10, <2>5, <2>9
  <2>11. Offset(START_COUNT, s[1]) \in Nat
    BY <1>7, <2>9, <2>10, OffsetType
  <2>12. ~(1 < i)
    BY <1>13, <2>10, <2>11 DEF Ordered
  <2> QED
    BY <2>5, <2>9, <2>10, <2>12
<1> QED
  BY <1>13, <1>15, <1>16

(* Removal keeps the others in order.                                       *)
LEMMA KeepingBooked ==
  ASSUME OnceInv, NEW K \in SUBSET DOMAIN queue.nodes, NEW s \in Sorted(queue.nodes, K)
  PROVE  Booked(s)
<1>1. /\ queue.nodes \in Seq(Node) /\ Spaced(queue.nodes) /\ Reserved(queue.nodes)
      /\ Booked(queue.nodes)
  BY DEF OnceInv, Line, IInv, QueueInv, SoundQueue, Queues
<1>2. meas.requested \in Nat /\ meas.requested <= MAX_RECV
  <2>1. meas.requested \in Nat /\ received \in 0 .. MAX_RECV
    BY DEF OnceInv, IInv, QueueInv, TypeOK
  <2>2. meas.requested <= received
    BY <2>1 DEF OnceInv, Line, Stamped
  <2> QED
    BY <2>1, <2>2, Sizes
<1>3. Reach(meas.requested) \in Nat /\ 2 * Reach(meas.requested) < M /\ START_COUNT \in Time
  <2>1. Reach(meas.requested) \in Nat /\ Reach(meas.requested) <= Horizon
    BY <1>2, Sizes
  <2> QED
    BY <2>1, Sizes
<1>4. Within(START_COUNT, Reach(meas.requested), s) /\ Ordered(START_COUNT, s)
  <2>1. \A i \in K : Offset(START_COUNT, queue.nodes[i]) <= Reach(meas.requested)
    BY <1>1 DEF Booked, Within
  <2> QED
    BY <1>1, <1>3, <2>1, SortedOrdered
<1>5. PICK f \in [DOMAIN s -> K] : \A i \in DOMAIN s : s[i] = queue.nodes[f[i]]
  BY <1>1, SortedNodes
<1>6. \A i \in DOMAIN s : OwnRequest(s[i]) /\ s[i].post_delay <= LONGEST
  <2>1. \A j \in DOMAIN queue.nodes :
          OwnRequest(queue.nodes[j]) /\ queue.nodes[j].post_delay <= LONGEST
    BY <1>1 DEF Booked
  <2>2. \A i \in DOMAIN s : f[i] \in DOMAIN queue.nodes /\ s[i] = queue.nodes[f[i]]
    BY <1>5
  <2> QED
    BY <2>1, <2>2
<1> QED
  BY <1>4, <1>6 DEF Booked

(* A PULL_RESP arrives, and those under other identities stay as they are.  *)
LEMMA ReceiveLine ==
  ASSUME OnceInv, NEW id \in Payload, Receive(id)
  PROVE  Line'
<1>1. /\ TypeOK /\ Requested /\ SoundQueue(queue) /\ Line
      /\ DOMAIN requests = Payload
  BY DEF OnceInv, IInv, QueueInv, Requested
<1>2. PICK p \in IF requests[id] = NoRequest THEN NewRequests(id) ELSE {requests[id]} :
        /\ requests' = [requests EXCEPT ![id] = p]
        /\ down' = IF p.freq_ok THEN [pc |-> "enqueue", id |-> id, time |-> Now, at |-> clock]
                                ELSE Listening
  BY DEF Receive
<1>3. /\ clock' = clock /\ queue' = queue /\ jit_pc' = jit_pc /\ jit_time' = jit_time
      /\ pkt_index' = pkt_index /\ pkt' = pkt /\ aired' = aired /\ meas' = meas
      /\ down = Listening /\ clock <= RECV_UNTIL /\ received' = received + 1
  BY DEF Receive, jitVars
<1>4. Parsed(p) /\ p # NoRequest /\ p.pkt = id /\ p.pkt_type \in {CLASS_A, CLASS_C}
  <2>1. CASE requests[id] = NoRequest
    <3>1. p \in NewRequests(id)
      BY <1>2, <2>1
    <3>2. Parsed(p)
      BY <1>1, <3>1, NewRequestsParsed
    <3>3. p.pkt = id /\ p.pkt_type \in {CLASS_A, CLASS_C}
      BY <3>1 DEF NewRequests
    <3>4. p \in [pkt : Payload, count_us : Time, pkt_type : PktTypes, toa : Nat, freq_ok : BOOLEAN]
      <4>1. \A lead \in Leads : Plus(Now, lead) \in Time
        BY <1>1, NowType, PlusType, TimingAssumption
      <4>2. 0 \in Time /\ 0 \in Nat /\ CLASS_A \in PktTypes /\ CLASS_C \in PktTypes
            /\ \A toa \in TimeOnAir : toa \in Nat
        BY CounterAssumption, DelayAssumption, TimingAssumption DEF Time
      <4>3. CASE \E lead \in Leads, toa \in TimeOnAir :
                   p = [pkt |-> id, count_us |-> Plus(Now, lead), pkt_type |-> CLASS_A,
                        toa |-> toa, freq_ok |-> TRUE]
        BY <4>1, <4>2, <4>3
      <4>4. CASE \E toa \in TimeOnAir :
                   p = [pkt |-> id, count_us |-> 0, pkt_type |-> CLASS_C, toa |-> toa,
                        freq_ok |-> TRUE]
        BY <4>2, <4>4
      <4>5. CASE p = [pkt |-> id, count_us |-> 0, pkt_type |-> CLASS_C, toa |-> 0, freq_ok |-> FALSE]
        BY <4>2, <4>5
      <4> QED
        BY <3>1, <4>3, <4>4, <4>5 DEF NewRequests
    <3> QED
      BY <3>2, <3>3, <3>4, TimingAssumption
  <2>2. CASE requests[id] # NoRequest
    BY <1>1, <1>2, <2>2 DEF Requested, Line, Identified
  <2> QED
    BY <2>1, <2>2
<1>5. \A i \in Payload : /\ requests[i] # NoRequest => requests'[i] = requests[i]
                         /\ i # id => requests'[i] = requests[i]
  BY <1>1, <1>2
<1>6. requests'[id] = p
  BY <1>1, <1>2
<1>7. Stamped'
  <2>1. down' # Listening => down'.time = Plus(START_COUNT, down'.at) /\ down'.at = clock /\ down'.id = id
    BY <1>2 DEF Now
  <2>2. clock \in Nat /\ DOWN_LAG \in Nat /\ clock <= clock + DOWN_LAG
    BY <1>1, Sizes, CounterAssumption DEF TypeOK, Time
  <2>3. meas'.requested + (IF down' = Listening THEN 0 ELSE 1) <= received'
    <3>1. meas.requested \in Nat /\ received \in Nat /\ meas.requested + 0 <= received
      BY <1>1, <1>3 DEF Line, Stamped, TypeOK
    <3> QED
      BY <1>3, <3>1
  <2> QED
    BY <1>3, <1>4, <1>6, <2>1, <2>2, <2>3 DEF Stamped
<1>8. Identified'
  BY <1>1, <1>4, <1>5, <1>6 DEF Line, Identified
<1>9. ASSUME NEW node \in Node, OwnRequest(node) PROVE OwnRequest(node)'
  <2>1. node.pkt \in Payload
    BY DEF Node
  <2>2. requests'[node.pkt] = requests[node.pkt]
    BY <1>5, <1>9, <2>1 DEF OwnRequest
  <2> QED
    BY <1>9, <2>2 DEF OwnRequest
<1>10. Booked(queue.nodes)'
  <2>1. \A i \in DOMAIN queue.nodes : queue.nodes[i] \in Node
    BY <1>1 DEF SoundQueue, Queues
  <2>2. \A i \in DOMAIN queue.nodes : OwnRequest(queue.nodes[i])'
    BY <1>1, <1>3, <1>9, <2>1 DEF Line, Booked, OwnRequest
  <2> QED
    BY <1>1, <1>3, <2>2 DEF Line, Booked, OwnRequest, Within, Ordered, Offset
<1>11. Chosen'
  BY <1>1, <1>3 DEF Line, Chosen, Missed, Instant
<1>12. InTime'
  <2>1. InFlight' => InFlight /\ pkt \in Node /\ OwnRequest(pkt)'
    BY <1>1, <1>3, <1>9 DEF Line, InTime, InFlight, TypeOK, OwnRequest
  <2> QED
    BY <1>1, <1>3, <2>1 DEF Line, InTime, InFlight, Now, OwnRequest, Instant
<1>13. Answered' /\ Punctual'
  <2>1. \A e \in aired : e.pkt \in Payload /\ requests'[e.pkt] = requests[e.pkt]
    BY <1>1, <1>5 DEF Line, Answered
  <2> QED
    BY <1>1, <1>3, <2>1 DEF Line, Answered, Punctual, Instant
<1>14. AtMostOnce'
  BY <1>1, <1>3 DEF Line, AtMostOnce
<1> QED
  BY <1>7, <1>8, <1>10, <1>11, <1>12, <1>13, <1>14 DEF Line

(* thread_down books a packet.                                              *)
LEMMA EnqueueLine ==
  ASSUME OnceInv, Enqueue
  PROVE  Line'
<1>1. /\ TypeOK /\ SoundQueue(queue) /\ Line /\ QueueInv
  BY DEF OnceInv, IInv, QueueInv
<1>2. down # Listening
  BY DEF Enqueue, Listening
<1>3. PICK r \in JitEnqueue(queue, down.time, requests[down.id]) :
        /\ queue' = r.queue
        /\ meas' = [meas EXCEPT !.requested = @ + 1,
                                !.rejected = IF r.err = "OK" THEN @ ELSE @ + 1]
  BY DEF Enqueue
<1>4. /\ clock' = clock /\ jit_pc' = jit_pc /\ jit_time' = jit_time
      /\ pkt_index' = pkt_index /\ pkt' = pkt /\ aired' = aired /\ requests' = requests
      /\ received' = received /\ down' = Listening
  BY DEF Enqueue, jitVars
<1>5. meas'.requested = meas.requested + 1 /\ meas.requested \in Nat
  BY <1>1, EnqueueQueue DEF TypeOK
<1>6. meas.requested + 1 <= MAX_RECV
  BY <1>2, Handed
<1>7. PICK count \in Departures(queue, down.time, requests[down.id]) :
         r.queue \in IF JitVerdict(queue, down.time, NodeOf(requests[down.id], count)) = "OK"
                       THEN Inserted(queue, NodeOf(requests[down.id], count)) ELSE {queue}
  BY DEF JitEnqueue
<1>8. Booked(queue.nodes)' /\ Chosen'
  <2>1. CASE JitVerdict(queue, down.time, NodeOf(requests[down.id], count)) = "OK"
    <3>1. r.queue.nodes \in Sorted(Append(queue.nodes, NodeOf(requests[down.id], count)),
                                   1 .. Len(queue.nodes) + 1)
      BY <1>7, <2>1 DEF Inserted
    <3> DEFINE s == r.queue.nodes
    <3>2. /\ Within(START_COUNT, Reach(meas.requested + 1), s)
          /\ Ordered(START_COUNT, s)
          /\ \A i \in DOMAIN s : OwnRequest(s[i]) /\ s[i].post_delay <= LONGEST
          /\ Chosen /\ jit_pc = "dequeue" =>
               \A i \in DOMAIN s : Missed(s[i]) => i = 1 /\ pkt_index > 1
      BY <1>2, <2>1, <3>1, AcceptedBooked
    <3>3. queue'.nodes = s
      BY <1>3
    <3> HIDE DEF s
    <3>4. Booked(queue.nodes)'
      BY <1>4, <1>5, <3>2, <3>3 DEF Booked, OwnRequest, Within, Ordered, Offset
    <3>5. Chosen'
      BY <1>1, <1>4, <3>2, <3>3 DEF Line, Chosen, Missed, Instant
    <3> QED
      BY <3>4, <3>5
  <2>2. CASE JitVerdict(queue, down.time, NodeOf(requests[down.id], count)) # "OK"
    <3>1. queue' = queue
      BY <1>3, <1>7, <2>2
    <3>2. Within(START_COUNT, Reach(meas.requested + 1), queue.nodes)
      <4>1. ASSUME NEW i \in DOMAIN queue.nodes
            PROVE  Offset(START_COUNT, queue.nodes[i]) <= Reach(meas.requested + 1)
        <5>1. queue.nodes \in Seq(Node) /\ START_COUNT \in Time
          BY <1>1, Sizes DEF SoundQueue, Queues
        <5>2. Offset(START_COUNT, queue.nodes[i]) \in Nat
          BY <5>1, OffsetType
        <5>3. Offset(START_COUNT, queue.nodes[i]) <= Reach(meas.requested)
          BY <1>1 DEF Line, Booked, Within
        <5>4. /\ Reach(meas.requested) \in Nat /\ Reach(meas.requested + 1) \in Nat
              /\ Reach(meas.requested) <= Reach(meas.requested + 1)
          BY <1>5, <1>6, ReachStep
        <5> QED
          BY <5>2, <5>3, <5>4
      <4> QED
        BY <4>1 DEF Within
    <3>3. Booked(queue.nodes)'
      BY <1>1, <1>4, <1>5, <3>1, <3>2 DEF Line, Booked, OwnRequest, Within, Ordered, Offset
    <3>4. Chosen'
      BY <1>1, <1>4, <3>1 DEF Line, Chosen, Missed, Instant
    <3> QED
      BY <3>3, <3>4
  <2> QED
    BY <2>1, <2>2
<1>9. Stamped'
  <2>1. meas.requested + 1 <= received /\ received \in Nat
    BY <1>1, <1>2 DEF Line, Stamped, TypeOK
  <2> QED
    BY <1>4, <1>5, <2>1 DEF Stamped
<1>10. Identified' /\ Answered' /\ Punctual' /\ AtMostOnce'
  BY <1>1, <1>4 DEF Line, Identified, Answered, Punctual, AtMostOnce
<1>11. InTime'
  BY <1>1, <1>4 DEF Line, InTime, InFlight, Now, OwnRequest
<1> QED
  BY <1>8, <1>9, <1>10, <1>11 DEF Line

-----------------------------------------------------------------------------
(* thread_jit *)

(* A packet that jit_peek looked at and kept lies ahead, less than the      *)
(* horizon; so does the one that it chose.                                  *)
LEMMA KeptAhead ==
  ASSUME OnceInv, jit_time = Now, NEW node \in Node, ~Outdated(node, jit_time)
  PROVE  clock <= Instant(node.count_us)
<1>1. clock \in Time /\ clock + TX_MAX_ADVANCE_DELAY < M /\ clock \in Nat
  BY Sizes, CounterAssumption DEF OnceInv, Line, InTime, IInv, QueueInv, TypeOK, Time
<1>2. node.count_us \in Time
  BY DEF Node
<1> DEFINE a == Instant(node.count_us)
           l == Lead(node, jit_time)
<1>3. a \in Nat /\ l = IF a >= clock THEN a - clock ELSE M - (clock - a)
  BY <1>1, <1>2, LeadOfInstant DEF Lead, Now
<1>4. ~(l >= TX_MAX_ADVANCE_DELAY)
  BY DEF Outdated
<1> HIDE DEF a, l
<1>5. clock <= a
  BY <1>1, <1>3, <1>4, Sizes
<1> QED
  BY <1>5 DEF a

(* jit_peek drops every packet it is too late for, but the one that takes   *)
(* the place of a dropped head: that one is first, and was not looked at.   *)
LEMMA PeekLine ==
  ASSUME OnceInv, Peek
  PROVE  Line'
<1>1. /\ TypeOK /\ SoundQueue(queue) /\ Line
      /\ queue.nodes \in Seq(Node) /\ START_COUNT \in Time
  BY Sizes DEF OnceInv, IInv, QueueInv, SoundQueue, Queues
<1>2. PICK r \in JitPeek(queue, jit_time) :
        /\ queue' = r.queue
        /\ IF r.index = 0 THEN Rest
           ELSE jit_pc' = "dequeue" /\ pkt_index' = r.index /\ UNCHANGED <<since, pkt>>
  BY DEF Peek
<1>3. /\ clock' = clock /\ jit_time' = jit_time /\ aired' = aired /\ requests' = requests
      /\ received' = received /\ down' = down /\ meas' = meas
      /\ jit_pc = "peek" /\ jit_time = Now /\ jit_pc' \in {"delay", "dequeue"}
  BY <1>1, <1>2 DEF Peek, downVars, Rest, Line, InTime
<1> DEFINE nodes == queue.nodes
           K     == PeekKept(nodes, jit_time)
           s     == queue'.nodes
<1>4. K \in SUBSET DOMAIN nodes
  BY DEF PeekKept
<1>5. s \in Sorted(nodes, K)
  BY <1>2 DEF JitPeek, Keeping
<1>6. Booked(s)
  BY <1>4, <1>5, KeepingBooked
<1>7. Booked(queue.nodes)'
  BY <1>3, <1>6 DEF Booked, OwnRequest, Within, Ordered, Offset
<1>8. Chosen'
  <2> SUFFICES ASSUME jit_pc' = "dequeue", NEW i \in DOMAIN s, Missed(s[i])
               PROVE  i = 1 /\ pkt_index' > 1
    BY <1>3 DEF Chosen, Missed, Instant
  <2>1. PICK f \in [DOMAIN s -> K] :
          /\ \A m, j \in DOMAIN s : f[m] = f[j] => m = j
          /\ \A m \in DOMAIN s : s[m] = nodes[f[m]]
    BY <1>1, <1>4, <1>5, SortedNodes
  <2>2. s \in Seq(Node) /\ DOMAIN s = 1 .. Len(s) /\ Len(s) \in Nat
    BY <1>1, <1>4, <1>5, SortedNodes
  <2>3. f[i] \in K /\ Missed(nodes[f[i]]) /\ f[i] \in DOMAIN nodes /\ nodes[f[i]] \in Node
    BY <1>1, <1>4, <2>1
  <2>4. nodes[f[i]].count_us \in Time /\ Instant(nodes[f[i]].count_us) \in Nat /\ clock \in Nat
    BY <1>1, <2>3, LeadOfInstant, InstantOfTime DEF Node, TypeOK
  <2>5. Outdated(nodes[f[i]], jit_time)
    <3>1. ~(clock <= Instant(nodes[f[i]].count_us))
      BY <2>3, <2>4 DEF Missed
    <3> QED
      BY <1>3, <2>3, <3>1, KeptAhead
  <2>6. f[i] = 2 /\ HeadDropped(nodes, jit_time) /\ 1 \notin K
    BY <2>3, <2>5 DEF PeekKept, HeadDropped
  <2>7. i = 1
    <3>1. SUFFICES ASSUME 1 < i PROVE FALSE
      BY <2>2
    <3>2. 1 \in DOMAIN s /\ f[1] \in K /\ f[1] # 2 /\ f[1] # 1
      BY <2>1, <2>2, <2>6, <3>1
    <3>3. f[1] \in DOMAIN nodes /\ 2 \in DOMAIN nodes /\ 2 < f[1]
      BY <1>1, <1>4, <2>3, <2>6, <3>2
    <3>4. Offset(START_COUNT, nodes[2]) < Offset(START_COUNT, nodes[f[1]])
      BY <1>1, <3>3 DEF Line, Booked, Ordered
    <3>5. Offset(START_COUNT, s[1]) < Offset(START_COUNT, s[i])
      BY <1>6, <3>1, <3>2 DEF Booked, Ordered
    <3>6. s[1] = nodes[f[1]] /\ s[i] = nodes[2]
      BY <2>1, <2>6, <3>2
    <3>7. Offset(START_COUNT, nodes[2]) \in Nat /\ Offset(START_COUNT, nodes[f[1]]) \in Nat
      BY <1>1, <3>3, OffsetType
    <3> QED
      BY <3>4, <3>5, <3>6, <3>7
  <2>8. pkt_index' > 1
    <3>1. \E k : r.queue = k /\ r.index = PeekIndex(k.nodes, 2, jit_time)
      BY <2>6 DEF JitPeek
    <3>2. r.index = PeekIndex(s, 2, jit_time)
      BY <1>2, <3>1
    <3>3. r.index # 0 /\ pkt_index' = r.index
      BY <1>2 DEF Rest
    <3>4. r.index >= 2 /\ r.index \in DOMAIN s
      BY <3>2, <3>3 DEF PeekIndex
    <3> QED
      BY <2>2, <3>3, <3>4
  <2> QED
    BY <2>7, <2>8
<1>9. Stamped' /\ Identified' /\ Answered' /\ Punctual' /\ AtMostOnce'
  BY <1>1, <1>3 DEF Line, Stamped, Identified, Answered, Punctual, AtMostOnce
<1>10. InTime'
  BY <1>1, <1>3 DEF Line, InTime, InFlight, Now
<1> QED
  BY <1>7, <1>8, <1>9, <1>10 DEF Line

(* The packet that is taken out is the one that is due, or another one that *)
(* is still to come.                                                        *)
LEMMA DequeueLine ==
  ASSUME OnceInv, Dequeue
  PROVE  Line'
<1>1. /\ TypeOK /\ SoundQueue(queue) /\ Line
      /\ queue.nodes \in Seq(Node) /\ START_COUNT \in Time
      /\ pkt_index \in DOMAIN queue.nodes
  BY Sizes DEF OnceInv, IInv, QueueInv, SoundQueue, Queues, Held, Dequeue
<1>2. /\ clock' = clock /\ jit_time' = jit_time /\ aired' = aired /\ requests' = requests
      /\ received' = received /\ down' = down /\ meas' = meas /\ jit_pc = "dequeue"
      /\ \/ jit_pc' = "delay"
         \/ jit_pc' = "send" /\ pkt' = queue.nodes[pkt_index]
  BY DEF Dequeue, downVars, Rest
<1>3. queue'.nodes \in Sorted(queue.nodes, DOMAIN queue.nodes \ {pkt_index})
  BY DEF Dequeue, JitDequeue, Keeping
<1>4. Booked(queue'.nodes)
  BY <1>3, KeepingBooked
<1>5. Booked(queue.nodes)'
  BY <1>2, <1>4 DEF Booked, OwnRequest, Within, Ordered, Offset
<1> DEFINE node == queue.nodes[pkt_index]
<1>6. OwnRequest(node) /\ node \in Node
  BY <1>1 DEF Line, Booked
<1>7. node.pkt_type = CLASS_A => clock <= Instant(node.count_us) /\ Instant(node.count_us) <= Horizon
  <2>1. ~Missed(node)
    <3>1. Missed(node) => pkt_index = 1 /\ pkt_index > 1
      BY <1>1, <1>2 DEF Line, Chosen
    <3> QED
      BY <3>1
  <2>2. Instant(node.count_us) \in Nat /\ clock \in Nat
    BY <1>1, <1>6, LeadOfInstant, InstantOfTime DEF Node, TypeOK
  <2>3. Instant(node.count_us) <= Reach(meas.requested)
    BY <1>1 DEF Line, Booked, Within, Offset, Instant
  <2>4. Reach(meas.requested) \in Nat /\ Reach(meas.requested) <= Horizon
    <3>1. meas.requested \in Nat /\ received \in 0 .. MAX_RECV /\ meas.requested <= received
      BY <1>1 DEF Line, Stamped, TypeOK
    <3>2. meas.requested <= MAX_RECV
      BY <3>1, Sizes
    <3> QED
      BY <3>1, <3>2, Sizes
  <2> HIDE DEF node
  <2> QED
    BY <2>1, <2>2, <2>3, <2>4, Sizes DEF Missed
<1>8. Chosen' /\ Stamped' /\ Identified' /\ Answered' /\ Punctual' /\ AtMostOnce'
  BY <1>1, <1>2 DEF Line, Chosen, Stamped, Identified, Answered, Punctual, AtMostOnce
<1>9. InTime'
  BY <1>1, <1>2, <1>6, <1>7 DEF Line, InTime, InFlight, OwnRequest, Instant
<1> QED
  BY <1>5, <1>8, <1>9 DEF Line

(* The emission starts at the timestamp, or later by no more than the start *)
(* of the oscillator. An earlier one of the same packet would have ended by    *)
(* now, and so would have begun before the timestamp.                       *)
LEMMA SetTxLine ==
  ASSUME OnceInv, SetTx
  PROVE  Line'
<1>1. /\ TypeOK /\ Line /\ Status /\ AirFree
  BY DEF OnceInv, IInv, QueueInv
<1>2. /\ clock' = clock /\ requests' = requests /\ received' = received /\ down' = down
      /\ meas' = meas /\ queue' = queue /\ pkt' = pkt /\ jit_pc = "wait" /\ jit_pc' = "emit"
      /\ InFlight /\ InFlight' /\ Departing
  BY DEF SetTx, downVars, InFlight
<1> DEFINE a   == Instant(pkt.count_us)
           new == [pkt |-> pkt.pkt, pkt_type |-> pkt.pkt_type,
                   due |-> clock + Signed(Minus(pkt.count_us, Now)),
                   start |-> clock + TCXO_STARTUP, stop |-> tx_end']
<1>3. aired' = aired \cup {new} /\ tx_end' = clock + TCXO_STARTUP + pkt.post_delay
  BY DEF SetTx
<1>4. /\ pkt \in Node /\ OwnRequest(pkt) /\ clock \in Time /\ clock \in Nat /\ TCXO_STARTUP \in Nat
      /\ pkt.count_us \in Time /\ pkt.post_delay \in Nat /\ pkt.pkt \in Payload
  <2>1. pkt \in Node /\ OwnRequest(pkt) /\ clock \in Time
    BY <1>1, <1>2 DEF TypeOK, Line, InTime
  <2>2. pkt.count_us \in Time /\ pkt.post_delay \in Delay /\ pkt.pkt \in Payload
    BY <2>1 DEF Node
  <2> QED
    BY <2>1, <2>2, Sizes, CounterAssumption DEF Time, Delay
<1>5. a \in Nat /\ Minus(pkt.count_us, Now) = IF a >= clock THEN a - clock ELSE M - (clock - a)
  BY <1>4, LeadOfInstant DEF Now
<1>6. /\ new.pkt = pkt.pkt /\ new.pkt_type = pkt.pkt_type
      /\ new.due = clock + Signed(Minus(pkt.count_us, Now))
      /\ new.start = clock + TCXO_STARTUP /\ new.stop = tx_end'
  OBVIOUS
<1> HIDE DEF new
<1>7. ASSUME pkt.pkt_type = CLASS_A
      PROVE  new.due = a /\ clock <= a /\ new.start \in a .. a + TCXO_STARTUP
  <2>1. clock <= a /\ a <= Horizon
    BY <1>1, <1>2, <1>7 DEF Line, InTime
  <2> HIDE DEF a
  <2>2. Minus(pkt.count_us, Now) = a - clock /\ 2 * (a - clock) < M
    BY <1>4, <1>5, <2>1, Sizes
  <2>3. Signed(Minus(pkt.count_us, Now)) = a - clock
    BY <2>2 DEF Signed
  <2>4. a - clock <= TCXO_STARTUP
    BY <1>2, <2>3 DEF Departing
  <2> QED
    BY <1>4, <1>5, <1>6, <2>1, <2>3, <2>4
<1>8. new.start <= new.stop
  BY <1>3, <1>4, <1>6
<1>9. \A e \in aired : e.start \in Int /\ e.stop \in Int /\ e.stop < clock
  BY <1>1, <1>2 DEF Status, AirFree
<1>10. Answered'
  <2>1. requests[new.pkt] # NoRequest /\ new.pkt_type = requests[new.pkt].pkt_type
    BY <1>4, <1>6 DEF OwnRequest
  <2>2. new.due \in Int
    <3>1. Minus(pkt.count_us, Now) \in Nat /\ M \in Nat
      BY <1>4, <1>5, MinusType, InstantOfTime, CounterAssumption DEF Now, Time
    <3> QED
      BY <1>4, <1>6, <3>1 DEF Signed
  <2> QED
    BY <1>1, <1>2, <1>3, <1>4, <1>6, <1>8, <2>1, <2>2 DEF Line, Answered
<1>11. Punctual'
  <2>1. ASSUME NEW e \in aired', e.pkt_type = CLASS_A
        PROVE  e.due = Instant(requests[e.pkt].count_us) /\ e.start \in e.due .. e.due + TCXO_STARTUP
    <3>1. CASE e \in aired
      BY <1>1, <2>1, <3>1 DEF Line, Punctual
    <3>2. CASE e = new
      <4>1. pkt.pkt_type = CLASS_A /\ requests[new.pkt].count_us = pkt.count_us
        BY <1>4, <1>6, <2>1, <3>2 DEF OwnRequest, CLASS_A, CLASS_C
      <4> QED
        BY <1>7, <3>2, <4>1
    <3> QED
      BY <1>3, <3>1, <3>2
  <2> QED
    BY <1>2, <2>1 DEF Punctual, Instant
<1>12. AtMostOnce'
  <2>1. ASSUME NEW e \in aired, e.pkt = new.pkt, e.pkt_type = CLASS_A PROVE FALSE
    <3>1. /\ e.pkt_type = requests[e.pkt].pkt_type /\ e.start <= e.stop
          /\ e.due = Instant(requests[e.pkt].count_us) /\ e.start \in e.due .. e.due + TCXO_STARTUP
      BY <1>1, <2>1 DEF Line, Answered, Punctual
    <3>2. pkt.pkt_type = CLASS_A /\ requests[e.pkt].count_us = pkt.count_us
      BY <1>4, <1>6, <2>1, <3>1 DEF OwnRequest, CLASS_A, CLASS_C
    <3>3. e.due = a /\ clock <= a
      BY <1>7, <3>1, <3>2
    <3> QED
      BY <1>4, <1>5, <1>9, <3>1, <3>3
  <2>2. ASSUME NEW e \in aired', NEW f \in aired', e.pkt = f.pkt, e.pkt_type = CLASS_A
        PROVE  e = f
    <3>1. f.pkt_type = CLASS_A
      BY <1>2, <1>10, <2>2 DEF Answered
    <3>2. CASE e \in aired /\ f \in aired
      BY <1>1, <2>2, <3>2 DEF Line, AtMostOnce
    <3>3. CASE e = new /\ f \in aired
      BY <2>1, <2>2, <3>1, <3>3
    <3>4. CASE e \in aired /\ f = new
      BY <2>1, <2>2, <3>4
    <3> QED
      BY <1>3, <3>2, <3>3, <3>4
  <2> QED
    BY <2>2 DEF AtMostOnce
<1>13. Stamped' /\ Identified' /\ Booked(queue.nodes)' /\ Chosen'
  BY <1>1, <1>2 DEF Line, Stamped, Identified, Booked, OwnRequest, Within, Ordered, Offset, Chosen
<1>14. InTime'
  BY <1>1, <1>2 DEF Line, InTime, OwnRequest
<1> QED
  BY <1>10, <1>11, <1>12, <1>13, <1>14 DEF Line

(* The clock does not pass the departure of a packet in flight.             *)
LEMMA TickLine ==
  ASSUME OnceInv, Tick
  PROVE  Line'
<1>1. /\ TypeOK /\ Line
  BY DEF OnceInv, IInv, QueueInv
<1>2. /\ clock' = clock + 1 /\ clock' + TX_MAX_ADVANCE_DELAY \in Time
      /\ requests' = requests /\ received' = received /\ down' = down
      /\ meas' = meas /\ queue' = queue /\ pkt' = pkt /\ jit_pc' = jit_pc /\ aired' = aired
      /\ jit_pc \notin {"peek", "dequeue", "send"} /\ (jit_pc = "wait" => ~Departing)
      /\ (down.pc = "enqueue" => clock < down.at + DOWN_LAG)
  BY DEF Tick, downVars, jitVars
<1>3. clock \in Nat /\ clock \in Time
  BY <1>1, CounterAssumption DEF TypeOK, Time
<1>4. Stamped'
  <2>1. down # Listening => down.pc = "enqueue" /\ down.at \in Nat
    BY <1>1 DEF TypeOK
  <2> QED
    BY <1>1, <1>2, <1>3, <2>1, Sizes DEF Line, Stamped
<1>5. ASSUME jit_pc = "wait", pkt.pkt_type = CLASS_A
      PROVE  clock + 1 <= Instant(pkt.count_us)
  <2> DEFINE a == Instant(pkt.count_us)
  <2>1. clock <= a /\ a <= Horizon
    BY <1>1, <1>5 DEF Line, InTime
  <2>2. pkt.count_us \in Time
    BY <1>1, <1>5 DEF TypeOK, InFlight, Node
  <2>3. a \in Nat /\ Minus(pkt.count_us, Now) = IF a >= clock THEN a - clock ELSE M - (clock - a)
    BY <1>3, <2>2, LeadOfInstant DEF Now
  <2> HIDE DEF a
  <2>4. Minus(pkt.count_us, Now) = a - clock /\ 2 * (a - clock) < M
    BY <1>3, <2>1, <2>3, Sizes
  <2>5. Signed(Minus(pkt.count_us, Now)) = a - clock
    BY <2>4 DEF Signed
  <2>6. ~(a - clock <= TCXO_STARTUP)
    BY <1>2, <1>5, <2>5 DEF Departing
  <2>7. clock + 1 <= a
    BY <1>3, <2>1, <2>3, <2>6, Sizes
  <2> QED
    BY <2>7 DEF a
<1>6. InTime'
  BY <1>1, <1>2, <1>5 DEF Line, InTime, InFlight, OwnRequest, Instant
<1>7. Chosen'
  BY <1>2 DEF Chosen
<1>8. Identified' /\ Booked(queue.nodes)' /\ Answered' /\ Punctual' /\ AtMostOnce'
  BY <1>1, <1>2 DEF Line, Identified, Booked, OwnRequest, Within, Ordered, Offset, Answered,
                    Punctual, Instant, AtMostOnce
<1> QED
  BY <1>4, <1>6, <1>7, <1>8 DEF Line

(* The other steps of thread_jit neither book nor emit.                     *)
LEMMA SendLine ==
  ASSUME OnceInv,
         Wake \/ Configure \/ Refuse \/ Poll \/ BackToRx \/ RadioFault \/ UNCHANGED vars
  PROVE  Line'
<1>1. /\ TypeOK /\ Line
  BY DEF OnceInv, IInv, QueueInv
<1>2. /\ clock' = clock /\ requests' = requests /\ received' = received /\ down' = down
      /\ queue' = queue /\ aired' = aired
      /\ meas'.requested = meas.requested
  BY <1>1 DEF Wake, Configure, Refuse, Poll, BackToRx, RadioFault, vars, downVars, jitVars, TypeOK
<1>3. \/ jit_pc' = "delay"
      \/ jit_pc' = "peek" /\ jit_time' = Now
      \/ jit_pc' = "wait" /\ jit_pc = "send" /\ pkt' = pkt
      \/ jit_pc' \in {"emit", "done"} /\ jit_pc = "emit" /\ pkt' = pkt
      \/ /\ jit_pc' = jit_pc /\ jit_time' = jit_time /\ pkt_index' = pkt_index /\ pkt' = pkt
  BY DEF Wake, Configure, Refuse, Poll, BackToRx, RadioFault, Rest, vars, jitVars
<1>4. InTime'
  BY <1>1, <1>2, <1>3 DEF Line, InTime, InFlight, OwnRequest, Instant, Now
<1>5. Chosen'
  BY <1>1, <1>2, <1>3 DEF Line, Chosen, Missed, Instant
<1>6. Stamped' /\ Identified' /\ Booked(queue.nodes)' /\ Answered' /\ Punctual' /\ AtMostOnce'
  BY <1>1, <1>2 DEF Line, Stamped, Identified, Booked, OwnRequest, Within, Ordered, Offset, Answered,
                    Punctual, Instant, AtMostOnce
<1> QED
  BY <1>4, <1>5, <1>6 DEF Line

-----------------------------------------------------------------------------
(* Theorems *)

(* Every step.                                                              *)
LEMMA OnceInductive == OnceInv /\ [Next]_vars => OnceInv'
<1> SUFFICES ASSUME OnceInv, [Next]_vars PROVE OnceInv'
  OBVIOUS
<1>1. IInv'
  BY QueueInductive, AirInductive, AccountInductive DEF OnceInv, IInv, QueueInv
<1>2. Line'
  <2>1. CASE ThreadDown
    BY <2>1, ReceiveLine, EnqueueLine DEF ThreadDown
  <2>2. CASE ThreadJit
    BY <2>2, PeekLine, DequeueLine, SetTxLine, SendLine DEF ThreadJit
  <2>3. CASE RadioFault \/ Tick \/ Over \/ UNCHANGED vars
    BY <2>3, SendLine, TickLine DEF Over
  <2> QED
    BY <2>1, <2>2, <2>3 DEF Next
<1> QED
  BY <1>1, <1>2 DEF OnceInv

(* Before the first request.                                                *)
LEMMA OnceInitially == Init => OnceInv
<1> SUFFICES ASSUME Init PROVE OnceInv
  OBVIOUS
<1>1. IInv
  BY InitInv
<1>2. Stamped
  BY TimingAssumption DEF Init, Stamped
<1>3. Booked(queue.nodes)
  BY DEF Init, EmptyQueue, Booked, Within, Ordered
<1>4. InTime
  <2>2. Horizon \in Nat /\ TX_MAX_ADVANCE_DELAY \in Nat /\ TX_MAX_ADVANCE_DELAY <= Horizon
        /\ 2 * Horizon < M
    <3>1. RECV_UNTIL + TX_MAX_ADVANCE_DELAY <= Reach(MAX_RECV)
      BY Sizes
    <3> QED
      BY <3>1, Sizes DEF Horizon
  <2>3. 0 + TX_MAX_ADVANCE_DELAY \in Time
    BY <2>2, CounterAssumption DEF Time
  <2> QED
    BY <2>3 DEF Init, InTime, InFlight
<1>5. Identified /\ Chosen /\ Answered /\ Punctual /\ AtMostOnce
  BY DEF Init, Identified, Chosen, Answered, Punctual, AtMostOnce
<1> QED
  BY <1>1, <1>2, <1>3, <1>4, <1>5 DEF OnceInv, Line

(* The invariant holds in every state.                                     *)
LEMMA OnceInvariance == Spec => []OnceInv
BY OnceInitially, OnceInductive, PTL DEF Spec

(* A PULL_RESP with a timestamp is emitted at most once, however often and  *)
(* whenever the network delivers it, whatever else is booked around it and  *)
(* however the radio fails.                                                 *)
THEOREM SentOnce == Spec => []AtMostOnce
<1>1. OnceInv => AtMostOnce
  BY DEF OnceInv, Line
<1> QED
  BY <1>1, OnceInvariance, PTL

(* And it is emitted at the instant that the server asked for, or later by  *)
(* no more than the start of the oscillator: never early, and never in a    *)
(* receive window that is over.                                             *)
THEOREM SentInTime == Spec => []Punctual
<1>1. OnceInv => Punctual
  BY DEF OnceInv, Line
<1> QED
  BY <1>1, OnceInvariance, PTL
=============================================================================
