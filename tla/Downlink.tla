------------------------------ MODULE Downlink ------------------------------
(***************************************************************************)
(* From PULL_RESP to the air: thread_down books downlinks in the JIT queue *)
(* and thread_jit peeks, dequeues and sends them (lorahub/main/pkt_fwd.c,  *)
(* lgw_send of lorahub_hal.c). The threads share the queue, whose          *)
(* functions are atomic under mx_jit_queue, and the microsecond counter;   *)
(* between a call of lgw_get_instcnt and the queue operation that uses its *)
(* result the other thread may run and the counter move on.                *)
(*                                                                         *)
(* Time: clock counts from the start of the run, which ends once the last  *)
(* request is dealt with, and the counter is START_COUNT + clock in the    *)
(* arithmetic of the counter.                                              *)
(***************************************************************************)
EXTENDS JitQueueOps

CONSTANTS
  START_COUNT,   \* the counter when the run starts
  RECV_UNTIL,    \* bound: no PULL_RESP arrives later
  MAX_RECV,      \* bound: number of PULL_RESP that arrive, duplicates included
  MAX_FAULTS,    \* bound: number of radio commands that fail
  PERIOD,        \* longest time a thread sleeps in vTaskDelay of 10 ms
  DOWN_LAG,      \* longest time between the time stamp and jit_enqueue
  TCXO_STARTUP,  \* time from ral_set_tx to the first symbol on the air
  LONGEST,       \* longest time on air of a packet
  Leads,         \* distances of the timestamps that the server asks for
  NoRequest      \* no PULL_RESP with this identity was sent yet

ASSUME TimingAssumption ==
  /\ START_COUNT \in Time
  /\ RECV_UNTIL \in Nat /\ MAX_RECV \in Nat /\ MAX_FAULTS \in Nat
  /\ PERIOD \in Nat \ {0} /\ DOWN_LAG \in Nat /\ TCXO_STARTUP \in Nat
  /\ Leads \subseteq Delay
  /\ {CLASS_A, CLASS_C} \subseteq PktTypes
  /\ NoRequest \notin [pkt : Payload, count_us : Time, pkt_type : PktTypes,
                       toa : Nat, freq_ok : BOOLEAN]

(* What the slot search puts between two immediate downlinks.               *)
Stride == LONGEST + TX_START_DELAY + 2 * TX_JIT_DELAY + TX_MARGIN_DELAY

(* A run books packets within half a turn of the counter (2147 s), where    *)
(* compare() puts them in order, and thread_down is not away for the 32.5 ms*)
(* of jit_enqueue's shortest lead between its time stamp and the call.      *)
ASSUME RunAssumption ==
  /\ LONGEST \in Nat /\ \A toa \in TimeOnAir : toa <= LONGEST
  /\ 2 * (RECV_UNTIL + TX_MAX_ADVANCE_DELAY + ASAP_DELAY + MAX_RECV * Stride) < M
  /\ DOWN_LAG <= TX_START_DELAY + TX_MARGIN_DELAY + TX_JIT_DELAY

(* thread_jit looks at the queue again, and has the radio ready, before a   *)
(* packet departs that was not due when it looked, or that thread_down has  *)
(* added since: 30 ms are more than a sleep of 10 ms and the start of the   *)
(* oscillator, and leave thread_down 13 ms up to the call of jit_enqueue.   *)
(* The distance of two packets, 32.5 ms, leaves room for two sleeps. And no *)
(* emission is so long that a packet missed meanwhile looks like one to     *)
(* come.                                                                    *)
ASSUME WakeAssumption ==
  /\ PERIOD + TCXO_STARTUP <= TX_JIT_DELAY
  /\ 2 * PERIOD + TCXO_STARTUP <= TX_START_DELAY + TX_MARGIN_DELAY + TX_JIT_DELAY
  /\ DOWN_LAG + PERIOD + TCXO_STARTUP <= TX_START_DELAY + TX_MARGIN_DELAY + TX_JIT_DELAY
  /\ 2 * (LONGEST + TCXO_STARTUP + TX_JIT_DELAY + 4 * PERIOD) < M

VARIABLES
  clock,       \* time since the start of the run
  requests,    \* the PULL_RESP of each identity, which the network may repeat
  received,    \* number of PULL_RESP received
  down,        \* thread_down: where it is, and its current_concentrator_time
  queue,       \* jit_queue[0]
  jit_pc,      \* thread_jit: where it is
  since,       \* when thread_jit began its last vTaskDelay
  jit_time,    \* its current_concentrator_time
  pkt_index,   \* its pkt_index, 0 when none
  pkt,         \* the packet it has dequeued, as a queue node
  tx_status,   \* of lorahub_hal.c
  tx_end,      \* when the radio raises TX_DONE
  faults,      \* number of failed radio commands
  meas,        \* the meas_nb_tx_* counters
  aired,       \* history: emissions [pkt, pkt_type, due, start, stop]
  dropped      \* history: number of accepted packets that were given up

downVars == <<requests, received, down>>
jitVars  == <<jit_pc, since, jit_time, pkt_index, pkt, tx_status, tx_end, faults, aired>>
vars     == <<clock, queue, downVars, jitVars, meas, dropped>>

Now_Unbounded == START_COUNT + clock

Now == Plus(START_COUNT, clock)

Signed(d) == IF 2 * d < M THEN d ELSE d - M

Listening == [pc |-> "recv"]

(* tx_status is TX_STATUS_UNKNOWN until lgw_start, which ends in TX_FREE.   *)
Init ==
  /\ clock = 0
  /\ requests = [id \in Payload |-> NoRequest]
  /\ received = 0
  /\ down = Listening
  /\ queue = EmptyQueue
  /\ jit_pc = "delay"
  /\ since = 0
  /\ jit_time = START_COUNT
  /\ pkt_index = 0
  /\ pkt = << >>
  /\ tx_status = "FREE"
  /\ tx_end = 0
  /\ faults = 0
  /\ meas = [requested |-> 0, rejected |-> 0, ok |-> 0, fail |-> 0]
  /\ aired = {}
  /\ dropped = 0

-----------------------------------------------------------------------------
(* thread_down                                                             *)

(* A time on air of 0 is what lgw_time_on_air returns of a packet whose     *)
(* frequency and bandwidth do not go together. An off-band packet is        *)
(* rejected before anybody asks for its time on air.                        *)
NewRequests(id) ==
  {[pkt |-> id, count_us |-> Plus(Now, lead), pkt_type |-> CLASS_A,
    toa |-> toa, freq_ok |-> TRUE] : lead \in Leads, toa \in TimeOnAir}
  \cup {[pkt |-> id, count_us |-> 0, pkt_type |-> CLASS_C,
         toa |-> toa, freq_ok |-> TRUE] : toa \in TimeOnAir}
  \cup {[pkt |-> id, count_us |-> 0, pkt_type |-> CLASS_C, toa |-> 0, freq_ok |-> FALSE]}

(* A PULL_RESP arrives, new or for the second time, in any order. It is     *)
(* parsed, its frequency checked, and the current time read for jit_enqueue.*)
Receive(id) ==
  /\ down = Listening
  /\ received < MAX_RECV
  /\ clock <= RECV_UNTIL
  /\ received' = received + 1
  /\ \E p \in IF requests[id] = NoRequest THEN NewRequests(id) ELSE {requests[id]} :
       /\ requests' = [requests EXCEPT ![id] = p]
       /\ down' = IF p.freq_ok THEN [pc |-> "enqueue", id |-> id, time |-> Now, at |-> clock]
                               ELSE Listening
  /\ UNCHANGED <<clock, queue, jitVars, meas, dropped>>

(* The packet is queued or rejected, and the server told so.               *)
Enqueue ==
  /\ down.pc = "enqueue"
  /\ \E r \in JitEnqueue(queue, down.time, requests[down.id]) :
       /\ queue' = r.queue
       /\ meas' = [meas EXCEPT !.requested = @ + 1,
                               !.rejected = IF r.err = "OK" THEN @ ELSE @ + 1]
  /\ down' = Listening
  /\ UNCHANGED <<clock, requests, received, jitVars, dropped>>

-----------------------------------------------------------------------------
(* thread_jit                                                              *)

Rest == jit_pc' = "delay" /\ since' = clock /\ pkt_index' = 0 /\ pkt' = << >>

Wake ==
  /\ jit_pc = "delay" /\ clock > since
  /\ jit_pc' = "peek"
  /\ jit_time' = Now
  /\ UNCHANGED <<clock, queue, downVars, since, pkt_index, pkt, tx_status, tx_end,
                 faults, meas, aired, dropped>>

Peek ==
  /\ jit_pc = "peek"
  /\ \E r \in JitPeek(queue, jit_time) :
       /\ queue' = r.queue
       /\ dropped' = dropped + (Len(queue.nodes) - Len(r.queue.nodes))
       /\ IF r.index = 0 THEN Rest
          ELSE jit_pc' = "dequeue" /\ pkt_index' = r.index /\ UNCHANGED <<since, pkt>>
  /\ UNCHANGED <<clock, downVars, jit_time, tx_status, tx_end, faults, meas, aired>>

RadioBusy_Ignored == FALSE

RadioBusy == tx_status = "EMITTING"

(* jit_dequeue, then the packet is given up when the radio still emits.    *)
Dequeue ==
  /\ jit_pc = "dequeue"
  /\ queue' \in JitDequeue(queue, pkt_index)
  /\ IF queue.nodes[pkt_index].pkt_type = BEACON \/ RadioBusy
       THEN Rest /\ dropped' = dropped + 1
       ELSE /\ jit_pc' = "send" /\ pkt' = queue.nodes[pkt_index] /\ pkt_index' = 0
            /\ UNCHANGED <<since, dropped>>
  /\ UNCHANGED <<clock, downVars, jit_time, tx_status, tx_end, faults, meas, aired>>

(* lgw_radio_configure_tx applies the check that jit_enqueue left out.      *)
Emittable(node) == node.post_delay > 0

(* lgw_send, up to the loop that waits for the departure.                  *)
Configure ==
  /\ jit_pc = "send" /\ Emittable(pkt)
  /\ jit_pc' = "wait"
  /\ tx_status' = "SCHEDULED"
  /\ UNCHANGED <<clock, queue, downVars, since, jit_time, pkt_index, pkt, tx_end,
                 faults, meas, aired, dropped>>

(* The packet that was acknowledged without error is refused now. The radio *)
(* goes back to reception at once, and the thread to sleep.                 *)
Refuse ==
  /\ jit_pc = "send" /\ ~Emittable(pkt)
  /\ meas' = [meas EXCEPT !.fail = @ + 1]
  /\ Rest
  /\ UNCHANGED <<clock, queue, downVars, jit_time, tx_status, tx_end, faults, aired, dropped>>

Departing_NoStartup == Signed(Minus(pkt.count_us, Now)) <= 0

Departing == Signed(Minus(pkt.count_us, Now)) <= TCXO_STARTUP

SetTx ==
  /\ jit_pc = "wait" /\ Departing
  /\ jit_pc' = "emit"
  /\ since' = clock
  /\ tx_status' = "EMITTING"
  /\ tx_end' = clock + TCXO_STARTUP + pkt.post_delay
  /\ aired' = aired \cup {[pkt |-> pkt.pkt, pkt_type |-> pkt.pkt_type,
                           due |-> clock + Signed(Minus(pkt.count_us, Now)),
                           start |-> clock + TCXO_STARTUP, stop |-> tx_end']}
  /\ UNCHANGED <<clock, queue, downVars, jit_time, pkt_index, pkt, faults, meas, dropped>>

(* The loop reads the interrupt flags, and sleeps also after TX_DONE.      *)
Poll ==
  /\ jit_pc = "emit" /\ clock > since
  /\ jit_pc' = IF clock >= tx_end THEN "done" ELSE "emit"
  /\ since' = clock
  /\ UNCHANGED <<clock, queue, downVars, jit_time, pkt_index, pkt, tx_status, tx_end,
                 faults, meas, aired, dropped>>

BackToRx ==
  /\ jit_pc = "done" /\ clock > since
  /\ tx_status' = "FREE"
  /\ meas' = [meas EXCEPT !.ok = @ + 1]
  /\ Rest
  /\ UNCHANGED <<clock, queue, downVars, jit_time, tx_end, faults, aired, dropped>>

(* A radio command fails, to configure the packet, to start the emission or *)
(* to read the interrupt flags, and lgw_send returns LGW_HAL_ERROR at once: *)
(* tx_status keeps the value it had at that point.                          *)
RadioFault ==
  /\ faults < MAX_FAULTS
  /\ faults' = faults + 1
  /\ \/ jit_pc = "send" /\ Emittable(pkt)
     \/ jit_pc = "wait" /\ Departing
     \/ jit_pc = "emit" /\ (clock > since \/ tx_end = clock + TCXO_STARTUP + pkt.post_delay)
  /\ meas' = [meas EXCEPT !.fail = @ + 1]
  /\ Rest
  /\ UNCHANGED <<clock, queue, downVars, jit_time, tx_status, tx_end, aired, dropped>>

-----------------------------------------------------------------------------
(* The run is over when no PULL_RESP can arrive any more and none is left.  *)
InFlight == jit_pc \in {"send", "wait", "emit", "done"}

Finished ==
  /\ clock > RECV_UNTIL
  /\ down = Listening
  /\ queue.nodes = << >>
  /\ jit_pc = "delay"

Over == Finished /\ UNCHANGED vars

(* A step of a thread takes no time worth counting once it can be taken:   *)
(* the clock waits for it. It stays within one turn of the counter, less the*)
(* horizon, so that a missed packet does not look like one to come.         *)
Tick ==
  /\ ~Finished
  /\ jit_pc \notin {"peek", "dequeue", "send"}
  /\ jit_pc \in {"delay", "emit", "done"} => clock < since + PERIOD
  /\ jit_pc = "wait" => ~Departing
  /\ down.pc = "enqueue" => clock < down.at + DOWN_LAG
  /\ clock + 1 + TX_MAX_ADVANCE_DELAY \in Time
  /\ clock' = clock + 1
  /\ UNCHANGED <<queue, downVars, jitVars, meas, dropped>>

ThreadJit  == Wake \/ Peek \/ Dequeue \/ Configure \/ Refuse \/ SetTx \/ Poll \/ BackToRx
ThreadDown == (\E id \in Payload : Receive(id)) \/ Enqueue

Next == ThreadDown \/ ThreadJit \/ RadioFault \/ Tick \/ Over

(* The scheduler runs every thread that is ready, and time passes.          *)
Fairness == WF_vars(ThreadJit) /\ WF_vars(Enqueue) /\ WF_vars(Tick)

Spec == Init /\ [][Next]_vars /\ Fairness

-----------------------------------------------------------------------------
(* Properties *)

TypeOK ==
  /\ clock \in Time
  /\ received \in 0 .. MAX_RECV
  /\ down = Listening \/ down \in [pc : {"enqueue"}, id : Payload, time : Time, at : 0 .. clock]
  /\ queue \in [nodes : Seq(Node), num_beacon : Int]
  /\ jit_pc \in {"delay", "peek", "dequeue", "send", "wait", "emit", "done"}
  /\ since \in 0 .. clock /\ jit_time \in Time
  /\ pkt_index \in 0 .. JIT_QUEUE_MAX
  /\ IF InFlight THEN pkt \in Node ELSE pkt = << >>
  /\ tx_status \in {"FREE", "SCHEDULED", "EMITTING"}
  /\ faults \in 0 .. MAX_FAULTS
  /\ meas \in [requested : Nat, rejected : Nat, ok : Nat, fail : Nat]
  /\ dropped \in Nat

(* The queue may change between jit_peek and jit_dequeue, but the index that*)
(* thread_jit holds designates the same packet throughout, as long as no    *)
(* packet of the queue was missed. (One that was missed during an emission, *)
(* and that jit_peek skipped, may be followed by a slot in the past, which  *)
(* the slot search gives to an immediate packet: it is sorted in front of   *)
(* the packet that thread_jit holds, and leaves late in its place.)         *)
IndexStable ==
  [][/\ jit_pc = "dequeue" /\ jit_pc' = "dequeue"
     /\ \A i \in DOMAIN queue.nodes : ~Outdated(queue.nodes[i], jit_time)
     => queue'.nodes[pkt_index] = queue.nodes[pkt_index]]_vars

(* A packet leaves at its timestamp, unless thread_jit comes back too late  *)
(* from the emission before it, after which it sleeps up to three times, or *)
(* from a failed call; it is then late by no more than the start of the     *)
(* oscillator, and leaves as soon as thread_jit is back. Once a packet was  *)
(* given up, thread_jit may lose more sleeps over it; a packet with a       *)
(* timestamp is still late by no more than that start, but an immediate one *)
(* may have been put behind a missed one, in the past (see IndexStable).    *)
Recovery == 3 * PERIOD + TCXO_STARTUP

OnTime ==
  \A e \in aired :
    \/ e.start = e.due
    \/ /\ e.start \in e.due .. e.due + TCXO_STARTUP
       /\ \/ \E f \in aired : f.due < e.due /\ e.start <= f.stop + Recovery
          \/ faults > 0
    \/ /\ dropped > 0
       /\ e.pkt_type = CLASS_A => e.start \in e.due .. e.due + TCXO_STARTUP

(* A PULL_RESP with a timestamp that the network delivers twice is emitted  *)
(* once, also when the second one is stamped before the first is dequeued   *)
(* and enqueued after it.                                                   *)
AtMostOnce ==
  \A e, f \in aired : e.pkt = f.pkt /\ e.pkt_type = CLASS_A => e = f

(* The radio is never told to emit while it emits, also when lgw_send gave  *)
(* up on an emission that is still on the air.                              *)
OneEmission ==
  \A e, f \in aired : e # f => e.stop < f.start \/ f.stop < e.start

(* Every request is rejected, pending, sent, failed or dropped, once: the   *)
(* counters of thread_down and of thread_jit agree.                         *)
TxAccounted ==
  meas.requested = meas.rejected + Len(queue.nodes) + (IF InFlight THEN 1 ELSE 0)
                   + meas.ok + meas.fail + dropped

(* Accepted packets leave the queue and thread_jit comes back from every    *)
(* emission, also after a radio error: nothing waits in the queue for ever. *)
QueueDrains == <>[](queue.nodes = << >> /\ ~InFlight)

(* jitqueue.h: "Once the packet is queued, it has to be sent over the air." *)
AcceptedIsSent == faults = 0 => dropped = 0

-----------------------------------------------------------------------------
(* Refinement of TxService. *)

Due(node)    == clock + Signed(Minus(node.count_us, Now))
SlotOf(node) == [pkt |-> node.pkt, due |-> Due(node), stop |-> Due(node) + node.post_delay]

LastEmission ==
  IF aired = {} THEN [due |-> -Recovery-PERIOD-1, stop |-> -Recovery-PERIOD-1]
  ELSE LET e == CHOOSE e \in aired : \A f \in aired : f.start <= e.start
       IN  [due |-> e.due, stop |-> e.stop]

Waiting   == {SlotOf(queue.nodes[i]) : i \in DOMAIN queue.nodes}
Committed == IF jit_pc \in {"send", "wait"} THEN {SlotOf(pkt)} ELSE {}

(* A packet booked just after thread_jit has taken out another one may be   *)
(* due before it, and is dropped once that one is sent.                     *)
Grace == LONGEST + TCXO_STARTUP + TX_JIT_DELAY + 4 * PERIOD

Service == INSTANCE TxService WITH
  STARTUP <- TCXO_STARTUP,
  LEAD    <- TX_JIT_DELAY,
  GAP     <- TX_START_DELAY + TX_JIT_DELAY + TX_MARGIN_DELAY,
  BUSY    <- Recovery,
  RETRY   <- PERIOD,
  ADVANCE <- TX_MAX_ADVANCE_DELAY,
  GRACE   <- Grace,
  booked  <- Waiting,
  flying  <- Committed,
  last    <- LastEmission,
  broken  <- faults > 0,
  gaveUp  <- dropped > 0

(* The two threads implement the service: what was booked leaves on time,   *)
(* or is given up for one of the reasons the service names. Of the code this*)
(* is true while no emission lasts longer than the slot of a short packet   *)
(* (the configurations keep to that), and otherwise as long as jit_peek     *)
(* leaves no missed packet in the queue: see IndexStable for what comes of  *)
(* one that it leaves.                                                      *)
Refines == Service!Spec

=============================================================================
