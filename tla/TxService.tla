----------------------------- MODULE TxService -----------------------------
(***************************************************************************)
(* What the downlink path promises the network server, without queue,      *)
(* threads or a counter that wraps. An accepted packet is booked; the      *)
(* sender commits to it shortly before its departure and puts it on the    *)
(* air at that instant and at no other. A booked packet is given up only   *)
(* because the radio was still busy with the packet before it, because it  *)
(* lies past the horizon, because the radio cannot emit it, or after a     *)
(* radio error. jitqueue.h and PROTOCOL.md promise more (nothing that was  *)
(* accepted is given up): see the run AcceptedIsSent of Downlink for what  *)
(* the code does instead.                                                  *)
(***************************************************************************)
EXTENDS Integers

CONSTANTS
  Payload,    \* identities of the packets
  STARTUP,    \* time from the command to the first symbol on the air
  LEAD,       \* a commitment is made less than LEAD before the departure
  GAP,        \* booked packets are further apart than this
  BUSY,       \* how long after an emission the sender may still be blind
  RETRY,      \* how much longer it may be blind once it had to give up a packet
  ADVANCE,    \* horizon past which a packet may be given up
  GRACE       \* how long after its departure a packet may remain booked

VARIABLES
  clock,      \* instants, from 0
  booked,     \* accepted packets: [pkt, due, stop], due and stop are instants
  flying,     \* the packet the sender has committed to, as a set of at most one
  last,       \* the last emission: [due, stop]
  broken,     \* has the radio reported an error?
  gaveUp      \* has a packet been given up?

vars == <<clock, booked, flying, last, broken, gaveUp>>

Slot == [pkt : Payload, due : Int, stop : Int]

(* Two slots do not touch. When GAP is less than BUSY, the sender may still  *)
(* be late for the second.                                                  *)
Spaced(a, b) == a.stop + GAP < b.due \/ b.stop + GAP < a.due

(* No emission yet: the radio has been silent for long enough. *)
Silence == [due |-> -BUSY-RETRY-1, stop |-> -BUSY-RETRY-1]

Init ==
  /\ clock = 0
  /\ booked = {}
  /\ flying = {}
  /\ last = Silence
  /\ broken = FALSE
  /\ gaveUp = FALSE

(* A packet is booked for later, but an immediate one may be put behind one  *)
(* that the sender has missed, in the past as well.                         *)
Book ==
  /\ \E p \in booked' : /\ booked' = booked \cup {p}
                        /\ p \notin booked
                        /\ p.due > clock \/ \E b \in booked : b.due < clock /\ b.due < p.due
                        /\ \A b \in booked : Spaced(p, b)
  /\ UNCHANGED <<clock, flying, last, broken, gaveUp>>

Commit ==
  /\ flying = {}
  /\ \E b \in booked : /\ b.due >= clock
                       /\ b.due < clock + LEAD
                       /\ \A c \in booked : b.due <= c.due \/ c.due < clock
                       /\ booked' = booked \ {b}
                       /\ flying' = {b}
  /\ UNCHANGED <<clock, last, broken, gaveUp>>

(* The sender is not yet back from the last emission at this instant, or has *)
(* lost time over a packet that was given up.                               *)
Away(instant) == instant <= last.stop + BUSY + (IF gaveUp THEN RETRY ELSE 0)

(* The emission starts when it is due, or a little late in the shadow of    *)
(* the one before it or after an error.                                     *)
Air ==
  /\ \E f \in flying :
       LET late == clock + STARTUP - f.due
       IN  /\ \/ late = 0
              \/ /\ late \in 1 .. STARTUP
                 /\ broken \/ (last.due < f.due /\ Away(clock + STARTUP))
           /\ last' = [due |-> f.due, stop |-> f.stop + late]
  /\ flying' = {}
  /\ UNCHANGED <<clock, booked, broken, gaveUp>>

(* A packet that was missed because the sender was away; it may have been    *)
(* booked for an instant before the emission that the sender was about to   *)
(* begin.                                                                   *)
Forget ==
  /\ booked' \subseteq booked
  /\ booked' # booked
  /\ gaveUp' = TRUE
  /\ \A b \in booked \ booked' :
       \/ broken
       \/ b.due >= clock + ADVANCE
       \/ last.due < b.due + LEAD /\ Away(b.due)
  /\ UNCHANGED <<clock, flying, last, broken>>

(* A packet that the radio cannot emit, and which takes no time on the air,  *)
(* is found out only now.                                                   *)
Refuse ==
  /\ \E f \in flying : f.stop = f.due
  /\ flying' = {}
  /\ UNCHANGED <<clock, booked, last, broken, gaveUp>>

(* A radio error loses the packet in flight, and may leave the radio in a   *)
(* state in which nothing is sent any more.                                 *)
Break ==
  /\ broken' = TRUE
  /\ flying' = {}
  /\ UNCHANGED <<clock, booked, last, gaveUp>>

(* Time does not pass the departure of the packet in flight, nor leave      *)
(* booked packets behind.                                                   *)
Tick ==
  /\ clock' = clock + 1
  /\ \A f \in flying : clock < f.due - STARTUP
  /\ \A b \in booked : clock' <= b.due + GRACE
  /\ UNCHANGED <<booked, flying, last, broken, gaveUp>>

Next == Book \/ Commit \/ Air \/ Forget \/ Refuse \/ Break \/ Tick

Spec == Init /\ [][Next]_vars
=============================================================================
