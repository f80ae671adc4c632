------------------------------ MODULE LoraHal ------------------------------
(***************************************************************************)
(* One radio between two threads: thread_up fetches with lgw_receive,      *)
(* thread_jit sends with lgw_send, both under mx_concent, and the radio's  *)
(* interrupt handler writes what lgw_receive reads (components/liblorahub).*)
(* The radio receives in single mode: after a packet or a timeout it stays *)
(* in standby until somebody arms it again.                                *)
(*                                                                         *)
(* Time is counted in radio events: the handler stamps an event with its   *)
(* number, and a packet is named by the event of its arrival. The handler  *)
(* runs at once (it takes less time than a command over SPI).              *)
(***************************************************************************)
EXTENDS Integers, Sequences

CONSTANTS
  MAX_EVENTS,  \* bound: number of receptions and reception timeouts
  MAX_SENDS,   \* bound: number of calls of lgw_send
  MAX_FAULTS   \* bound: number of radio commands that return an error

ASSUME BoundsAssumption == MAX_EVENTS \in Nat /\ MAX_SENDS \in Nat /\ MAX_FAULTS \in Nat

RX_DONE    == "RX_DONE"
CRC_ERROR  == "CRC_ERROR"
RX_TIMEOUT == "RX_TIMEOUT"
TX_DONE    == "TX_DONE"

VARIABLES
  chip,       \* the radio: mode, raised interrupts, those that reach its pin,
              \* and whether its RF parameters are those of the reception
  buffer,     \* the last packet it received: [id, crc_ok]
  events,     \* number of events so far
  irq_fired, irq_count_us,   \* written by the interrupt handler
  flags,      \* flag_rx_done, flag_rx_crc_error, flag_rx_timeout
  mx_concent, \* the thread that holds the mutex, or "none"
  up,         \* thread_up: where it is in lgw_receive
  count_us,   \* its copy of irq_count_us
  nb_pkt,     \* what lgw_receive will return
  jit,        \* thread_jit: where it is in lgw_send
  tx_status, rx_status,
  reports,    \* history: the packets that lgw_receive returned
  lost,       \* history: the packets that were cleared unread
  sends,
  faults,     \* history: number of radio commands that failed
  unsettled   \* history: how many radio commands failed since it was last set up whole

handlerVars == <<buffer, events, irq_fired, irq_count_us>>
upVars      == <<flags, up, count_us, nb_pkt, reports>>
jitVars     == <<jit, tx_status, rx_status, sends>>
faultVars   == <<faults, unsettled>>
vars        == <<chip, handlerVars, mx_concent, upVars, jitVars, lost, faultVars>>

RX_IRQ_MASK_NoRxDone == {CRC_ERROR, RX_TIMEOUT}

RX_IRQ_MASK == {RX_DONE, CRC_ERROR, RX_TIMEOUT}
TX_IRQ_MASK == {TX_DONE, RX_TIMEOUT}

(* lgw_radio_set_rx, and the states a failing command of it leaves.         *)
SetRx(c)       == [c EXCEPT !.mode = "RX", !.irq = {}, !.mask = RX_IRQ_MASK]
FaultySetRx(c) == {c, [c EXCEPT !.mask = RX_IRQ_MASK],
                      [c EXCEPT !.mask = RX_IRQ_MASK, !.irq = {}]}

Standby(c) == [c EXCEPT !.mode = "STANDBY"]

(* lgw_radio_configure_rx                                                   *)
Tune(c) == [c EXCEPT !.mode = "STANDBY", !.rf = "RX"]

(* The unread packet, if any, that is forgotten when the radio turns from c *)
(* to d.                                                                    *)
Forgotten(c, d) == IF RX_DONE \in c.irq \ d.irq THEN {buffer.id} ELSE {}

Reset == [mode |-> "STANDBY", irq |-> {}, mask |-> {}, rf |-> "NONE"]

(* lgw_start has run and the threads have been created. *)
Init ==
  /\ chip = SetRx(Tune(Reset))
  /\ irq_fired = FALSE
  /\ irq_count_us = 0
  /\ flags = {}
  /\ mx_concent = "none"
  /\ up = "idle"
  /\ count_us = 0
  /\ nb_pkt = 0
  /\ jit = "idle"
  /\ tx_status = "FREE"
  /\ rx_status = "ON"
  /\ buffer = [id |-> 0, crc_ok |-> TRUE]
  /\ events = 0
  /\ reports = << >>
  /\ lost = {}
  /\ sends = 0
  /\ faults = 0
  /\ unsettled = 0

Fault == faults < MAX_FAULTS /\ faults' = faults + 1 /\ unsettled' = unsettled + 1

Sound == unsettled' = 0 /\ UNCHANGED faults

-----------------------------------------------------------------------------
(* The radio and radio_on_dio_irq, on the rising edge of the pin. *)

Stamped_Once(edge) == edge /\ ~irq_fired

Stamped(edge) == edge

Raise(irqs, mode) ==
  /\ chip' = [chip EXCEPT !.mode = mode, !.irq = @ \cup irqs]
  /\ events' = events + 1
  /\ IF Stamped(chip.irq \cap chip.mask = {} /\ irqs \cap chip.mask # {})
       THEN irq_fired' = TRUE /\ irq_count_us' = events'
       ELSE UNCHANGED <<irq_fired, irq_count_us>>
  /\ UNCHANGED <<mx_concent, upVars, jitVars, lost, faultVars>>

RxDone(crc_ok) ==
  /\ chip.mode = "RX" /\ events < MAX_EVENTS
  /\ Raise({RX_DONE} \cup (IF crc_ok THEN {} ELSE {CRC_ERROR}), "STANDBY")
  /\ buffer' = [id |-> events', crc_ok |-> crc_ok]

RxTimeout ==
  /\ chip.mode = "RX" /\ events < MAX_EVENTS
  /\ Raise({RX_TIMEOUT}, "STANDBY")
  /\ UNCHANGED buffer

TxDone ==
  /\ chip.mode = "TX"
  /\ Raise({TX_DONE}, "STANDBY")
  /\ UNCHANGED buffer

-----------------------------------------------------------------------------
(* thread_up: lock, lgw_receive, unlock *)

Fetch ==
  /\ up = "idle" /\ mx_concent = "none"
  /\ mx_concent' = "up"
  /\ nb_pkt' = 0
  /\ irq_fired' = FALSE
  /\ up' = IF irq_fired THEN "regs" ELSE "flags"
  /\ UNCHANGED <<chip, buffer, events, irq_count_us, flags, count_us, reports, jitVars, lost, faultVars>>

RxFlags_All(irqs) == irqs

RxFlags(irqs) == irqs \cap {RX_DONE, CRC_ERROR, RX_TIMEOUT}

(* radio_irq_process does not look at the result of the read; when it fails *)
(* irq_regs is not initialised.                                             *)
ReadRegs ==
  /\ up = "regs"
  /\ up' = "flags"
  /\ \/ /\ flags' = flags \cup RxFlags(chip.irq)
        /\ chip' = [chip EXCEPT !.irq = {}]
        /\ UNCHANGED faultVars
     \/ /\ Fault
        /\ \E garbage \in SUBSET {RX_DONE, CRC_ERROR, RX_TIMEOUT} : flags' = flags \cup garbage
        /\ UNCHANGED chip
  /\ UNCHANGED <<handlerVars, mx_concent, count_us, nb_pkt, reports, jitVars, lost>>

Received(f) == f \cap {RX_DONE, CRC_ERROR} # {}

NeedsRearm_Always(f) == TRUE
NeedsRearm_NoTimeout(f) == Received(f)

(* irq_received of lgw_radio_get_pkt *)
NeedsRearm(f) == Received(f) \/ RX_TIMEOUT \in f

CheckFlags ==
  /\ up = "flags"
  /\ IF Received(flags)
       THEN up' = "packet" /\ count_us' = irq_count_us /\ UNCHANGED <<flags, mx_concent>>
       ELSE /\ flags' = flags \ {RX_TIMEOUT}
            /\ up' = IF NeedsRearm(flags) THEN "rearm" ELSE "idle"
            /\ mx_concent' = IF up' = "idle" THEN "none" ELSE mx_concent
            /\ UNCHANGED count_us
  /\ UNCHANGED <<chip, handlerVars, nb_pkt, reports, jitVars, lost, faultVars>>

Handled_NotCleared(f) == f

Handled(f) == f \ {RX_DONE, CRC_ERROR}

(* The packet is read, or a command fails and lgw_radio_get_pkt returns at  *)
(* once, without resetting the flags.                                       *)
ReadPacket ==
  /\ up = "packet"
  /\ up' = "rearm"
  /\ \/ /\ reports' = Append(reports, [id |-> buffer.id, count_us |-> count_us,
                                       crc_ok |-> CRC_ERROR \notin flags, own |-> buffer.crc_ok])
        /\ flags' = Handled(flags)
        /\ nb_pkt' = 1
        /\ UNCHANGED faultVars
     \/ /\ Fault
        /\ nb_pkt' = -1
        /\ UNCHANGED <<reports, flags>>
  /\ UNCHANGED <<chip, handlerVars, mx_concent, count_us, jitVars, lost>>

(* The result of lgw_radio_set_rx is not looked at. *)
Rearm ==
  /\ up = "rearm"
  /\ \/ chip' = SetRx(chip) /\ UNCHANGED faultVars
     \/ Fault /\ chip' \in FaultySetRx(chip)
  /\ lost' = lost \cup Forgotten(chip, chip')
  /\ mx_concent' = "none"
  /\ up' = IF nb_pkt = -1 THEN "failed" ELSE "idle"
  /\ UNCHANGED <<handlerVars, flags, count_us, nb_pkt, reports, jitVars>>

(* wait_on_error: the chip restarts after ten seconds, and runs lgw_start,  *)
(* again and again until all but lgw_radio_set_rx, whose result it does not *)
(* look at, succeeds.                                                       *)
Restart ==
  /\ up = "failed"
  /\ irq_fired' = FALSE
  /\ irq_count_us' = 0
  /\ flags' = {}
  /\ mx_concent' = "none"
  /\ up' = "idle"
  /\ count_us' = 0
  /\ nb_pkt' = 0
  /\ jit' = "idle"
  /\ tx_status' = "FREE"
  /\ rx_status' = "ON"
  /\ \/ chip' = SetRx(Tune(Reset)) /\ Sound
     \/ Fault /\ chip' \in FaultySetRx(Tune(Reset))
  /\ UNCHANGED <<buffer, events, reports, lost, sends>>

-----------------------------------------------------------------------------
(* thread_jit: lgw_status, lock, lgw_send, unlock *)

Send ==
  /\ jit = "idle" /\ mx_concent = "none"
  /\ sends < MAX_SENDS
  /\ tx_status # "EMITTING"
  /\ sends' = sends + 1
  /\ mx_concent' = "jit"
  /\ rx_status' = "SUSPENDED"
  /\ jit' = "configure"
  /\ UNCHANGED <<chip, handlerVars, upVars, tx_status, lost, faultVars>>

ArmedForTx == [mode |-> "STANDBY", irq |-> {}, mask |-> TX_IRQ_MASK, rf |-> "TX"]

(* The states that a failing command of lgw_radio_configure_tx leaves.      *)
Detuned(c) == [c EXCEPT !.mode = "STANDBY", !.rf = "TX"]

FaultyArm(c) == {c, Standby(c), Detuned(c), [Detuned(c) EXCEPT !.mask = TX_IRQ_MASK], ArmedForTx}

(* lgw_radio_configure_tx                                                   *)
Configure ==
  /\ jit = "configure"
  /\ chip' = ArmedForTx
  /\ lost' = lost \cup Forgotten(chip, chip')
  /\ jit' = "set_tx"
  /\ tx_status' = "SCHEDULED"
  /\ UNCHANGED <<handlerVars, mx_concent, upVars, rx_status, sends, faultVars>>

(* The bandwidth is not one of the band, which nobody checked before; or a  *)
(* radio command fails.                                                     *)
ConfigureFails ==
  /\ jit = "configure"
  /\ \/ UNCHANGED <<chip, faultVars>>
     \/ Fault /\ chip' \in FaultyArm(chip)
  /\ lost' = lost \cup Forgotten(chip, chip')
  /\ jit' = "abort"
  /\ UNCHANGED <<handlerVars, mx_concent, upVars, tx_status, rx_status, sends>>

(* lgw_radio_configure_rx and lgw_radio_set_rx: one or the other may fail,  *)
(* and the result of neither is looked at.                                  *)
BackToRx ==
  /\ \/ chip' = SetRx(Tune(chip)) /\ Sound
     \/ Fault /\ chip' \in {SetRx(chip)} \cup FaultySetRx(Tune(chip))
  /\ lost' = lost \cup Forgotten(chip, chip')

Abort ==
  /\ jit = "abort"
  /\ BackToRx
  /\ jit' = "idle"
  /\ mx_concent' = "none"
  /\ UNCHANGED <<handlerVars, upVars, tx_status, rx_status, sends>>

SetTx ==
  /\ jit = "set_tx"
  /\ chip' = [chip EXCEPT !.mode = "TX"]
  /\ tx_status' = "EMITTING"
  /\ jit' = "poll"
  /\ UNCHANGED <<handlerVars, mx_concent, upVars, rx_status, sends, lost, faultVars>>

TxOver_Unchecked(irqs) == TRUE

TxOver(irqs) == irqs \cap TX_IRQ_MASK # {}

Poll ==
  /\ jit = "poll"
  /\ chip' = [chip EXCEPT !.irq = {}]
  /\ jit' = IF TxOver(chip.irq) THEN "back" ELSE "poll"
  /\ tx_status' = IF TxOver(chip.irq) THEN "FREE" ELSE tx_status
  /\ UNCHANGED <<handlerVars, mx_concent, upVars, rx_status, sends, lost, faultVars>>

Back ==
  /\ jit = "back"
  /\ BackToRx
  /\ rx_status' = "ON"
  /\ jit' = "idle"
  /\ mx_concent' = "none"
  /\ UNCHANGED <<handlerVars, upVars, tx_status, sends>>

(* ral_set_tx or ral_get_and_clear_irq_status fails: lgw_send returns.      *)
SendFails ==
  /\ jit \in {"set_tx", "poll"}
  /\ Fault
  /\ jit' = "idle"
  /\ mx_concent' = "none"
  /\ UNCHANGED <<chip, handlerVars, upVars, tx_status, rx_status, sends, lost>>

-----------------------------------------------------------------------------
ThreadUp  == Fetch \/ ReadRegs \/ CheckFlags \/ ReadPacket \/ Rearm \/ Restart
InSend    == Configure \/ ConfigureFails \/ Abort \/ SetTx \/ Poll \/ Back \/ SendFails
Radio     == (\E crc_ok \in BOOLEAN : RxDone(crc_ok)) \/ RxTimeout \/ TxDone

Next == ThreadUp \/ Send \/ InSend \/ Radio

(* A thread inside a call runs on; thread_up gets the mutex again and again *)
(* although thread_jit takes it too; an emission ends.                      *)
Fairness ==
  /\ WF_vars(ThreadUp) /\ SF_vars(Fetch)
  /\ WF_vars(InSend)
  /\ WF_vars(TxDone)

Spec == Init /\ [][Next]_vars /\ Fairness

-----------------------------------------------------------------------------
(* Properties *)

Irqs == {RX_DONE, CRC_ERROR, RX_TIMEOUT, TX_DONE}

Chips   == [mode : {"STANDBY", "RX", "TX"}, irq : SUBSET Irqs, mask : SUBSET Irqs,
            rf : {"NONE", "RX", "TX"}]
Reports == [id : Nat, count_us : Nat, crc_ok : BOOLEAN, own : BOOLEAN]

TypeOK ==
  /\ chip \in Chips
  /\ buffer \in [id : Nat, crc_ok : BOOLEAN]
  /\ events \in Nat
  /\ irq_fired \in BOOLEAN /\ irq_count_us \in Nat
  /\ flags \subseteq {RX_DONE, CRC_ERROR, RX_TIMEOUT}
  /\ mx_concent \in {"none", "up", "jit"}
  /\ up \in {"idle", "regs", "flags", "packet", "rearm", "failed"}
  /\ count_us \in Nat /\ nb_pkt \in {-1, 0, 1}
  /\ jit \in {"idle", "configure", "abort", "set_tx", "poll", "back"}
  /\ tx_status \in {"FREE", "SCHEDULED", "EMITTING"}
  /\ rx_status \in {"ON", "SUSPENDED"}
  /\ reports \in Seq(Reports)
  /\ lost \subseteq Nat
  /\ sends \in Nat /\ faults \in Nat /\ unsettled \in Nat

(* The hub is never deaf between two calls: the radio receives, on its own  *)
(* channel, or it has raised an interrupt that the next lgw_receive will see*)
(* and arm it again. Nothing polls the radio otherwise: one missed edge or  *)
(* one early return would leave it in standby. The results of the commands  *)
(* that arm it are ignored; whatever a failure made of the radio, the next  *)
(* lgw_send or restart that completes them puts it right for good.          *)
Listening ==
  mx_concent = "none" /\ unsettled = 0 =>
    /\ chip.rf = "RX"
    /\ chip.mode = "RX" \/ (irq_fired /\ chip.irq \cap {RX_DONE, RX_TIMEOUT} # {})

(* A packet is reported with the time of its own interrupt and the verdict  *)
(* of its own CRC, although the handler stamps the end of emissions with the*)
(* same variable and lgw_send clears interrupts that the flag still announces.*)
OwnMetadata ==
  faults = 0 => \A i \in DOMAIN reports :
    reports[i].count_us = reports[i].id /\ reports[i].crc_ok = reports[i].own

(* Packets are reported in the order of their arrival, each at most once.   *)
InOrder ==
  faults = 0 => \A i, j \in DOMAIN reports : i < j => reports[i].id < reports[j].id

(* lgw_receive never clears a packet it has not read: it arms the radio only*)
(* when the radio is waiting for it. Only lgw_send overtakes a packet.      *)
LostOnlyToSend ==
  [][lost' # lost /\ faults' = 0 => mx_concent = "jit"]_vars

(* While the radio emits, tx_status says so, also after lgw_send has failed *)
(* and returned early: thread_jit relies on it to leave the emission alone. *)
EmittingIsTrue == chip.mode = "TX" => tx_status = "EMITTING"

(* Without radio errors, a packet that arrived is reported in the end, or   *)
(* lgw_send overtakes it, and every lgw_send comes back.                    *)
UplinkServed ==
  /\ \A n \in 1 .. MAX_EVENTS :
       (RX_DONE \in chip.irq /\ buffer.id = n)
         ~> (\/ n \in lost \/ faults > 0
             \/ \E i \in DOMAIN reports : reports[i].id = n)
  /\ jit # "idle" ~> jit = "idle"

(* lorahub_hal.h: RX_SUSPENDED is "RX is suspended while a TX is ongoing".  *)
SuspendedOnlyInTx == rx_status = "SUSPENDED" => jit # "idle"

=============================================================================
