--------------------------- MODULE LoraHalProofs ---------------------------
(***************************************************************************)
(* Theorems about LoraHal, for any number of events, calls and faults.     *)
(***************************************************************************)
EXTENDS LoraHal, TLAPS

(* The mutex is held by the thread that is inside a call, and by no other.  *)
Mutex ==
  /\ mx_concent = "up"  <=> up \in {"regs", "flags", "packet", "rearm"}
  /\ mx_concent = "jit" <=> jit # "idle"

(* A receiving radio has nothing raised and lets every event reach its pin: *)
(* the next event is an edge.                                               *)
RxArmed == chip.mode = "RX" => chip.irq = {} /\ chip.mask = RX_IRQ_MASK

(* An emission is known to thread_jit, and its end not announced before.    *)
TxKnown ==
  /\ chip.mode = "TX" => tx_status = "EMITTING"
  /\ chip.mode = "TX" => chip.irq = {}
  /\ jit = "set_tx" => chip.mode = "STANDBY" /\ chip.irq = {}

Signalled == chip.irq \cap {RX_DONE, RX_TIMEOUT} # {}

(* What Listening becomes while lgw_receive looks for an event.             *)
Attentive ==
  unsettled = 0 =>
    /\ mx_concent = "none" => chip.mode = "RX" \/ (irq_fired /\ Signalled)
    /\ up = "regs" => chip.mode = "RX" \/ Signalled
    /\ up = "flags" => \/ chip.mode = "RX" \/ (irq_fired /\ Signalled)
                       \/ flags \cap {RX_DONE, RX_TIMEOUT} # {}

(* Only an emission takes the radio off the channel of the reception.       *)
Tuned == unsettled = 0 /\ jit \notin {"set_tx", "poll", "back"} => chip.rf = "RX"

IInv == TypeOK /\ Mutex /\ RxArmed /\ TxKnown /\ Attentive /\ Tuned

(* lgw_radio_set_rx, whether it fails or not, is no way into an emission.   *)
LEMMA SetRxType ==
  ASSUME NEW c \in Chips, NEW d, d = SetRx(c) \/ d \in FaultySetRx(c)
  PROVE  /\ d \in Chips
         /\ d.mode \in {"RX", c.mode}
         /\ d.irq \subseteq c.irq
         /\ d.rf = c.rf
         /\ (c.mode = "RX" => c.irq = {} /\ c.mask = RX_IRQ_MASK)
              => (d.mode = "RX" => d.irq = {} /\ d.mask = RX_IRQ_MASK)
<1>0. RX_IRQ_MASK \in SUBSET Irqs
  BY DEF RX_IRQ_MASK, Irqs
<1>1. CASE d = SetRx(c)
  BY <1>0, <1>1 DEF SetRx, Chips
<1>2. CASE d = c
  BY <1>2 DEF Chips
<1>3. CASE d = [c EXCEPT !.mask = RX_IRQ_MASK]
  BY <1>0, <1>3 DEF Chips
<1>4. CASE d = [c EXCEPT !.mask = RX_IRQ_MASK, !.irq = {}]
  BY <1>0, <1>4 DEF Chips
<1>5. QED
  BY <1>1, <1>2, <1>3, <1>4 DEF FaultySetRx

(* What lgw_radio_set_rx leaves in the radio.                              *)
LEMMA SetRxFields ==
  ASSUME NEW c \in Chips
  PROVE  /\ SetRx(c).mode = "RX" /\ SetRx(c).irq = {} /\ SetRx(c).mask = RX_IRQ_MASK
         /\ SetRx(c).rf = c.rf
         /\ SetRx(Tune(c)).mode = "RX" /\ SetRx(Tune(c)).irq = {}
         /\ SetRx(Tune(c)).mask = RX_IRQ_MASK /\ SetRx(Tune(c)).rf = "RX"
BY DEF SetRx, Tune, Chips

(* The packets an action can make the radio forget are numbers.            *)
LEMMA ForgottenType == TypeOK => \A d : Forgotten(chip, d) \subseteq Nat
BY DEF TypeOK, Forgotten

(* The radio's fields, whatever an action makes of it.                      *)
LEMMA ChipFields ==
  ASSUME NEW c \in Chips
  PROVE  /\ c.mode \in {"STANDBY", "RX", "TX"} /\ c.irq \subseteq Irqs /\ c.mask \subseteq Irqs
         /\ Standby(c) \in Chips /\ Standby(c).mode = "STANDBY"
         /\ Standby(c).irq = c.irq /\ Standby(c).mask = c.mask
         /\ Tune(c) \in Chips /\ Tune(c).mode = "STANDBY" /\ Tune(c).rf = "RX"
BY DEF Chips, Standby, Tune

(* The radio as armed for an emission, and as reset.                       *)
LEMMA ArmedForTxType ==
  /\ ArmedForTx \in Chips /\ ArmedForTx.mode = "STANDBY" /\ ArmedForTx.irq = {}
  /\ Reset \in Chips /\ Reset.mode = "STANDBY" /\ Reset.irq = {}
  /\ SetRx(Tune(Reset)).mode = "RX" /\ SetRx(Tune(Reset)).rf = "RX"
  /\ SetRx(Tune(Reset)).irq = {} /\ SetRx(Tune(Reset)).mask = RX_IRQ_MASK
BY DEF SetRx, Tune, ArmedForTx, Reset, Chips, TX_IRQ_MASK, Irqs

(* A set-up that fails leaves the radio as it was or in standby.           *)
LEMMA FaultyArmType ==
  ASSUME NEW c \in Chips, NEW d \in FaultyArm(c)
  PROVE  d \in Chips /\ (d = c \/ d.mode = "STANDBY")
<1>0. TX_IRQ_MASK \in SUBSET Irqs
  BY DEF TX_IRQ_MASK, Irqs
<1>1. CASE d = c
  BY <1>1
<1>2. CASE d = Standby(c)
  BY <1>2, ChipFields
<1>3. CASE d = Detuned(c) \/ d = [Detuned(c) EXCEPT !.mask = TX_IRQ_MASK]
  BY <1>0, <1>3 DEF Detuned, Chips
<1>4. CASE d = ArmedForTx
  BY <1>4, ArmedForTxType
<1>5. QED
  BY <1>1, <1>2, <1>3, <1>4 DEF FaultyArm

(* Clearing the interrupts changes nothing else.                           *)
LEMMA Cleared ==
  ASSUME NEW c \in Chips
  PROVE  LET d == [c EXCEPT !.irq = {}]
         IN  d \in Chips /\ d.mode = c.mode /\ d.irq = {} /\ d.mask = c.mask /\ d.rf = c.rf
BY DEF Chips

(* The interrupts that the radio raises.                                    *)
LEMMA RaiseType ==
  ASSUME TypeOK, NEW irqs \in SUBSET Irqs, Raise(irqs, "STANDBY")
  PROVE  /\ chip' \in Chips /\ chip'.mode = "STANDBY"
         /\ chip'.irq = chip.irq \cup irqs /\ chip'.mask = chip.mask
         /\ chip'.rf = chip.rf
         /\ events' \in Nat /\ irq_fired' \in BOOLEAN /\ irq_count_us' \in Nat
<1>1. chip' = [chip EXCEPT !.mode = "STANDBY", !.irq = @ \cup irqs] /\ chip \in Chips
  BY DEF Raise, TypeOK
<1>2. chip' \in Chips /\ chip'.mode = "STANDBY"
        /\ chip'.irq = chip.irq \cup irqs /\ chip'.mask = chip.mask
        /\ chip'.rf = chip.rf
  BY <1>1 DEF Chips
<1>3. events' \in Nat
  BY DEF Raise, TypeOK
<1>4. irq_fired' \in BOOLEAN /\ irq_count_us' \in Nat
  BY <1>3 DEF Raise, TypeOK
<1>5. QED
  BY <1>2, <1>3, <1>4

(* The types are kept by every step.                                        *)
LEMMA TypeInductive == TypeOK /\ [Next]_vars => TypeOK'
<1> SUFFICES ASSUME TypeOK, [Next]_vars PROVE TypeOK'
  OBVIOUS
<1> USE BoundsAssumption DEF TypeOK, handlerVars, upVars, jitVars, faultVars
<1>1. CASE Fetch
  BY <1>1 DEF Fetch
<1>2. CASE ReadRegs
  <2>1. chip' \in Chips
    BY <1>2, Cleared DEF ReadRegs
  <2>2. flags' \subseteq {RX_DONE, CRC_ERROR, RX_TIMEOUT}
    BY <1>2 DEF ReadRegs, RxFlags
  <2>3. faults' \in Nat /\ unsettled' \in Nat
    BY <1>2 DEF ReadRegs, Fault
  <2>4. QED
    BY <1>2, <2>1, <2>2, <2>3 DEF ReadRegs
<1>3. CASE CheckFlags
  BY <1>3 DEF CheckFlags, Received, NeedsRearm
<1>4. CASE ReadPacket
  <2> DEFINE r == [id |-> buffer.id, count_us |-> count_us, crc_ok |-> CRC_ERROR \notin flags,
                   own |-> buffer.crc_ok]
  <2>1. r \in Reports
    BY DEF Reports
  <2>2. reports' = Append(reports, r) \/ reports' = reports
    BY <1>4 DEF ReadPacket
  <2> HIDE DEF r
  <2>3. reports' \in Seq(Reports)
    BY <2>1, <2>2
  <2>4. faults' \in Nat /\ unsettled' \in Nat /\ nb_pkt' \in {-1, 0, 1} /\ flags' \subseteq flags
    BY <1>4 DEF ReadPacket, Handled, Fault
  <2>5. QED
    BY <1>4, <2>3, <2>4 DEF ReadPacket
<1>5. CASE Rearm
  <2>1. SetRx(chip) \in Chips /\ FaultySetRx(chip) \subseteq Chips
    BY SetRxType
  <2>2. chip' \in Chips /\ faults' \in Nat /\ unsettled' \in Nat
    BY <1>5, <2>1 DEF Rearm, Fault
  <2>3. lost' \subseteq Nat
    BY <1>5, ForgottenType DEF Rearm
  <2>4. QED
    BY <1>5, <2>2, <2>3 DEF Rearm
<1>6. CASE Restart
  <2>1. SetRx(Tune(Reset)) \in Chips /\ FaultySetRx(Tune(Reset)) \subseteq Chips
    BY ArmedForTxType, ChipFields, SetRxType
  <2>2. chip' \in Chips /\ faults' \in Nat /\ unsettled' \in Nat
    BY <1>6, <2>1 DEF Restart, Fault, Sound
  <2>3. QED
    BY <1>6, <2>2 DEF Restart
<1>7. CASE Send
  BY <1>7 DEF Send
<1>8. CASE Configure
  BY <1>8, ForgottenType, ArmedForTxType DEF Configure
<1>9. CASE ConfigureFails
  <2>1. FaultyArm(chip) \subseteq Chips
    BY FaultyArmType
  <2>2. chip' \in Chips /\ faults' \in Nat /\ unsettled' \in Nat
    BY <1>9, <2>1 DEF ConfigureFails, Fault
  <2>3. lost' \subseteq Nat
    BY <1>9, ForgottenType DEF ConfigureFails
  <2>4. QED
    BY <1>9, <2>2, <2>3 DEF ConfigureFails
<1>10. CASE Abort \/ Back
  <2>1. /\ SetRx(chip) \in Chips /\ SetRx(Tune(chip)) \in Chips
        /\ FaultySetRx(Tune(chip)) \subseteq Chips
    BY ChipFields, SetRxType
  <2>2. chip' \in Chips /\ faults' \in Nat /\ unsettled' \in Nat
    BY <1>10, <2>1 DEF Abort, Back, BackToRx, Fault, Sound
  <2>3. lost' \subseteq Nat
    BY <1>10, ForgottenType DEF Abort, Back, BackToRx
  <2>4. QED
    BY <1>10, <2>2, <2>3 DEF Abort, Back
<1>11. CASE SetTx
  <2>1. chip' \in Chips
    BY <1>11 DEF SetTx, Chips
  <2>2. QED
    BY <1>11, <2>1 DEF SetTx
<1>12. CASE Poll
  BY <1>12, Cleared DEF Poll
<1>13. CASE SendFails
  BY <1>13 DEF SendFails, Fault
<1>14. ASSUME NEW irqs \in SUBSET Irqs, Raise(irqs, "STANDBY"), buffer' \in [id : Nat, crc_ok : BOOLEAN]
       PROVE  TypeOK'
  <2>1. chip' \in Chips /\ events' \in Nat /\ irq_fired' \in BOOLEAN /\ irq_count_us' \in Nat
    BY <1>14, RaiseType
  <2>2. UNCHANGED <<mx_concent, upVars, jitVars, lost, faultVars>>
    BY <1>14 DEF Raise
  <2>3. QED
    BY <1>14, <2>1, <2>2
<1>15. ASSUME NEW crc_ok \in BOOLEAN, RxDone(crc_ok) PROVE TypeOK'
  <2>1. {RX_DONE} \cup (IF crc_ok THEN {} ELSE {CRC_ERROR}) \in SUBSET Irqs
    BY DEF Irqs
  <2>2. events' \in Nat
    BY <1>15 DEF RxDone, Raise
  <2>3. QED
    BY <1>14, <1>15, <2>1, <2>2 DEF RxDone
<1>16. CASE RxTimeout \/ TxDone
  <2>1. {RX_TIMEOUT} \in SUBSET Irqs /\ {TX_DONE} \in SUBSET Irqs
    BY DEF Irqs
  <2>2. QED
    BY <1>14, <1>16, <2>1 DEF RxTimeout, TxDone
<1>17. CASE UNCHANGED vars
  BY <1>17 DEF vars
<1>18. QED
  BY <1>1, <1>2, <1>3, <1>4, <1>5, <1>6, <1>7, <1>8, <1>9, <1>10, <1>11, <1>12, <1>13,
     <1>15, <1>16, <1>17 DEF Next, ThreadUp, InSend, Radio

(* The mutex is taken and given back by one thread at a time.               *)
LEMMA MutexInductive == TypeOK /\ Mutex /\ [Next]_vars => Mutex'
<1> SUFFICES ASSUME TypeOK, Mutex, [Next]_vars PROVE Mutex'
  OBVIOUS
<1> USE DEF Mutex, TypeOK, handlerVars, upVars, jitVars
<1>1. CASE ThreadUp
  BY <1>1 DEF ThreadUp, Fetch, ReadRegs, CheckFlags, ReadPacket, Rearm, Restart
<1>2. CASE Send
  BY <1>2 DEF Send
<1>3. CASE InSend
  BY <1>3 DEF InSend, Configure, ConfigureFails, Abort, SetTx, Poll, Back, SendFails
<1>4. CASE Radio
  BY <1>4 DEF Radio, RxDone, RxTimeout, TxDone, Raise
<1>5. CASE UNCHANGED vars
  BY <1>5 DEF vars
<1>6. QED
  BY <1>1, <1>2, <1>3, <1>4, <1>5 DEF Next

(* A receiving radio stays armed, and an emission known.                    *)
LEMMA RadioInductive ==
  TypeOK /\ Mutex /\ RxArmed /\ TxKnown /\ [Next]_vars => RxArmed' /\ TxKnown'
<1> SUFFICES ASSUME TypeOK, Mutex, RxArmed, TxKnown, [Next]_vars PROVE RxArmed' /\ TxKnown'
  OBVIOUS
<1> USE DEF handlerVars, upVars, jitVars
<1>c. chip \in Chips
  BY DEF TypeOK
<1>1. CASE Fetch \/ CheckFlags \/ ReadPacket \/ Send
  <2>1. UNCHANGED <<chip, tx_status>> /\ (jit' = jit \/ jit' = "configure")
    BY <1>1 DEF Fetch, CheckFlags, ReadPacket, Send
  <2>2. QED
    BY <2>1 DEF RxArmed, TxKnown
<1>2. CASE ReadRegs
  <2>1. (chip' = chip \/ chip' = [chip EXCEPT !.irq = {}]) /\ UNCHANGED <<tx_status, jit>>
    BY <1>2 DEF ReadRegs
  <2>2. chip'.mode = chip.mode /\ chip'.mask = chip.mask /\ (chip'.irq = chip.irq \/ chip'.irq = {})
    BY <1>c, <2>1, Cleared
  <2>3. QED
    BY <2>1, <2>2 DEF RxArmed, TxKnown
<1>3. CASE Rearm
  <2>1. chip' = SetRx(chip) \/ chip' \in FaultySetRx(chip)
    BY <1>3 DEF Rearm
  <2>2. /\ chip'.mode \in {"RX", chip.mode} /\ chip'.irq \subseteq chip.irq
        /\ RxArmed => RxArmed'
    BY <1>c, <2>1, SetRxType DEF RxArmed
  <2>3. jit' # "set_tx" /\ tx_status' = tx_status
    BY <1>3 DEF Rearm, Mutex
  <2>4. QED
    BY <2>2, <2>3 DEF TxKnown
<1>4. CASE Restart
  <2>1. chip' = SetRx(Tune(Reset)) \/ chip' \in FaultySetRx(Tune(Reset))
    BY <1>4 DEF Restart
  <2>2. Tune(Reset) \in Chips /\ Tune(Reset).mode = "STANDBY"
    BY ArmedForTxType, ChipFields
  <2>3. chip'.mode \in {"RX", "STANDBY"} /\ (chip'.mode = "RX" => chip'.irq = {} /\ chip'.mask = RX_IRQ_MASK)
    BY <2>1, <2>2, SetRxType
  <2>4. jit' = "idle"
    BY <1>4 DEF Restart
  <2>5. QED
    BY <2>3, <2>4 DEF RxArmed, TxKnown
<1>5. CASE Configure
  BY <1>5, ArmedForTxType DEF Configure, RxArmed, TxKnown
<1>6. CASE ConfigureFails
  <2>1. chip' = chip \/ chip'.mode = "STANDBY"
    BY <1>6, <1>c, FaultyArmType DEF ConfigureFails
  <2>2. jit' = "abort" /\ tx_status' = tx_status
    BY <1>6 DEF ConfigureFails
  <2>3. QED
    BY <2>1, <2>2 DEF RxArmed, TxKnown
<1>7. CASE Abort \/ Back
  <2>1. Tune(chip) \in Chips /\ Tune(chip).mode = "STANDBY"
    BY <1>c, ChipFields
  <2>2. chip' = SetRx(chip) \/ chip' = SetRx(Tune(chip)) \/ chip' \in FaultySetRx(Tune(chip))
    BY <1>7 DEF Abort, Back, BackToRx
  <2>3. chip' = SetRx(chip) \/ chip' = SetRx(Tune(chip))
          => chip'.mode = "RX" /\ chip'.irq = {} /\ chip'.mask = RX_IRQ_MASK
    BY <1>c, SetRxFields
  <2>4. chip'.mode \in {"RX", "STANDBY"} /\ (chip'.mode = "RX" => chip'.irq = {} /\ chip'.mask = RX_IRQ_MASK)
    BY <2>1, <2>2, <2>3, SetRxType
  <2>5. jit' = "idle"
    BY <1>7 DEF Abort, Back
  <2>6. QED
    BY <2>4, <2>5 DEF RxArmed, TxKnown
<1>8. CASE SetTx
  <2>1. chip'.mode = "TX" /\ chip'.irq = {}
    BY <1>8, <1>c DEF SetTx, TxKnown, Chips
  <2>2. QED
    BY <1>8, <2>1 DEF SetTx, RxArmed, TxKnown
<1>9. CASE Poll
  <2>1. chip'.mode = chip.mode /\ chip'.irq = {} /\ chip'.mask = chip.mask
    BY <1>9, <1>c, Cleared DEF Poll
  <2>2. jit' # "set_tx" /\ (tx_status' = tx_status \/ chip.mode # "TX")
    BY <1>9 DEF Poll, TxOver, TxKnown
  <2>3. QED
    BY <2>1, <2>2 DEF RxArmed, TxKnown
<1>10. CASE SendFails
  BY <1>10 DEF SendFails, RxArmed, TxKnown
<1>11. ASSUME NEW irqs \in SUBSET Irqs, Raise(irqs, "STANDBY"), chip.mode \in {"RX", "TX"}
       PROVE  RxArmed' /\ TxKnown'
  <2>1. chip'.mode = "STANDBY"
    BY <1>11, RaiseType
  <2>2. jit' # "set_tx"
    BY <1>11 DEF Raise, TxKnown
  <2>3. QED
    BY <2>1, <2>2 DEF RxArmed, TxKnown
<1>12. ASSUME NEW crc_ok \in BOOLEAN, RxDone(crc_ok) PROVE RxArmed' /\ TxKnown'
  <2>1. {RX_DONE} \cup (IF crc_ok THEN {} ELSE {CRC_ERROR}) \in SUBSET Irqs
    BY DEF Irqs
  <2>2. QED
    BY <1>11, <1>12, <2>1 DEF RxDone
<1>13. CASE RxTimeout \/ TxDone
  <2>1. {RX_TIMEOUT} \in SUBSET Irqs /\ {TX_DONE} \in SUBSET Irqs
    BY DEF Irqs
  <2>2. QED
    BY <1>11, <1>13, <2>1 DEF RxTimeout, TxDone
<1>14. CASE UNCHANGED vars
  BY <1>14 DEF vars, RxArmed, TxKnown
<1>15. QED
  BY <1>1, <1>2, <1>3, <1>4, <1>5, <1>6, <1>7, <1>8, <1>9, <1>10, <1>12, <1>13, <1>14
     DEF Next, ThreadUp, InSend, Radio

(* Once the radio was set up whole, every call that leaves it in standby    *)
(* knows an event that the next one will see, as long as no command fails.  *)
LEMMA AttentiveInductive == IInv /\ [Next]_vars => Attentive'
<1> SUFFICES ASSUME IInv, [Next]_vars, unsettled' = 0 PROVE Attentive'
  BY DEF Attentive
<1> USE DEF handlerVars, upVars, jitVars, faultVars
<1>c. chip \in Chips /\ unsettled \in Nat
  BY DEF IInv, TypeOK
<1>f. ~Fault
  BY <1>c DEF Fault
<1>1. CASE Fetch
  <2>1. UNCHANGED <<chip, flags, unsettled>> /\ mx_concent = "none" /\ mx_concent' = "up"
    BY <1>1 DEF Fetch
  <2>2. chip.mode = "RX" \/ (irq_fired /\ Signalled)
    BY <2>1 DEF IInv, Attentive
  <2>3. CASE irq_fired
    BY <1>1, <2>1, <2>2, <2>3 DEF Fetch, Attentive, Signalled
  <2>4. CASE ~irq_fired
    BY <1>1, <2>1, <2>2, <2>4 DEF Fetch, Attentive, Signalled
  <2>5. QED
    BY <2>3, <2>4
<1>2. CASE ReadRegs
  <2>1. /\ flags' = flags \cup RxFlags(chip.irq) /\ chip' = [chip EXCEPT !.irq = {}]
        /\ up = "regs" /\ up' = "flags" /\ UNCHANGED <<mx_concent, unsettled>>
    BY <1>2, <1>f DEF ReadRegs
  <2>2. chip'.mode = chip.mode
    BY <2>1, <1>c, Cleared
  <2>3. chip.mode = "RX" \/ Signalled
    BY <2>1 DEF IInv, Attentive
  <2>4. Signalled => flags' \cap {RX_DONE, RX_TIMEOUT} # {}
    BY <2>1 DEF Signalled, RxFlags
  <2>5. mx_concent' = "up"
    BY <2>1 DEF IInv, Mutex
  <2>6. QED
    BY <2>1, <2>2, <2>3, <2>4, <2>5 DEF Attentive
<1>3. CASE CheckFlags
  <2>1. /\ UNCHANGED <<chip, irq_fired, unsettled>> /\ up = "flags"
        /\ up' \in {"packet", "rearm", "idle"} /\ mx_concent = "up"
    BY <1>3 DEF CheckFlags, IInv, Mutex
  <2>2. mx_concent' = "none" => flags \cap {RX_DONE, RX_TIMEOUT} = {}
    BY <1>3, <2>1 DEF CheckFlags, Received, NeedsRearm
  <2>3. mx_concent' = "none" => chip.mode = "RX" \/ (irq_fired /\ Signalled)
    BY <2>1, <2>2 DEF IInv, Attentive
  <2>4. QED
    BY <2>1, <2>3 DEF Attentive, Signalled
<1>4. CASE ReadPacket
  <2>1. up' = "rearm" /\ mx_concent' = "up"
    BY <1>4 DEF ReadPacket, IInv, Mutex
  <2>2. QED
    BY <2>1 DEF Attentive
<1>5. CASE Rearm \/ Abort \/ Back
  <2>1. chip' = SetRx(chip) \/ chip' = SetRx(Tune(chip))
    BY <1>5, <1>f DEF Rearm, Abort, Back, BackToRx
  <2>2. chip'.mode = "RX"
    BY <1>c, <2>1, SetRxFields
  <2>3. up' \notin {"regs", "flags"}
    BY <1>5 DEF Rearm, Abort, Back, IInv, Mutex
  <2>4. QED
    BY <2>2, <2>3 DEF Attentive
<1>6. CASE Restart
  <2>1. chip' = SetRx(Tune(Reset)) /\ up' = "idle"
    BY <1>6, <1>f DEF Restart
  <2>2. chip'.mode = "RX"
    BY <2>1, ArmedForTxType
  <2>3. QED
    BY <2>1, <2>2 DEF Attentive
<1>7. CASE Send \/ Configure \/ ConfigureFails \/ SetTx \/ Poll
  <2>1. mx_concent' = "jit" /\ up' = up /\ up \notin {"regs", "flags"}
    BY <1>7 DEF Send, Configure, ConfigureFails, SetTx, Poll, IInv, Mutex
  <2>2. QED
    BY <2>1 DEF Attentive
<1>8. CASE SendFails
  BY <1>8, <1>f DEF SendFails
<1>9. ASSUME NEW irqs \in SUBSET Irqs, Raise(irqs, "STANDBY"),
             chip.mode = "RX", irqs \cap {RX_DONE, RX_TIMEOUT} # {}
      PROVE  Attentive'
  <2>1. chip'.irq = chip.irq \cup irqs
    BY <1>9, RaiseType DEF IInv
  <2>2. chip.irq = {} /\ chip.mask = RX_IRQ_MASK
    BY <1>9 DEF IInv, RxArmed
  <2>3. irqs \cap chip.mask # {}
    BY <1>9, <2>2 DEF RX_IRQ_MASK
  <2>4. irq_fired'
    BY <1>9, <2>2, <2>3 DEF Raise, Stamped
  <2>5. QED
    BY <1>9, <2>1, <2>4 DEF Attentive, Signalled
<1>10. ASSUME NEW crc_ok \in BOOLEAN, RxDone(crc_ok) PROVE Attentive'
  <2>1. {RX_DONE} \cup (IF crc_ok THEN {} ELSE {CRC_ERROR}) \in SUBSET Irqs
    BY DEF Irqs
  <2>2. QED
    BY <1>9, <1>10, <2>1 DEF RxDone
<1>11. CASE RxTimeout
  <2>1. {RX_TIMEOUT} \in SUBSET Irqs
    BY DEF Irqs
  <2>2. QED
    BY <1>9, <1>11, <2>1 DEF RxTimeout
<1>12. CASE TxDone
  <2>1. {TX_DONE} \in SUBSET Irqs /\ chip.mode = "TX" /\ Raise({TX_DONE}, "STANDBY")
    BY <1>12 DEF TxDone, Irqs
  <2>2. chip'.irq = chip.irq \cup {TX_DONE}
    BY <2>1, RaiseType DEF IInv
  <2>3. UNCHANGED <<mx_concent, up, flags, unsettled>> /\ (irq_fired => irq_fired')
    BY <2>1 DEF Raise
  <2>4. QED
    BY <2>1, <2>2, <2>3 DEF IInv, Attentive, Signalled
<1>13. CASE UNCHANGED vars
  BY <1>13 DEF vars, IInv, Attentive, Signalled
<1>14. QED
  BY <1>1, <1>2, <1>3, <1>4, <1>5, <1>6, <1>7, <1>8, <1>10, <1>11, <1>12, <1>13
     DEF Next, ThreadUp, InSend, Radio

(* Only an emission takes the radio off its channel.                       *)
LEMMA TunedInductive == IInv /\ [Next]_vars => Tuned'
<1> SUFFICES ASSUME IInv, [Next]_vars, unsettled' = 0 PROVE Tuned'
  BY DEF Tuned
<1> USE DEF handlerVars, upVars, jitVars, faultVars
<1>c. chip \in Chips /\ unsettled \in Nat
  BY DEF IInv, TypeOK
<1>f. ~Fault
  BY <1>c DEF Fault
<1>1. CASE Fetch \/ CheckFlags \/ ReadPacket \/ Send
  BY <1>1, <1>f DEF Fetch, CheckFlags, ReadPacket, Send, IInv, Tuned
<1>2. CASE ReadRegs
  <2>1. chip' = [chip EXCEPT !.irq = {}] /\ UNCHANGED <<jit, unsettled>>
    BY <1>2, <1>f DEF ReadRegs
  <2>2. QED
    BY <1>c, <2>1, Cleared DEF IInv, Tuned
<1>3. CASE Rearm
  <2>1. chip' = SetRx(chip) /\ UNCHANGED <<jit, unsettled>>
    BY <1>3, <1>f DEF Rearm
  <2>2. QED
    BY <1>c, <2>1, SetRxFields DEF IInv, Tuned
<1>4. CASE Restart \/ Abort \/ Back
  <2>1. chip' = SetRx(Tune(Reset)) \/ chip' = SetRx(Tune(chip))
    BY <1>4, <1>f DEF Restart, Abort, Back, BackToRx
  <2>2. chip'.rf = "RX"
    BY <1>c, <2>1, ArmedForTxType, SetRxFields
  <2>3. QED
    BY <2>2 DEF Tuned
<1>5. CASE ConfigureFails
  BY <1>5, <1>f DEF ConfigureFails, IInv, Tuned
<1>6. CASE Configure \/ SetTx \/ Poll
  BY <1>6 DEF Configure, SetTx, Poll, Tuned
<1>7. CASE SendFails
  BY <1>7, <1>f DEF SendFails
<1>8. ASSUME NEW irqs \in SUBSET Irqs, Raise(irqs, "STANDBY") PROVE Tuned'
  <2>1. chip'.rf = chip.rf
    BY <1>8, RaiseType DEF IInv
  <2>2. UNCHANGED <<jit, unsettled>>
    BY <1>8 DEF Raise
  <2>3. QED
    BY <2>1, <2>2 DEF IInv, Tuned
<1>9. ASSUME NEW crc_ok \in BOOLEAN, RxDone(crc_ok) PROVE Tuned'
  <2>1. {RX_DONE} \cup (IF crc_ok THEN {} ELSE {CRC_ERROR}) \in SUBSET Irqs
    BY DEF Irqs
  <2>2. QED
    BY <1>8, <1>9, <2>1 DEF RxDone
<1>10. CASE RxTimeout \/ TxDone
  <2>1. {RX_TIMEOUT} \in SUBSET Irqs /\ {TX_DONE} \in SUBSET Irqs
    BY DEF Irqs
  <2>2. QED
    BY <1>8, <1>10, <2>1 DEF RxTimeout, TxDone
<1>11. CASE UNCHANGED vars
  BY <1>11 DEF vars, IInv, Tuned
<1>12. QED
  BY <1>1, <1>2, <1>3, <1>4, <1>5, <1>6, <1>7, <1>9, <1>10, <1>11
     DEF Next, ThreadUp, InSend, Radio

(* The invariant holds when the radio is first started.                    *)
LEMMA InvariantInit == Init => IInv
<1> SUFFICES ASSUME Init PROVE IInv
  OBVIOUS
<1>1. chip = SetRx(Tune(Reset)) /\ Tune(Reset) \in Chips /\ SetRx(Tune(Reset)) \in Chips
  BY ArmedForTxType, ChipFields, SetRxType DEF Init
<1>2. TypeOK
  <2>1. chip \in Chips /\ reports \in Seq(Reports) /\ buffer \in [id : Nat, crc_ok : BOOLEAN]
    BY <1>1 DEF Init
  <2>2. QED
    BY <2>1 DEF Init, TypeOK
<1>3. chip.mode = "RX" /\ chip.irq = {} /\ chip.mask = RX_IRQ_MASK /\ chip.rf = "RX"
  BY <1>1, ArmedForTxType
<1>4. QED
  BY <1>2, <1>3 DEF Init, IInv, Mutex, RxArmed, TxKnown, Attentive, Tuned, TX_DONE

(* The invariant holds in every state.                                     *)
LEMMA Invariance == Spec => []IInv
<1>1. IInv /\ [Next]_vars => IInv'
  BY TypeInductive, MutexInductive, RadioInductive, AttentiveInductive, TunedInductive DEF IInv
<1>2. QED
  BY <1>1, InvariantInit, PTL DEF Spec

-----------------------------------------------------------------------------
(* Without radio errors: what the interrupts of the radio, or the flags     *)
(* that lgw_receive made of them, say of the packet in the buffer. Such a   *)
(* packet has not been reported, and nothing has been stamped since.        *)
Announces(irqs) ==
  /\ CRC_ERROR \in irqs => RX_DONE \in irqs
  /\ RX_DONE \in irqs =>
       /\ RX_TIMEOUT \notin irqs
       /\ CRC_ERROR \in irqs <=> ~buffer.crc_ok
       /\ irq_count_us = buffer.id
       /\ \A i \in DOMAIN reports : reports[i].id < buffer.id

(* lgw_receive looks at the radio while it waits in standby.                *)
Halted ==
  /\ flags # {} => up \in {"flags", "packet"}
  /\ flags # {} \/ up \in {"packet", "rearm"} => chip.mode = "STANDBY" /\ chip.irq = {}
  /\ chip.mode = "TX" => jit = "poll"
  /\ up # "failed" /\ nb_pkt # -1

(* Packets are numbered as they come.                                       *)
Numbered ==
  /\ buffer.id <= events
  /\ \A i \in DOMAIN reports : reports[i].id <= events

Announced ==
  /\ Announces(chip.irq) /\ Announces(flags)
  /\ up = "packet" => RX_DONE \in flags /\ count_us = buffer.id

Verbatim == \A i \in DOMAIN reports : reports[i].count_us = reports[i].id /\ reports[i].crc_ok = reports[i].own
Increasing == \A i, j \in DOMAIN reports : i < j => reports[i].id < reports[j].id

Faultless == faults = 0 => Halted /\ Numbered /\ Announced /\ Verbatim /\ Increasing

(* Without radio errors a packet, once received, stays announced by the     *)
(* radio or by the flags until it is reported or lgw_send overtakes it.     *)
LEMMA FaultlessInductive == IInv /\ Faultless /\ [Next]_vars => Faultless'
<1> SUFFICES ASSUME IInv, Faultless, [Next]_vars, faults' = 0
             PROVE  Halted' /\ Numbered' /\ Announced' /\ Verbatim' /\ Increasing'
  BY DEF Faultless
<1> USE DEF handlerVars, upVars, jitVars, faultVars
<1>t. TypeOK /\ chip \in Chips /\ faults \in Nat
  BY DEF IInv, TypeOK
<1>f. ~Fault
  BY <1>t DEF Fault
<1>z. faults = 0
  BY <1>t, <1>f DEF Next, ThreadUp, Fetch, ReadRegs, CheckFlags, ReadPacket, Rearm, Restart, Send,
     InSend, Configure, ConfigureFails, Abort, SetTx, Poll, Back, SendFails, BackToRx, Sound,
     Radio, RxDone, RxTimeout, TxDone, Raise, vars
<1>h. Halted /\ Numbered /\ Announced /\ Verbatim /\ Increasing
  BY <1>z DEF Faultless
<1>r. events \in Nat /\ buffer.id \in Nat /\ \A i \in DOMAIN reports : reports[i].id \in Nat
  <2>1. reports \in Seq(Reports) /\ events \in Nat /\ buffer.id \in Nat
    BY <1>t DEF TypeOK
  <2>2. \A i \in DOMAIN reports : reports[i] \in Reports
    BY <2>1
  <2>3. \A r \in Reports : r.id \in Nat
    BY DEF Reports
  <2>4. QED
    BY <2>1, <2>2, <2>3
(* What a step does not touch keeps its properties. *)
<1>k. ASSUME UNCHANGED <<buffer, events, reports>> PROVE Numbered' /\ Verbatim' /\ Increasing'
  BY <1>h, <1>k DEF Numbered, Verbatim, Increasing
<1>1. CASE Fetch
  <2>1. /\ up = "idle" /\ up' \in {"regs", "flags"} /\ nb_pkt' = 0
        /\ UNCHANGED <<chip, buffer, events, irq_count_us, flags, count_us, reports, jit>>
    BY <1>1 DEF Fetch
  <2>2. Halted' /\ Announced'
    BY <1>h, <2>1 DEF Halted, Announced, Announces
  <2>3. QED
    BY <1>k, <2>1, <2>2
<1>2. CASE ReadRegs
  <2>1. /\ up = "regs" /\ up' = "flags" /\ flags' = flags \cup RxFlags(chip.irq)
        /\ chip' = [chip EXCEPT !.irq = {}]
        /\ UNCHANGED <<buffer, events, irq_count_us, nb_pkt, reports, jit>>
    BY <1>2, <1>f DEF ReadRegs
  <2>2. chip'.mode = chip.mode /\ chip'.irq = {} /\ flags' = RxFlags(chip.irq)
    BY <1>t, <1>h, <2>1, Cleared DEF Halted
  <2>3. mx_concent = "up" /\ jit = "idle"
    BY <2>1 DEF IInv, Mutex
  <2>4. chip.mode \in {"RX", "STANDBY"}
    BY <1>t, <1>h, <2>3, ChipFields DEF Halted
  <2>5. chip.mode = "RX" => flags' = {}
    BY <2>2 DEF IInv, RxArmed, RxFlags
  <2>6. Halted'
    BY <1>h, <2>1, <2>2, <2>4, <2>5 DEF Halted
  <2>7. Announced'
    BY <1>h, <2>1, <2>2 DEF Announced, Announces, RxFlags, RX_DONE, CRC_ERROR, RX_TIMEOUT
  <2>8. QED
    BY <1>k, <2>1, <2>6, <2>7
<1>3. CASE CheckFlags
  <2>1. up = "flags" /\ UNCHANGED <<chip, buffer, events, irq_count_us, nb_pkt, reports, jit>>
    BY <1>3 DEF CheckFlags
  <2>2. CASE Received(flags)
    <3>1. up' = "packet" /\ count_us' = irq_count_us /\ flags' = flags
      BY <1>3, <2>2 DEF CheckFlags
    <3>2. RX_DONE \in flags
      BY <1>h, <2>2 DEF Received, Announced, Announces
    <3>3. Halted'
      BY <1>h, <2>1, <3>1, <3>2 DEF Halted
    <3>4. Announced'
      BY <1>h, <2>1, <3>1, <3>2 DEF Announced, Announces
    <3>5. QED
      BY <1>k, <2>1, <3>3, <3>4
  <2>3. CASE ~Received(flags)
    <3>1. flags' = flags \ {RX_TIMEOUT} /\ up' = IF NeedsRearm(flags) THEN "rearm" ELSE "idle"
      BY <1>3, <2>3 DEF CheckFlags
    <3>2. flags' = {} /\ (up' = "rearm" => flags # {}) /\ up' \in {"rearm", "idle"}
      BY <1>t, <2>3, <3>1 DEF TypeOK, Received, NeedsRearm
    <3>3. Halted'
      BY <1>h, <2>1, <3>2 DEF Halted
    <3>4. Announced'
      BY <1>h, <2>1, <3>2 DEF Announced, Announces
    <3>5. QED
      BY <1>k, <2>1, <3>3, <3>4
  <2>4. QED
    BY <2>2, <2>3
<1>4. CASE ReadPacket
  <2> DEFINE r == [id |-> buffer.id, count_us |-> count_us, crc_ok |-> CRC_ERROR \notin flags,
                   own |-> buffer.crc_ok]
  <2>1. /\ up = "packet" /\ up' = "rearm" /\ nb_pkt' = 1 /\ reports' = Append(reports, r)
        /\ flags' = flags \ {RX_DONE, CRC_ERROR}
        /\ UNCHANGED <<chip, buffer, events, irq_count_us, count_us, jit>>
    BY <1>4, <1>f DEF ReadPacket, Handled
  <2>2. RX_DONE \in flags /\ count_us = buffer.id
    BY <1>h, <2>1 DEF Announced
  <2>3. r.id = buffer.id /\ r.count_us = r.id /\ r.crc_ok = r.own
    BY <1>h, <1>t, <2>2 DEF Announced, Announces, TypeOK
  <2>4. flags' = {}
    BY <1>h, <1>t, <2>1, <2>2 DEF Announced, Announces, TypeOK
  <2> HIDE DEF r
  <2>5. reports \in Seq(Reports)
    BY <1>t DEF TypeOK
  <2>6. /\ DOMAIN reports = 1 .. Len(reports) /\ Len(reports) \in Nat
        /\ DOMAIN reports' = 1 .. Len(reports) + 1
        /\ reports'[Len(reports) + 1] = r
        /\ \A i \in DOMAIN reports : reports'[i] = reports[i]
    BY <2>1, <2>5
  <2>7. \A i \in DOMAIN reports' : i \in DOMAIN reports \/ (i = Len(reports) + 1 /\ reports'[i] = r)
    BY <2>6
  <2>8. \A i \in DOMAIN reports : reports[i].id < buffer.id
    BY <1>h, <2>2 DEF Announced, Announces
  <2>9. Verbatim'
    BY <1>h, <2>3, <2>6, <2>7 DEF Verbatim
  <2>10. Increasing'
    <3> SUFFICES ASSUME NEW i \in DOMAIN reports', NEW j \in DOMAIN reports', i < j
                 PROVE  reports'[i].id < reports'[j].id
      BY DEF Increasing
    <3>1. i \in DOMAIN reports /\ reports'[i] = reports[i]
      BY <2>6, <2>7
    <3>2. CASE j \in DOMAIN reports
      BY <1>h, <2>6, <3>1, <3>2 DEF Increasing
    <3>3. CASE reports'[j] = r
      BY <2>3, <2>8, <3>1, <3>3
    <3>4. QED
      BY <2>7, <3>2, <3>3
  <2>11. Numbered'
    BY <1>h, <2>1, <2>3, <2>6, <2>7 DEF Numbered
  <2>12. Halted'
    BY <1>h, <2>1, <2>4 DEF Halted
  <2>13. Announced'
    BY <1>h, <2>1, <2>4, <2>12 DEF Announced, Announces, Halted
  <2>14. QED
    BY <2>9, <2>10, <2>11, <2>12, <2>13
<1>5. CASE Rearm
  <2>1. /\ up = "rearm" /\ up' = "idle" /\ chip' = SetRx(chip)
        /\ UNCHANGED <<buffer, events, irq_count_us, flags, count_us, nb_pkt, reports>>
    BY <1>5, <1>f, <1>h DEF Rearm, Halted
  <2>2. chip'.mode = "RX" /\ chip'.irq = {} /\ flags = {}
    BY <1>t, <1>h, <2>1, SetRxFields DEF Halted
  <2>3. Halted'
    BY <1>h, <2>1, <2>2 DEF Halted
  <2>4. Announced'
    BY <1>h, <2>1, <2>2 DEF Announced, Announces
  <2>5. QED
    BY <1>k, <2>1, <2>3, <2>4
<1>6. CASE Restart
  BY <1>6, <1>h DEF Restart, Halted
<1>7. CASE Send \/ ConfigureFails
  <2>1. jit # "poll" /\ up' = up
        /\ UNCHANGED <<chip, buffer, events, irq_count_us, flags, count_us, nb_pkt, reports>>
    BY <1>7, <1>f DEF Send, ConfigureFails
  <2>2. Halted' /\ Announced'
    BY <1>h, <2>1 DEF Halted, Announced, Announces
  <2>3. QED
    BY <1>k, <2>1, <2>2
<1>8. ASSUME chip'.irq = {}, chip'.mode = "TX" => jit' = "poll", mx_concent = "jit",
             UNCHANGED <<buffer, events, irq_count_us, flags, up, count_us, nb_pkt, reports>>
      PROVE  Halted' /\ Numbered' /\ Announced' /\ Verbatim' /\ Increasing'
  <2>1. up \notin {"flags", "packet", "rearm"} /\ flags = {}
    BY <1>h, <1>8 DEF IInv, Mutex, Halted
  <2>2. Halted' /\ Announced'
    BY <1>h, <1>8, <2>1 DEF Halted, Announced, Announces
  <2>3. QED
    BY <1>k, <1>8, <2>2
<1>9. CASE Configure
  <2>1. chip' = ArmedForTx /\ mx_concent = "jit"
        /\ UNCHANGED <<buffer, events, irq_count_us, flags, up, count_us, nb_pkt, reports>>
    BY <1>9 DEF Configure, IInv, Mutex
  <2>2. chip'.irq = {} /\ chip'.mode = "STANDBY"
    BY <2>1, ArmedForTxType
  <2>3. QED
    BY <1>8, <2>1, <2>2
<1>10. CASE Abort \/ Back
  <2>1. chip' = SetRx(Tune(chip)) /\ mx_concent = "jit"
        /\ UNCHANGED <<buffer, events, irq_count_us, flags, up, count_us, nb_pkt, reports>>
    BY <1>10, <1>f DEF Abort, Back, BackToRx, IInv, Mutex
  <2>2. chip'.irq = {} /\ chip'.mode = "RX"
    BY <1>t, <2>1, SetRxFields
  <2>3. QED
    BY <1>8, <2>1, <2>2
<1>11. CASE SetTx
  <2>1. chip' = [chip EXCEPT !.mode = "TX"] /\ mx_concent = "jit" /\ jit = "set_tx" /\ jit' = "poll"
        /\ UNCHANGED <<buffer, events, irq_count_us, flags, up, count_us, nb_pkt, reports>>
    BY <1>11 DEF SetTx, IInv, Mutex
  <2>2. chip'.irq = {}
    BY <1>t, <2>1 DEF Chips, IInv, TxKnown
  <2>3. QED
    BY <1>8, <2>1, <2>2
<1>12. CASE Poll
  <2>1. /\ chip' = [chip EXCEPT !.irq = {}] /\ mx_concent = "jit"
        /\ jit' = IF TxOver(chip.irq) THEN "back" ELSE "poll"
        /\ UNCHANGED <<buffer, events, irq_count_us, flags, up, count_us, nb_pkt, reports>>
    BY <1>12 DEF Poll, IInv, Mutex
  <2>2. chip'.irq = {} /\ chip'.mode = chip.mode
    BY <1>t, <2>1, Cleared
  <2>3. chip.mode = "TX" => jit' = "poll"
    BY <2>1 DEF TxOver, IInv, TxKnown
  <2>4. QED
    BY <1>8, <2>1, <2>2, <2>3
<1>13. CASE SendFails
  BY <1>13, <1>f DEF SendFails
<1>14. ASSUME NEW crc_ok \in BOOLEAN, RxDone(crc_ok)
       PROVE  Halted' /\ Numbered' /\ Announced' /\ Verbatim' /\ Increasing'
  <2> DEFINE irqs == {RX_DONE} \cup (IF crc_ok THEN {} ELSE {CRC_ERROR})
  <2>1. /\ chip.mode = "RX" /\ Raise(irqs, "STANDBY") /\ irqs \in SUBSET Irqs
        /\ buffer' = [id |-> events', crc_ok |-> crc_ok]
    BY <1>14 DEF RxDone, Irqs
  <2>2. chip.irq = {} /\ chip.mask = RX_IRQ_MASK
    BY <2>1 DEF IInv, RxArmed
  <2>3. chip'.mode = "STANDBY" /\ chip'.irq = irqs
    BY <1>t, <2>1, <2>2, RaiseType
  <2>4. chip.irq \cap chip.mask = {} /\ irqs \cap chip.mask # {}
    BY <2>2 DEF RX_IRQ_MASK
  <2>5. /\ irq_count_us' = events' /\ events' = events + 1
        /\ UNCHANGED <<flags, up, count_us, nb_pkt, reports, jit>>
    BY <2>1, <2>4 DEF Raise, Stamped
  <2>6. flags = {} /\ up \notin {"packet", "rearm"}
    BY <1>h, <2>1 DEF Halted
  <2>7. buffer'.id = events + 1 /\ buffer'.crc_ok = crc_ok
    BY <2>1, <2>5
  <2>9. Numbered' /\ \A i \in DOMAIN reports : reports[i].id < buffer'.id
    BY <1>h, <1>r, <2>5, <2>7 DEF Numbered
  <2>10. irqs \cap {RX_DONE, RX_TIMEOUT, CRC_ERROR} = irqs /\ RX_DONE \in irqs
          /\ RX_TIMEOUT \notin irqs /\ (CRC_ERROR \in irqs <=> ~crc_ok)
    BY DEF RX_DONE, CRC_ERROR, RX_TIMEOUT
  <2> HIDE DEF irqs
  <2>11. Announces(chip.irq)'
    BY <2>3, <2>5, <2>7, <2>9, <2>10 DEF Announces
  <2>12. Announced'
    BY <2>5, <2>6, <2>11 DEF Announced, Announces
  <2>13. Halted'
    BY <1>h, <2>3, <2>5, <2>6 DEF Halted
  <2>14. Verbatim' /\ Increasing'
    BY <1>h, <2>5 DEF Verbatim, Increasing
  <2>15. QED
    BY <2>9, <2>12, <2>13, <2>14
<1>15. ASSUME NEW irqs \in SUBSET Irqs, Raise(irqs, "STANDBY"), UNCHANGED buffer,
              RX_DONE \notin irqs, CRC_ERROR \notin irqs, chip.mode \in {"RX", "TX"}
       PROVE  Halted' /\ Numbered' /\ Announced' /\ Verbatim' /\ Increasing'
  <2>1. chip.irq = {}
    BY <1>15 DEF IInv, RxArmed, TxKnown
  <2>2. chip'.mode = "STANDBY" /\ chip'.irq = irqs
    BY <1>t, <1>15, <2>1, RaiseType
  <2>3. events' = events + 1 /\ UNCHANGED <<flags, up, count_us, nb_pkt, reports, jit, buffer>>
    BY <1>15 DEF Raise
  <2>4. flags = {} /\ up \notin {"packet", "rearm"}
    BY <1>h, <1>15 DEF Halted
  <2>5. Halted'
    BY <1>h, <2>2, <2>3, <2>4 DEF Halted
  <2>6. Announced'
    BY <1>15, <2>2, <2>3, <2>4 DEF Announced, Announces
  <2>8. Numbered'
    BY <1>h, <1>r, <2>3 DEF Numbered
  <2>9. QED
    BY <1>h, <2>3, <2>5, <2>6, <2>8 DEF Verbatim, Increasing
<1>16. CASE RxTimeout \/ TxDone
  <2>1. /\ {RX_TIMEOUT} \in SUBSET Irqs /\ {TX_DONE} \in SUBSET Irqs
        /\ {RX_DONE, CRC_ERROR} \cap {RX_TIMEOUT, TX_DONE} = {}
    BY DEF Irqs, RX_DONE, CRC_ERROR, RX_TIMEOUT, TX_DONE
  <2>2. QED
    BY <1>15, <1>16, <2>1 DEF RxTimeout, TxDone
<1>17. CASE UNCHANGED vars
  BY <1>17, <1>h DEF vars, Halted, Numbered, Announced, Announces, Verbatim, Increasing
<1>18. QED
  BY <1>1, <1>2, <1>3, <1>4, <1>5, <1>6, <1>7, <1>9, <1>10, <1>11, <1>12, <1>13,
     <1>14, <1>16, <1>17 DEF Next, ThreadUp, InSend, Radio

(* Nothing is announced or reported when the radio is first started.        *)
LEMMA FaultlessInit == Init => Faultless
<1> SUFFICES ASSUME Init PROVE Faultless
  OBVIOUS
<1>1. chip.mode = "RX" /\ chip.irq = {}
  BY ArmedForTxType DEF Init
<1>2. DOMAIN reports = {} /\ buffer.id = 0
  BY DEF Init
<1>3. Announced
  BY <1>1 DEF Init, Announced, Announces
<1>4. Halted /\ Numbered /\ Verbatim /\ Increasing
  BY <1>1, <1>2 DEF Init, Halted, Numbered, Verbatim, Increasing
<1>5. QED
  BY <1>3, <1>4 DEF Faultless

(* The invariant of a run without radio errors holds in every state.        *)
LEMMA FaultlessInvariance == Spec => [](IInv /\ Faultless)
<1>1. IInv /\ Faultless /\ [Next]_vars => Faultless'
  BY FaultlessInductive
<1>2. QED
  BY <1>1, FaultlessInit, Invariance, PTL DEF Spec

-----------------------------------------------------------------------------
(* Every state of the HAL has the types declared for it.                    *)
THEOREM TypeCorrect == Spec => []TypeOK
<1>1. IInv => TypeOK
  BY DEF IInv
<1>2. QED
  BY <1>1, Invariance, PTL

(* Between two calls, and unless a radio command failed since the last      *)
(* complete set-up, the radio receives on its channel or the next           *)
(* lgw_receive will find the reason why not: no sequence of receptions,     *)
(* timeouts and emissions makes the hub deaf, and no failure does for longer*)
(* than until the next lgw_send that completes.                             *)
THEOREM NeverDeaf == Spec => []Listening
<1>1. IInv => Listening
  BY DEF IInv, Mutex, Attentive, Tuned, Listening, Signalled
<1>2. QED
  BY <1>1, Invariance, PTL

(* The radio emits only while tx_status says so, whatever fails.            *)
THEOREM EmissionKnown == Spec => []EmittingIsTrue
<1>1. IInv => EmittingIsTrue
  BY DEF IInv, TxKnown, EmittingIsTrue
<1>2. QED
  BY <1>1, Invariance, PTL

(* Without radio errors, every packet is reported with the time and the CRC *)
(* verdict of its own reception, whatever the interleaving of receptions,   *)
(* timeouts, emissions and the two threads.                                 *)
THEOREM MetadataIsOwn == Spec => []OwnMetadata
<1>1. Faultless => OwnMetadata
  BY DEF Faultless, Verbatim, OwnMetadata
<1>2. QED
  BY <1>1, FaultlessInvariance, PTL

(* Without radio errors, packets are reported once and in the order of      *)
(* their arrival.                                                           *)
THEOREM ReportedInOrder == Spec => []InOrder
<1>1. Faultless => InOrder
  BY DEF Faultless, Increasing, InOrder
<1>2. QED
  BY <1>1, FaultlessInvariance, PTL

(* Without radio errors, only lgw_send clears a packet that has not been    *)
(* read: lgw_receive arms the radio again only where nothing is announced.  *)
THEOREM OnlySendOvertakes == Spec => LostOnlyToSend
<1>1. IInv /\ Faultless /\ [Next]_vars => (lost' # lost /\ faults' = 0 => mx_concent = "jit")
  <2> SUFFICES ASSUME IInv, Faultless, [Next]_vars, faults' = 0, mx_concent # "jit"
               PROVE  lost' = lost
    OBVIOUS
  <2> USE DEF handlerVars, upVars, jitVars, faultVars
  <2>1. faults \in Nat
    BY DEF IInv, TypeOK
  <2>2. ~Fault
    BY <2>1 DEF Fault
  <2>3. CASE Rearm
    <3>1. faults = 0 /\ up = "rearm" /\ lost' = lost \cup Forgotten(chip, chip')
      BY <2>2, <2>3 DEF Rearm
    <3>2. chip.irq = {}
      BY <3>1 DEF Faultless, Halted
    <3>3. QED
      BY <3>1, <3>2 DEF Forgotten
  <2>4. CASE InSend
    BY <2>2, <2>4 DEF InSend, Configure, ConfigureFails, Abort, Back, SetTx, Poll, SendFails, IInv, Mutex
  <2>5. CASE Fetch \/ ReadRegs \/ CheckFlags \/ ReadPacket \/ Restart \/ Send \/ UNCHANGED vars
    BY <2>5 DEF Fetch, ReadRegs, CheckFlags, ReadPacket, Restart, Send, vars
  <2>6. CASE Radio
    BY <2>6 DEF Radio, RxDone, RxTimeout, TxDone, Raise
  <2>7. QED
    BY <2>3, <2>4, <2>5, <2>6 DEF Next, ThreadUp
<1>2. QED
  BY <1>1, FaultlessInvariance, PTL DEF Spec, LostOnlyToSend

=============================================================================
