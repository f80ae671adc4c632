------------------------- MODULE PullProtocolProofs -------------------------
(***************************************************************************)
(* Theorems about PullProtocol, for any tokens, any threshold, any number  *)
(* of downlinks and of answers, and any network.                           *)
(***************************************************************************)
EXTENDS PullProtocol, TLAPS

InPeriod == down_pc \in {"recv", "enqueue", "tx_ack"}

(* autoquit_cnt is the number of silent periods, the one under way included *)
(* until it is answered.                                                    *)
CountsSilence ==
  /\ exit_sig <=> down_pc = "quit"
  /\ exit_sig => MustQuit
  /\ ~InPeriod => autoquit_cnt = silent
  /\ InPeriod => /\ heard = req_ack
                 /\ autoquit_cnt = IF heard THEN 0 ELSE silent + 1
                 /\ AUTOQUIT_THRESHOLD > 0 => silent < AUTOQUIT_THRESHOLD
  /\ AUTOQUIT_THRESHOLD > 0 => silent <= AUTOQUIT_THRESHOLD

(* A request that has no answer yet leaves room for it in the counters.     *)
AckRoom ==
  /\ InPeriod /\ ~req_ack => meas.ack_rcv <= meas.pull_sent
  /\ meas.ack_rcv <= meas.pull_sent + 1

(* So does a rejection that send_tx_ack has still to count.                 *)
RejectionDue == down_pc = "tx_ack" /\ txpkt.jit_result \in Rejections

RejectedRoom ==
  /\ cp.rejected <= cp.requested
  /\ cp.rejected + meas.rejected <= cp.requested + meas.requested
  /\ RejectionDue => cp.rejected + meas.rejected < cp.requested + meas.requested

(* The downlink in hand is in the queue exactly when its TX_ACK will say so.*)
InHand ==
  /\ down_pc \in {"enqueue", "tx_ack"} => txpkt \in Packets
  /\ down_pc = "tx_ack" /\ txpkt.jit_result \in {"OK", "TX_POWER"} => txpkt.token \in queued
  /\ \A d \in queued : \/ d \in Positive
                       \/ /\ down_pc = "tx_ack" /\ txpkt.token = d
                          /\ txpkt.jit_result \in {"OK", "TX_POWER"}
  /\ Positive \subseteq queued

IInv == TypeOK /\ CountsSilence /\ AckRoom /\ RejectedRoom /\ InHand

-----------------------------------------------------------------------------
(* The counters after one of them was incremented.                         *)
LEMMA CountsFields ==
  ASSUME NEW m \in Counts
  PROVE  /\ m.pull_sent \in Nat /\ m.ack_rcv \in Nat /\ m.requested \in Nat /\ m.rejected \in Nat
         /\ LET s == [m EXCEPT !.pull_sent = @ + 1]
            IN  /\ s \in Counts /\ s.pull_sent = m.pull_sent + 1 /\ s.ack_rcv = m.ack_rcv
                /\ s.requested = m.requested /\ s.rejected = m.rejected
         /\ LET a == [m EXCEPT !.ack_rcv = @ + 1]
            IN  /\ a \in Counts /\ a.pull_sent = m.pull_sent /\ a.ack_rcv = m.ack_rcv + 1
                /\ a.requested = m.requested /\ a.rejected = m.rejected
         /\ LET q == [m EXCEPT !.requested = @ + 1]
            IN  /\ q \in Counts /\ q.pull_sent = m.pull_sent /\ q.ack_rcv = m.ack_rcv
                /\ q.requested = m.requested + 1 /\ q.rejected = m.rejected
         /\ LET r == [m EXCEPT !.rejected = @ + 1]
            IN  /\ r \in Counts /\ r.pull_sent = m.pull_sent /\ r.ack_rcv = m.ack_rcv
                /\ r.requested = m.requested /\ r.rejected = m.rejected + 1
BY DEF Counts

(* The counters after a reset.                                             *)
LEMMA NoCountsFields ==
  /\ NoCounts \in Counts /\ NoCounts.pull_sent = 0 /\ NoCounts.ack_rcv = 0
  /\ NoCounts.requested = 0 /\ NoCounts.rejected = 0
  /\ NoSums \in Sums /\ NoSums.requested = 0 /\ NoSums.rejected = 0
BY DEF NoCounts, Counts, NoSums, Sums

(* The sums of the reports, one report later.                              *)
LEMMA SumsFields ==
  ASSUME NEW c \in Sums, NEW m \in Counts
  PROVE  LET s == [requested |-> c.requested + m.requested, rejected |-> c.rejected + m.rejected]
         IN  /\ c.requested \in Nat /\ c.rejected \in Nat
             /\ s \in Sums
             /\ s.requested = c.requested + m.requested /\ s.rejected = c.rejected + m.rejected
<1>1. c.requested \in Nat /\ c.rejected \in Nat
  BY DEF Sums
<1>2. m.requested \in Nat /\ m.rejected \in Nat
  BY CountsFields
<1>3. QED
  BY <1>1, <1>2 DEF Sums

(* A packet once jit_enqueue has given its verdict.                        *)
LEMMA PacketFields ==
  ASSUME NEW p \in Packets, NEW r \in Results
  PROVE  LET q == [p EXCEPT !.jit_result = r]
         IN  /\ q \in Packets /\ q.token = p.token /\ q.jit_result = r /\ q.form = p.form
             /\ p.token \in Downlinks /\ p.jit_result \in Results /\ p.form \in Forms
             /\ [token |-> p.token, error |-> r] \in TxAcks
BY DEF Packets, TxAcks

(* A received downlink that is not malformed.                               *)
LEMMA NewPacket ==
  ASSUME NEW t \in Downlinks, NEW form \in Forms, form # "malformed",
         NEW r \in {"TX_FREQ", "OK"}
  PROVE  LET p == [token |-> t, form |-> form, jit_result |-> r]
         IN  p \in Packets /\ p.token = t /\ p.form = form /\ p.jit_result = r
BY DEF Packets, Results, Verdicts

-----------------------------------------------------------------------------
(* Types *)

(* Where thread_down goes after a packet.                                  *)
LEMMA ProceedType ==
  ASSUME TypeOK, NEW b \in BOOLEAN, Proceed(b), heard' \in BOOLEAN
  PROVE  /\ down_pc' \in {"top", "recv"} /\ silent' \in Nat
         /\ down_pc' = IF b THEN "top" ELSE "recv"
BY DEF Proceed, TypeOK

(* Every step keeps the types.                                             *)
LEMMA TypeInductive == TypeOK /\ InHand /\ [Next]_vars => TypeOK'
<1> SUFFICES ASSUME TypeOK, InHand, [Next]_vars PROVE TypeOK'
  OBVIOUS
<1>0. /\ down_pc \in {"top", "recv", "enqueue", "tx_ack", "quit"}
      /\ token \in Tokens
      /\ req_ack \in BOOLEAN /\ elapsed \in BOOLEAN
      /\ exit_sig \in BOOLEAN /\ heard \in BOOLEAN
      /\ autoquit_cnt \in Nat /\ silent \in Nat /\ received \in 0 .. MAX_RESP
      /\ down_pc = "enqueue" => txpkt.form # "off_band"
      /\ txpkt = NoDownlink \/ txpkt \in Packets
      /\ meas \in Counts /\ meas.pull_sent \in Nat /\ meas.pull_sent <= STAT_PULLS
      /\ cp \in Sums /\ net \subseteq Datagrams
      /\ queued \subseteq Downlinks /\ txacks \subseteq TxAcks
  BY CountsFields DEF TypeOK
<1> USE ProtocolAssumption DEF downVars, history
<1>1. CASE Quit
  BY <1>0, <1>1 DEF Quit, TypeOK
<1>2. CASE SendPullData
  <2>1. meas' \in Counts /\ meas'.pull_sent = meas.pull_sent + 1 /\ meas.pull_sent < STAT_PULLS
    BY <1>0, <1>2, CountsFields DEF SendPullData
  <2>2. token' \in Tokens /\ net' \subseteq Datagrams
    BY <1>0, <1>2 DEF SendPullData, Datagrams
  <2>3. meas'.pull_sent <= STAT_PULLS
    BY <1>0, <2>1
  <2>4. /\ down_pc' = "recv" /\ req_ack' = FALSE /\ elapsed' = FALSE /\ heard' = FALSE
        /\ autoquit_cnt' = autoquit_cnt + 1
        /\ UNCHANGED <<txpkt, exit_sig, cp, received, silent, queued, txacks>>
    BY <1>2 DEF SendPullData
  <2>5. autoquit_cnt' \in Nat
    BY <1>0, <2>4
  <2>6. meas' \in Counts
    BY <2>1
  <2>7. QED
    BY <1>0, <2>2, <2>3, <2>4, <2>5, <2>6 DEF TypeOK
<1>3. CASE RecvNothing
  <2>1. down_pc' \in {"top", "recv"} /\ silent' \in Nat
    BY <1>0, <1>3, ProceedType DEF RecvNothing
  <2>2. QED
    BY <1>0, <1>3, <2>1 DEF RecvNothing, TypeOK
<1>4. ASSUME NEW t \in Tokens, RecvPullAck(t) PROVE TypeOK'
  <2>1. heard' \in BOOLEAN /\ Proceed(elapsed)
    BY <1>0, <1>4 DEF RecvPullAck
  <2>2. down_pc' \in {"top", "recv"} /\ silent' \in Nat
    BY <1>0, <2>1, ProceedType
  <2>3. meas' \in Counts /\ meas'.pull_sent = meas.pull_sent
    BY <1>0, <1>4, CountsFields DEF RecvPullAck, Accepted
  <2>4. req_ack' \in BOOLEAN /\ autoquit_cnt' \in Nat
    BY <1>0, <1>4 DEF RecvPullAck, Accepted, Acknowledges
  <2>5. QED
    BY <1>0, <1>4, <2>1, <2>2, <2>3, <2>4 DEF RecvPullAck, TypeOK
<1>5. ASSUME NEW t \in Downlinks, NEW form \in Forms, RecvPullResp(t, form) PROVE TypeOK'
  <2>1. heard' = heard /\ received' \in 0 .. MAX_RESP
    BY <1>0, <1>5 DEF RecvPullResp
  <2>2. CASE form = "malformed"
    <3>1. Proceed(elapsed) /\ txpkt' = txpkt
      BY <1>5, <2>2 DEF RecvPullResp
    <3>2. down_pc' \in {"top", "recv"} /\ silent' \in Nat
      BY <1>0, <2>1, <3>1, ProceedType
    <3>3. QED
      BY <1>0, <1>5, <2>1, <3>1, <3>2 DEF RecvPullResp, TypeOK
  <2>3. CASE form # "malformed"
    <3> DEFINE r == IF form = "off_band" THEN "TX_FREQ" ELSE "OK"
    <3>1. txpkt' = [token |-> t, form |-> form, jit_result |-> r] /\ silent' = silent
          /\ down_pc' = AfterParsing(form)
      BY <1>5, <2>3 DEF RecvPullResp
    <3>2. txpkt' \in Packets /\ txpkt'.form = form
      BY <2>3, <3>1, NewPacket
    <3>3. down_pc' \in {"enqueue", "tx_ack"} /\ (down_pc' = "enqueue" => form # "off_band")
      BY <3>1 DEF AfterParsing
    <3> HIDE DEF r
    <3>4. QED
      BY <1>0, <1>5, <2>1, <3>1, <3>2, <3>3 DEF RecvPullResp, TypeOK
  <2>4. QED
    BY <2>2, <2>3
<1>6. CASE Enqueue
  <2>1. txpkt \in Packets
    BY <1>6 DEF Enqueue, InHand
  <2>2. PICK verdict \in Verdicts :
          /\ txpkt' = [txpkt EXCEPT !.jit_result = Result(verdict)]
          /\ queued' = IF verdict = "OK" THEN queued \cup {txpkt.token} ELSE queued
    BY <1>6 DEF Enqueue
  <2>3. Result(verdict) \in Results
    BY DEF Result, Warning, Results, Verdicts
  <2>4. txpkt' \in Packets /\ queued' \subseteq Downlinks
    BY <1>0, <2>1, <2>2, <2>3, PacketFields
  <2>5. meas' \in Counts /\ meas'.pull_sent = meas.pull_sent
    BY <1>0, <1>6, CountsFields DEF Enqueue
  <2>6. QED
    BY <1>0, <1>6, <2>4, <2>5 DEF Enqueue, TypeOK
<1>7. CASE SendTxAck
  <2>1. txpkt \in Packets /\ heard' = heard /\ Proceed(elapsed)
    BY <1>7 DEF SendTxAck, InHand
  <2>2. down_pc' \in {"top", "recv"} /\ silent' \in Nat
    BY <1>0, <2>1, ProceedType
  <2>3. meas' \in Counts /\ meas'.pull_sent = meas.pull_sent
    BY <1>0, <1>7, CountsFields DEF SendTxAck
  <2>4. txpkt.jit_result \in Results /\ txpkt.token \in Downlinks
    BY <2>1 DEF Packets
  <2>5. txacks' \subseteq TxAcks
    BY <1>0, <1>7, <2>4 DEF SendTxAck, TxAcks
  <2>6. QED
    BY <1>0, <1>7, <2>1, <2>2, <2>3, <2>5 DEF SendTxAck, TypeOK
<1>8. CASE Report
  <2>1. cp' \in Sums /\ meas' \in Counts /\ meas'.pull_sent = 0
    BY <1>0, <1>8, SumsFields, NoCountsFields DEF Report
  <2>2. QED
    BY <1>0, <1>8, <2>1 DEF Report, TypeOK
<1>9. CASE TimePasses
  BY <1>0, <1>9 DEF TimePasses, TypeOK
<1>10. CASE Restart
  <2>1. meas' \in Counts /\ meas'.pull_sent <= STAT_PULLS /\ cp' \in Sums
    BY <1>10, NoCountsFields DEF Restart
  <2>2. /\ down_pc' = "top" /\ req_ack' = FALSE /\ elapsed' = FALSE /\ heard' = FALSE
        /\ autoquit_cnt' = 0 /\ silent' = 0 /\ exit_sig' = FALSE /\ txpkt' = NoDownlink
        /\ UNCHANGED <<token, net, received, queued, txacks>>
    BY <1>10 DEF Restart
  <2>3. QED
    BY <1>0, <2>1, <2>2 DEF TypeOK
<1>11. CASE Server
  <2>1. /\ \E m \in Datagrams : net' = net \cup {m}
        /\ UNCHANGED <<downVars, elapsed, meas, cp, received, history>>
    <3>1. ASSUME NEW t \in Tokens, Answer(t) PROVE <2>1!:
      <4>1. [type |-> "PULL_ACK", token |-> t] \in Datagrams
        BY DEF Datagrams
      <4>2. QED
        BY <3>1, <4>1 DEF Answer
    <3>2. ASSUME NEW t \in Downlinks, NEW form \in Forms, SendPullResp(t, form) PROVE <2>1!:
      <4>1. [type |-> "PULL_RESP", token |-> t, form |-> form] \in Datagrams
        BY DEF Datagrams
      <4>2. QED
        BY <3>2, <4>1 DEF SendPullResp
    <3>3. QED
      BY <1>11, <3>1, <3>2 DEF Server
  <2>2. net' \subseteq Datagrams
    BY <1>0, <2>1
  <2>3. QED
    BY <1>0, <2>1, <2>2 DEF TypeOK
<1>12. CASE UNCHANGED vars
  BY <1>0, <1>12 DEF vars, TypeOK
<1>13. QED
  BY <1>1, <1>2, <1>3, <1>4, <1>5, <1>6, <1>7, <1>8, <1>9, <1>10, <1>11, <1>12
     DEF Next, ThreadDown

-----------------------------------------------------------------------------
(* The count of silent periods *)

(* The end of a period, or its going on.                                    *)
LEMMA ProceedCounts ==
  ASSUME TypeOK, CountsSilence, down_pc \in {"recv", "tx_ack"}, NEW b \in BOOLEAN, Proceed(b),
         heard' \in BOOLEAN, heard' = req_ack', exit_sig' = exit_sig, heard => heard',
         autoquit_cnt' = IF heard' THEN 0 ELSE autoquit_cnt
  PROVE  CountsSilence'
<1>1. /\ ~exit_sig /\ autoquit_cnt = IF heard THEN 0 ELSE silent + 1
      /\ AUTOQUIT_THRESHOLD > 0 => silent < AUTOQUIT_THRESHOLD
      /\ silent \in Nat /\ heard \in BOOLEAN
  BY DEF CountsSilence, InPeriod, TypeOK
<1>2. CASE b
  <2>1. down_pc' = "top" /\ silent' = IF heard' THEN 0 ELSE silent + 1
    BY <1>2 DEF Proceed
  <2>2. autoquit_cnt' = silent'
    BY <1>1, <2>1
  <2>3. AUTOQUIT_THRESHOLD > 0 => silent' <= AUTOQUIT_THRESHOLD
    BY <1>1, <2>1, ProtocolAssumption
  <2>4. QED
    BY <1>1, <2>1, <2>2, <2>3 DEF CountsSilence, InPeriod
<1>3. CASE ~b
  <2>1. down_pc' = "recv" /\ silent' = silent
    BY <1>3 DEF Proceed
  <2>2. QED
    BY <1>1, <2>1, ProtocolAssumption DEF CountsSilence, InPeriod
<1>4. QED
  BY <1>2, <1>3

(* Every step keeps autoquit_cnt in line with the silence.                 *)
LEMMA CountsInductive == TypeOK /\ CountsSilence /\ [Next]_vars => CountsSilence'
<1> SUFFICES ASSUME TypeOK, CountsSilence, [Next]_vars PROVE CountsSilence'
  OBVIOUS
<1>0. /\ autoquit_cnt \in Nat /\ silent \in Nat
      /\ req_ack \in BOOLEAN /\ heard \in BOOLEAN /\ elapsed \in BOOLEAN
      /\ AUTOQUIT_THRESHOLD \in Nat
  BY ProtocolAssumption DEF TypeOK
<1> USE DEF downVars, history
<1>1. CASE Quit
  <2>1. /\ down_pc = "top" /\ MustQuit /\ exit_sig' /\ down_pc' = "quit"
        /\ UNCHANGED <<autoquit_cnt, silent>>
    BY <1>1 DEF Quit
  <2>2. QED
    BY <1>0, <2>1 DEF CountsSilence, InPeriod, MustQuit
<1>2. CASE SendPullData
  <2>1. /\ down_pc = "top" /\ ~MustQuit /\ down_pc' = "recv" /\ req_ack' = FALSE /\ heard' = FALSE
        /\ autoquit_cnt' = autoquit_cnt + 1 /\ UNCHANGED <<silent, exit_sig>>
    BY <1>2 DEF SendPullData
  <2>2. AUTOQUIT_THRESHOLD > 0 => autoquit_cnt < AUTOQUIT_THRESHOLD
    BY <1>0, <2>1 DEF MustQuit
  <2>3. autoquit_cnt = silent /\ ~exit_sig
    BY <2>1 DEF CountsSilence, InPeriod
  <2>4. QED
    BY <1>0, <2>1, <2>2, <2>3 DEF CountsSilence, InPeriod
<1>3. CASE RecvNothing \/ SendTxAck
  <2>1. /\ down_pc \in {"recv", "tx_ack"} /\ Proceed(elapsed)
        /\ UNCHANGED <<heard, req_ack, exit_sig, autoquit_cnt>>
    BY <1>3 DEF RecvNothing, SendTxAck
  <2>2. heard = req_ack /\ (heard => autoquit_cnt = 0)
    BY <2>1 DEF CountsSilence, InPeriod
  <2>3. heard' \in BOOLEAN /\ heard' = req_ack' /\ autoquit_cnt' = IF heard' THEN 0 ELSE autoquit_cnt
    BY <1>0, <2>1, <2>2
  <2>4. QED
    BY <1>0, <2>1, <2>3, ProceedCounts
<1>4. ASSUME NEW t \in Tokens, RecvPullAck(t) PROVE CountsSilence'
  <2>1. /\ down_pc = "recv" /\ Proceed(elapsed) /\ exit_sig' = exit_sig
        /\ heard' = (heard \/ t = token)
        /\ req_ack' = (req_ack \/ (t = token /\ ~req_ack))
        /\ autoquit_cnt' = IF t = token /\ ~req_ack THEN 0 ELSE autoquit_cnt
    BY <1>4 DEF RecvPullAck, Accepted, Acknowledges
  <2>2. heard = req_ack /\ (heard => autoquit_cnt = 0)
    BY <2>1 DEF CountsSilence, InPeriod
  <2>3. heard' \in BOOLEAN /\ heard' = req_ack' /\ autoquit_cnt' = IF heard' THEN 0 ELSE autoquit_cnt
    BY <1>0, <2>1, <2>2
  <2>4. QED
    BY <1>0, <2>1, <2>3, ProceedCounts
<1>5. ASSUME NEW t \in Downlinks, NEW form \in Forms, RecvPullResp(t, form) PROVE CountsSilence'
  <2>1. /\ down_pc = "recv"
        /\ UNCHANGED <<heard, req_ack, exit_sig, autoquit_cnt>>
    BY <1>5 DEF RecvPullResp
  <2>2. CASE form = "malformed"
    <3>1. Proceed(elapsed)
      BY <1>5, <2>2 DEF RecvPullResp
    <3>2. heard = req_ack /\ (heard => autoquit_cnt = 0)
      BY <2>1 DEF CountsSilence, InPeriod
    <3>3. heard' \in BOOLEAN /\ heard' = req_ack' /\ autoquit_cnt' = IF heard' THEN 0 ELSE autoquit_cnt
      BY <1>0, <2>1, <3>2
    <3>4. QED
      BY <1>0, <2>1, <3>1, <3>3, ProceedCounts
  <2>3. CASE form # "malformed"
    <3>1. down_pc' \in {"enqueue", "tx_ack"} /\ silent' = silent
      BY <1>5, <2>3 DEF RecvPullResp, AfterParsing
    <3>2. QED
      BY <2>1, <3>1 DEF CountsSilence, InPeriod
  <2>4. QED
    BY <2>2, <2>3
<1>6. CASE Enqueue
  <2>1. /\ down_pc = "enqueue" /\ down_pc' = "tx_ack"
        /\ UNCHANGED <<heard, silent, req_ack, exit_sig, autoquit_cnt>>
    BY <1>6 DEF Enqueue
  <2>2. QED
    BY <2>1 DEF CountsSilence, InPeriod
<1>7. CASE Report \/ TimePasses \/ Server \/ UNCHANGED vars
  <2>1. UNCHANGED <<downVars, history>>
    BY <1>7 DEF Report, TimePasses, Server, Answer, SendPullResp, vars
  <2>2. QED
    BY <2>1 DEF CountsSilence, InPeriod, MustQuit
<1>8. CASE Restart
  <2>1. down_pc' = "top" /\ autoquit_cnt' = 0 /\ silent' = 0 /\ exit_sig' = FALSE
    BY <1>8 DEF Restart
  <2>2. QED
    BY <1>0, <2>1 DEF CountsSilence, InPeriod
<1>9. QED
  BY <1>1, <1>2, <1>3, <1>4, <1>5, <1>6, <1>7, <1>8 DEF Next, ThreadDown

-----------------------------------------------------------------------------
(* The counters *)

(* Every step keeps room for an answer still to be counted.                *)
LEMMA AckInductive == TypeOK /\ AckRoom /\ [Next]_vars => AckRoom'
<1> SUFFICES ASSUME TypeOK, AckRoom, [Next]_vars PROVE AckRoom'
  OBVIOUS
<1>0. meas \in Counts /\ meas.pull_sent \in Nat /\ meas.ack_rcv \in Nat
  BY CountsFields DEF TypeOK
<1> USE DEF AckRoom, InPeriod, downVars, history
<1>1. CASE Quit
  BY <1>1 DEF Quit
<1>2. CASE SendPullData
  <2>1. meas'.pull_sent = meas.pull_sent + 1 /\ meas'.ack_rcv = meas.ack_rcv
    BY <1>0, <1>2, CountsFields DEF SendPullData
  <2>2. QED
    BY <1>0, <2>1
<1>3. CASE RecvNothing
  <2>1. down_pc = "recv" /\ UNCHANGED <<req_ack, meas>>
    BY <1>3 DEF RecvNothing
  <2>2. QED
    BY <2>1
<1>4. ASSUME NEW t \in Tokens, RecvPullAck(t) PROVE AckRoom'
  <2>1. CASE Acknowledges(t)
    <3>1. /\ down_pc = "recv" /\ ~req_ack /\ req_ack'
          /\ meas' = [meas EXCEPT !.ack_rcv = @ + 1]
      BY <1>4, <2>1 DEF RecvPullAck, Accepted, Acknowledges
    <3>2. meas'.pull_sent = meas.pull_sent /\ meas'.ack_rcv = meas.ack_rcv + 1
      BY <1>0, <3>1, CountsFields
    <3>3. QED
      BY <1>0, <3>1, <3>2
  <2>2. CASE ~Acknowledges(t)
    <3>1. down_pc = "recv" /\ (req_ack' <=> req_ack) /\ meas' = meas
      BY <1>4, <2>2 DEF RecvPullAck, Accepted
    <3>2. QED
      BY <3>1
  <2>3. QED
    BY <2>1, <2>2
<1>5. ASSUME NEW t \in Downlinks, NEW form \in Forms, RecvPullResp(t, form) PROVE AckRoom'
  <2>1. down_pc = "recv" /\ UNCHANGED <<req_ack, meas>>
    BY <1>5 DEF RecvPullResp
  <2>2. QED
    BY <2>1
<1>6. CASE Enqueue
  <2>1. /\ down_pc = "enqueue" /\ req_ack' = req_ack
        /\ meas'.pull_sent = meas.pull_sent /\ meas'.ack_rcv = meas.ack_rcv
    BY <1>0, <1>6, CountsFields DEF Enqueue
  <2>2. QED
    BY <2>1
<1>7. CASE SendTxAck
  <2>1. /\ down_pc = "tx_ack" /\ req_ack' = req_ack
        /\ meas'.pull_sent = meas.pull_sent /\ meas'.ack_rcv = meas.ack_rcv
    BY <1>0, <1>7, CountsFields DEF SendTxAck
  <2>2. QED
    BY <2>1
<1>8. CASE Report \/ Restart
  <2>1. meas' = NoCounts
    BY <1>8 DEF Report, Restart
  <2>2. QED
    BY <2>1, NoCountsFields
<1>9. CASE TimePasses \/ Server \/ UNCHANGED vars
  <2>1. UNCHANGED <<down_pc, req_ack, meas>>
    BY <1>9 DEF TimePasses, Server, Answer, SendPullResp, vars
  <2>2. QED
    BY <2>1
<1>10. QED
  BY <1>1, <1>2, <1>3, <1>4, <1>5, <1>6, <1>7, <1>8, <1>9 DEF Next, ThreadDown

(* Every step keeps room for a rejection still to be counted.              *)
LEMMA RejectedInductive == TypeOK /\ RejectedRoom /\ [Next]_vars => RejectedRoom'
<1> SUFFICES ASSUME TypeOK, RejectedRoom, [Next]_vars PROVE RejectedRoom'
  OBVIOUS
<1>0. /\ meas \in Counts /\ meas.requested \in Nat /\ meas.rejected \in Nat
      /\ cp \in Sums /\ cp.requested \in Nat /\ cp.rejected \in Nat
  BY CountsFields, SumsFields DEF TypeOK
<1> USE DEF RejectedRoom, downVars, history
<1>1. CASE Quit \/ RecvNothing
  <2>1. ~RejectionDue' /\ UNCHANGED <<meas, cp>>
    BY <1>1 DEF Quit, RecvNothing, Proceed, RejectionDue
  <2>2. QED
    BY <2>1
<1>2. CASE SendPullData
  <2>1. /\ ~RejectionDue' /\ cp' = cp
        /\ meas'.requested = meas.requested /\ meas'.rejected = meas.rejected
    BY <1>0, <1>2, CountsFields DEF SendPullData, RejectionDue
  <2>2. QED
    BY <2>1
<1>3. ASSUME NEW t \in Tokens, RecvPullAck(t) PROVE RejectedRoom'
  <2>1. ~RejectionDue' /\ cp' = cp
    BY <1>3 DEF RecvPullAck, Proceed, RejectionDue
  <2>2. meas'.requested = meas.requested /\ meas'.rejected = meas.rejected
    BY <1>0, <1>3, CountsFields DEF RecvPullAck, Accepted
  <2>3. QED
    BY <2>1, <2>2
<1>4. ASSUME NEW t \in Downlinks, NEW form \in Forms, RecvPullResp(t, form) PROVE RejectedRoom'
  <2>1. ~RejectionDue'
    <3>1. CASE form = "malformed"
      BY <1>4, <3>1 DEF RecvPullResp, Proceed, RejectionDue
    <3>2. CASE form # "malformed"
      <4>1. txpkt'.jit_result \in {"TX_FREQ", "OK"}
        BY <1>4, <3>2, NewPacket DEF RecvPullResp
      <4>2. QED
        BY <4>1 DEF RejectionDue, Rejections
    <3>3. QED
      BY <3>1, <3>2
  <2>2. UNCHANGED <<meas, cp>>
    BY <1>4 DEF RecvPullResp
  <2>3. QED
    BY <2>1, <2>2
<1>5. CASE Enqueue
  <2>1. cp' = cp /\ meas'.requested = meas.requested + 1 /\ meas'.rejected = meas.rejected
    BY <1>0, <1>5, CountsFields DEF Enqueue
  <2>2. QED
    BY <1>0, <2>1
<1>6. CASE SendTxAck
  <2>1. ~RejectionDue' /\ cp' = cp /\ down_pc = "tx_ack"
    BY <1>6 DEF SendTxAck, Proceed, RejectionDue
  <2>2. meas'.requested = meas.requested
    BY <1>0, <1>6, CountsFields DEF SendTxAck
  <2>3. CASE txpkt.jit_result \in Rejections
    <3>1. meas'.rejected = meas.rejected + 1
      BY <1>0, <1>6, <2>3, CountsFields DEF SendTxAck
    <3>2. QED
      BY <1>0, <2>1, <2>2, <2>3, <3>1 DEF RejectionDue
  <2>4. CASE txpkt.jit_result \notin Rejections
    <3>1. meas' = meas
      BY <1>6, <2>4 DEF SendTxAck
    <3>2. QED
      BY <2>1, <3>1
  <2>5. QED
    BY <2>3, <2>4
<1>7. CASE Report
  <2>1. /\ cp'.requested = cp.requested + meas.requested
        /\ cp'.rejected = cp.rejected + meas.rejected
    BY <1>0, <1>7, SumsFields DEF Report
  <2>2. meas'.requested = 0 /\ meas'.rejected = 0 /\ RejectionDue' = RejectionDue
    BY <1>7, NoCountsFields DEF Report, RejectionDue
  <2>3. QED
    BY <1>0, <2>1, <2>2
<1>8. CASE Restart
  <2>1. meas' = NoCounts /\ cp' = NoSums /\ ~RejectionDue'
    BY <1>8 DEF Restart, RejectionDue
  <2>2. QED
    BY <2>1, NoCountsFields
<1>9. CASE TimePasses \/ Server \/ UNCHANGED vars
  <2>1. UNCHANGED <<down_pc, txpkt, meas, cp>>
    BY <1>9 DEF TimePasses, Server, Answer, SendPullResp, vars
  <2>2. QED
    BY <2>1 DEF RejectionDue
<1>10. QED
  BY <1>1, <1>2, <1>3, <1>4, <1>5, <1>6, <1>7, <1>8, <1>9 DEF Next, ThreadDown

-----------------------------------------------------------------------------
(* The downlink in hand *)

Good == {"OK", "TX_POWER"}

(* An accepted downlink is reported as such, with its warning or without.   *)
LEMMA ResultTruthful ==
  ASSUME NEW v \in Verdicts PROVE Result(v) \in Results /\ (Result(v) \in Good <=> v = "OK")
BY DEF Result, Warning, Results, Verdicts, Good

(* Going on from one datagram to the next changes nothing of it.            *)
LEMMA InHandKept ==
  ASSUME InHand, down_pc \notin {"enqueue", "tx_ack"}, down_pc' \notin {"enqueue", "tx_ack"},
         UNCHANGED <<queued, txacks>>
  PROVE  InHand'
BY DEF InHand, Positive

(* Every step keeps the packet in hand in line with the queue.             *)
LEMMA InHandInductive == TypeOK /\ CountsSilence /\ InHand /\ [Next]_vars => InHand'
<1> SUFFICES ASSUME TypeOK, CountsSilence, InHand, [Next]_vars PROVE InHand'
  OBVIOUS
<1> USE DEF downVars, history
<1>1. CASE Quit \/ SendPullData \/ RecvNothing
  <2>1. /\ down_pc \in {"top", "recv"} /\ down_pc' \in {"top", "recv", "quit"}
        /\ UNCHANGED <<queued, txacks>>
    BY <1>1 DEF Quit, SendPullData, RecvNothing, Proceed
  <2>2. QED
    BY <2>1, InHandKept
<1>2. ASSUME NEW t \in Tokens, RecvPullAck(t) PROVE InHand'
  <2>1. /\ down_pc = "recv" /\ down_pc' \in {"top", "recv"} /\ UNCHANGED <<queued, txacks>>
    BY <1>2 DEF RecvPullAck, Proceed
  <2>2. QED
    BY <2>1, InHandKept
<1>3. ASSUME NEW t \in Downlinks, NEW form \in Forms, RecvPullResp(t, form) PROVE InHand'
  <2>1. down_pc = "recv" /\ UNCHANGED <<queued, txacks>>
    BY <1>3 DEF RecvPullResp
  <2>2. CASE form = "malformed"
    <3>1. down_pc' \in {"top", "recv"}
      BY <1>3, <2>2 DEF RecvPullResp, Proceed
    <3>2. QED
      BY <2>1, <3>1, InHandKept
  <2>3. CASE form # "malformed"
    <3> DEFINE r == IF form = "off_band" THEN "TX_FREQ" ELSE "OK"
    <3>1. /\ txpkt' = [token |-> t, form |-> form, jit_result |-> r]
          /\ down_pc' = IF form = "off_band" THEN "tx_ack" ELSE "enqueue"
      BY <1>3, <2>3 DEF RecvPullResp, AfterParsing
    <3>2. txpkt' \in Packets /\ txpkt'.jit_result = r
      BY <2>3, <3>1, NewPacket
    <3>3. down_pc' = "tx_ack" => txpkt'.jit_result = "TX_FREQ"
      BY <3>1, <3>2
    <3>4. \A d \in queued : d \in Positive
      BY <2>1 DEF InHand
    <3> HIDE DEF r
    <3>5. QED
      BY <2>1, <3>2, <3>3, <3>4 DEF InHand, Positive
  <2>4. QED
    BY <2>2, <2>3
<1>4. CASE Enqueue
  <2>1. txpkt \in Packets /\ down_pc = "enqueue" /\ down_pc' = "tx_ack" /\ txacks' = txacks
    BY <1>4 DEF Enqueue, InHand
  <2>2. PICK v \in Verdicts :
          /\ txpkt' = [txpkt EXCEPT !.jit_result = Result(v)]
          /\ queued' = IF v = "OK" THEN queued \cup {txpkt.token} ELSE queued
    BY <1>4 DEF Enqueue
  <2>3. Result(v) \in Results /\ (Result(v) \in Good <=> v = "OK")
    BY ResultTruthful
  <2>4. txpkt' \in Packets /\ txpkt'.token = txpkt.token /\ txpkt'.jit_result = Result(v)
    BY <2>1, <2>2, <2>3, PacketFields
  <2>5. txpkt'.jit_result \in Good <=> v = "OK"
    BY <2>3, <2>4
  <2>6. (\A d \in queued : d \in Positive) /\ Positive \subseteq queued /\ Positive' = Positive
    BY <2>1 DEF InHand, Positive
  <2>7. Positive' \subseteq queued' /\ (v = "OK" => txpkt'.token \in queued')
    BY <2>2, <2>4, <2>6
  <2>8. \A d \in queued' : d \in Positive' \/ (txpkt'.token = d /\ v = "OK")
    BY <2>2, <2>4, <2>6
  <2>9. QED
    BY <2>1, <2>4, <2>5, <2>7, <2>8 DEF InHand, Good
<1>5. CASE SendTxAck
  <2>1. /\ down_pc = "tx_ack" /\ down_pc' \in {"top", "recv"} /\ queued' = queued
        /\ txacks' = txacks \cup {[token |-> txpkt.token, error |-> txpkt.jit_result]}
    BY <1>5 DEF SendTxAck, Proceed
  <2>2. Positive' = IF txpkt.jit_result \in Good THEN Positive \cup {txpkt.token} ELSE Positive
    <3> DEFINE a == [token |-> txpkt.token, error |-> txpkt.jit_result]
    <3>1. a.token = txpkt.token /\ a.error = txpkt.jit_result
      OBVIOUS
    <3> HIDE DEF a
    <3>2. txacks' = txacks \cup {a}
      BY <2>1 DEF a
    <3>3. \A d : d \in Positive' <=> \E b \in txacks \cup {a} : b.error \in Good /\ b.token = d
      BY <3>2 DEF Positive, Good
    <3>4. \A d : d \in Positive <=> \E b \in txacks : b.error \in Good /\ b.token = d
      BY DEF Positive, Good
    <3>5. \A d : d \in Positive' <=> d \in Positive \/ (a.error \in Good /\ a.token = d)
      BY <3>3, <3>4
    <3>6. QED
      BY <3>1, <3>5
  <2>3. /\ txpkt.jit_result \in Good => txpkt.token \in queued
        /\ Positive \subseteq queued
        /\ \A d \in queued : d \in Positive \/ (txpkt.token = d /\ txpkt.jit_result \in Good)
    BY <2>1 DEF InHand, Good
  <2>4. Positive' \subseteq queued' /\ queued' \subseteq Positive'
    BY <2>1, <2>2, <2>3
  <2>5. QED
    BY <2>1, <2>4 DEF InHand
<1>6. CASE Report \/ TimePasses \/ Server \/ UNCHANGED vars
  <2>1. UNCHANGED <<down_pc, txpkt, queued, txacks>>
    BY <1>6 DEF Report, TimePasses, Server, Answer, SendPullResp, vars
  <2>2. QED
    BY <2>1 DEF InHand, Positive
<1>7. CASE Restart
  <2>1. down_pc = "quit" /\ down_pc' = "top" /\ UNCHANGED <<queued, txacks>>
    BY <1>7 DEF Restart, CountsSilence
  <2>2. QED
    BY <2>1, InHandKept
<1>8. QED
  BY <1>1, <1>2, <1>3, <1>4, <1>5, <1>6, <1>7 DEF Next, ThreadDown

(* The invariant holds before the first PULL_DATA.                         *)
LEMMA InvariantInit == Init => IInv
<1> SUFFICES ASSUME Init PROVE IInv
  OBVIOUS
<1>1. TypeOK
  <2>1. received \in 0 .. MAX_RESP /\ meas.pull_sent <= STAT_PULLS
    BY ProtocolAssumption, NoCountsFields DEF Init
  <2>2. autoquit_cnt \in Nat /\ silent \in Nat
    BY DEF Init
  <2>3. QED
    BY <2>1, <2>2, NoCountsFields DEF Init, TypeOK
<1>2. CountsSilence /\ AckRoom /\ RejectedRoom
  BY ProtocolAssumption, NoCountsFields
     DEF Init, CountsSilence, AckRoom, RejectedRoom, InPeriod, RejectionDue
<1>3. InHand
  BY DEF Init, InHand, Positive
<1>4. QED
  BY <1>1, <1>2, <1>3 DEF IInv

(* The invariant holds in every state.                                     *)
LEMMA Invariance == Spec => []IInv
<1>1. IInv /\ [Next]_vars => IInv'
  BY TypeInductive, CountsInductive, AckInductive, RejectedInductive, InHandInductive DEF IInv
<1>2. QED
  BY <1>1, InvariantInit, PTL DEF Spec

-----------------------------------------------------------------------------
(* Every state of the protocol has the types declared for it.               *)
THEOREM TypeCorrect == Spec => []TypeOK
<1>1. IInv => TypeOK
  BY DEF IInv
<1>2. QED
  BY <1>1, Invariance, PTL

(* The hub quits after exactly autoquit_threshold unanswered requests in a  *)
(* row, whatever the network does with the answers to all of them.          *)
THEOREM QuitsOnlyOnSilence == Spec => []QuitIffSilent
<1>1. IInv => QuitIffSilent
  <2> SUFFICES ASSUME IInv PROVE QuitIffSilent
    OBVIOUS
  <2>1. silent \in Nat /\ autoquit_cnt \in Nat /\ AUTOQUIT_THRESHOLD \in Nat
    BY ProtocolAssumption DEF IInv, TypeOK
  <2>2. ASSUME exit_sig PROVE AUTOQUIT_THRESHOLD > 0 /\ silent = AUTOQUIT_THRESHOLD
    <3>1. MustQuit /\ autoquit_cnt = silent
      BY <2>2 DEF IInv, CountsSilence, InPeriod
    <3>2. QED
      BY <2>1, <3>1 DEF IInv, CountsSilence, MustQuit
  <2>3. QED
    BY <2>2 DEF IInv, CountsSilence, QuitIffSilent
<1>2. QED
  BY <1>1, Invariance, PTL

(* No request is counted as acknowledged twice.                             *)
THEOREM NeverAckedTwice == Spec => []AckedOnce
<1>1. IInv => AckedOnce
  BY DEF IInv, AckRoom, AckedOnce
<1>2. QED
  BY <1>1, Invariance, PTL

(* The reports never show more rejections than requests.                    *)
THEOREM RejectionsBounded == Spec => []RejectedWithinRequested
<1>1. IInv => RejectedWithinRequested
  BY DEF IInv, RejectedRoom, RejectedWithinRequested
<1>2. QED
  BY <1>1, Invariance, PTL

(* The server is told "accepted" of the downlinks in the queue and of no    *)
(* other.                                                                   *)
THEOREM AcksTellTheQueue == Spec => []TxAckTruthful
<1>1. IInv => TxAckTruthful
  BY DEF IInv, InHand, TxAckTruthful
<1>2. QED
  BY <1>1, Invariance, PTL

=============================================================================
