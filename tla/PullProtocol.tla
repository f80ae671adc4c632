---------------------------- MODULE PullProtocol ----------------------------
(***************************************************************************)
(* The downstream side of the protocol with the server: thread_down of     *)
(* lorahub/main/pkt_fwd.c sends PULL_DATA, listens for its keepalive       *)
(* period, matches PULL_ACK by token, answers each PULL_RESP with a TX_ACK, *)
(* and gives up (exit_sig) after AUTOQUIT_THRESHOLD requests without an    *)
(* answer, upon which app_main restarts the chip. The statistics loop      *)
(* copies and resets the counters in between. The server is the one of     *)
(* tools/util_net_downlink, which sends what it is told to; the network    *)
(* loses, delays, reorders and repeats datagrams.                          *)
(***************************************************************************)
EXTENDS Naturals

CONSTANTS
  Tokens,              \* values of the two random bytes of a PULL_DATA
  Downlinks,           \* the PULL_RESP that the server sends, named by their token
  AUTOQUIT_THRESHOLD,  \* autoquit_threshold, 0 when disabled
  STAT_PULLS,          \* PULL_DATA sent in one stat_interval at most
  MAX_RESP             \* bound: number of PULL_RESP received

ASSUME ProtocolAssumption ==
  /\ Tokens # {}
  /\ AUTOQUIT_THRESHOLD \in Nat
  /\ STAT_PULLS \in Nat \ {0}
  /\ MAX_RESP \in Nat

VARIABLES
  down_pc,       \* thread_down: where it is
  token,         \* token_h, token_l of the last PULL_DATA
  req_ack,       \* that request was acknowledged
  autoquit_cnt,  \* PULL_DATA sent since the latest PULL_ACK
  elapsed,       \* keepalive_time has passed since the request
  txpkt,         \* the PULL_RESP in hand, and its jit_result
  exit_sig,      \* of main.c
  meas,          \* the meas_dw_* and meas_nb_tx_* counters the properties tell apart
  cp,            \* the sums cp_nb_tx_* of the reports
  net,           \* datagrams sent: any of them may arrive, at any time, again
  received,      \* number of PULL_RESP received
  heard,         \* history: a PULL_ACK with the current token was received
  silent,        \* history: periods without one, in a row
  queued,        \* history: downlinks that jit_enqueue accepted
  txacks         \* history: TX_ACK sent, [token, error]

downVars == <<down_pc, token, req_ack, autoquit_cnt, txpkt, exit_sig>>
history  == <<heard, silent, queued, txacks>>
vars     == <<downVars, elapsed, meas, cp, net, received, history>>

Forms == {"malformed", "off_band", "over_power", "good"}

Datagrams == [type : {"PULL_DATA", "PULL_ACK"}, token : Tokens]
             \cup [type : {"PULL_RESP"}, token : Downlinks, form : Forms]

(* The values of enum jit_error_e that jit_enqueue returns, and those that  *)
(* send_tx_ack counts.                                                      *)
Verdicts   == {"OK", "TOO_LATE", "TOO_EARLY", "FULL", "COLLISION_PACKET",
               "COLLISION_BEACON", "INVALID"}
Rejections_OffBand == {"TOO_LATE", "TOO_EARLY", "FULL", "COLLISION_PACKET",
                       "COLLISION_BEACON", "TX_FREQ"}
Rejections == {"TOO_LATE", "TOO_EARLY", "FULL", "COLLISION_PACKET", "COLLISION_BEACON"}

NoDownlink == [token |-> "none"]
NoCounts   == [pull_sent |-> 0, ack_rcv |-> 0, requested |-> 0, rejected |-> 0]
NoSums     == [requested |-> 0, rejected |-> 0]

Init ==
  /\ down_pc = "top"
  /\ token \in Tokens
  /\ req_ack = FALSE /\ autoquit_cnt = 0
  /\ elapsed = FALSE
  /\ txpkt = NoDownlink
  /\ exit_sig = FALSE
  /\ meas = NoCounts /\ cp = NoSums
  /\ net = {} /\ received = 0
  /\ heard = FALSE /\ silent = 0
  /\ queued = {} /\ txacks = {}

-----------------------------------------------------------------------------
(* thread_down                                                             *)

MustQuit_OneLate == AUTOQUIT_THRESHOLD > 0 /\ autoquit_cnt > AUTOQUIT_THRESHOLD

MustQuit == AUTOQUIT_THRESHOLD > 0 /\ autoquit_cnt >= AUTOQUIT_THRESHOLD

Quit ==
  /\ down_pc = "top" /\ MustQuit
  /\ exit_sig' = TRUE
  /\ down_pc' = "quit"
  /\ UNCHANGED <<token, req_ack, autoquit_cnt, txpkt, elapsed, meas, cp, net,
                 received, history>>

(* A request with a random token, which may be one used before; a failing   *)
(* send is reported and counted as sent all the same. The guard on the      *)
(* counter is time: keepalive_time against stat_interval.                   *)
SendPullData ==
  /\ down_pc = "top" /\ ~MustQuit
  /\ meas.pull_sent < STAT_PULLS
  /\ \E t \in Tokens :
       /\ token' = t
       /\ net' = net \cup {[type |-> "PULL_DATA", token |-> t]}
  /\ meas' = [meas EXCEPT !.pull_sent = @ + 1]
  /\ req_ack' = FALSE
  /\ autoquit_cnt' = autoquit_cnt + 1
  /\ elapsed' = FALSE
  /\ heard' = FALSE
  /\ down_pc' = "recv"
  /\ UNCHANGED <<txpkt, exit_sig, cp, received, silent, queued, txacks>>

(* The test of the inner loop: back to recv, or the period is over.         *)
Proceed(time_up) ==
  /\ down_pc' = IF time_up THEN "top" ELSE "recv"
  /\ silent' = IF ~time_up THEN silent ELSE IF heard' THEN 0 ELSE silent + 1

RecvNothing_Untimed ==
  /\ down_pc = "recv"
  /\ UNCHANGED vars

(* recv times out after pull_timeout, or returns something that is neither  *)
(* PULL_ACK nor PULL_RESP, which is ignored.                                *)
RecvNothing ==
  /\ down_pc = "recv"
  /\ heard' = heard
  /\ Proceed(elapsed)
  /\ UNCHANGED <<token, req_ack, autoquit_cnt, txpkt, exit_sig, elapsed, meas, cp, net,
                 received, queued, txacks>>

Acknowledges_AnyTime(t) == t = token

Acknowledges(t) == t = token /\ ~req_ack

Accepted(t) ==
  /\ req_ack' = (req_ack \/ Acknowledges(t))
  /\ autoquit_cnt' = IF Acknowledges(t) THEN 0 ELSE autoquit_cnt
  /\ meas' = IF Acknowledges(t) THEN [meas EXCEPT !.ack_rcv = @ + 1] ELSE meas

(* A PULL_ACK: the first with the current token counts, a second one is a   *)
(* duplicate, another token is out of sync.                                 *)
RecvPullAck(t) ==
  /\ down_pc = "recv"
  /\ [type |-> "PULL_ACK", token |-> t] \in net
  /\ Accepted(t)
  /\ heard' = (heard \/ t = token)
  /\ Proceed(elapsed)
  /\ UNCHANGED <<token, txpkt, exit_sig, elapsed, cp, net, received, queued, txacks>>

(* The check of the frequency against what the radio can emit.              *)
AfterParsing_NoCheck(form) == "enqueue"

AfterParsing(form) == IF form = "off_band" THEN "tx_ack" ELSE "enqueue"

(* A PULL_RESP: dropped without a word when its JSON is not what it must be, *)
(* refused for its frequency, or taken to the queue.                        *)
RecvPullResp(t, form) ==
  /\ down_pc = "recv" /\ received < MAX_RESP
  /\ [type |-> "PULL_RESP", token |-> t, form |-> form] \in net
  /\ received' = received + 1
  /\ heard' = heard
  /\ IF form = "malformed"
     THEN Proceed(elapsed) /\ UNCHANGED txpkt
     ELSE /\ down_pc' = AfterParsing(form)
          /\ txpkt' = [token |-> t, form |-> form,
                       jit_result |-> IF form = "off_band" THEN "TX_FREQ" ELSE "OK"]
          /\ UNCHANGED silent
  /\ UNCHANGED <<token, req_ack, autoquit_cnt, exit_sig, elapsed, meas, cp, net, queued, txacks>>

Warning == IF txpkt.form = "over_power" THEN "TX_POWER" ELSE "OK"

(* What is reported of the verdict of jit_enqueue: a warning only when the   *)
(* packet was accepted.                                                     *)
Result_WarningFirst(verdict) == IF Warning # "OK" THEN Warning ELSE verdict

Result(verdict) == IF verdict = "OK" THEN Warning ELSE verdict

(* jit_enqueue, whose queue is in module Downlink, and the count of requests.*)
Enqueue ==
  /\ down_pc = "enqueue"
  /\ \E verdict \in Verdicts :
       /\ txpkt' = [txpkt EXCEPT !.jit_result = Result(verdict)]
       /\ queued' = IF verdict = "OK" THEN queued \cup {txpkt.token} ELSE queued
  /\ meas' = [meas EXCEPT !.requested = @ + 1]
  /\ down_pc' = "tx_ack"
  /\ UNCHANGED <<token, req_ack, autoquit_cnt, exit_sig, elapsed, cp, net, received,
                 heard, silent, txacks>>

(* send_tx_ack: it counts the rejection, then sends.                        *)
SendTxAck ==
  /\ down_pc = "tx_ack"
  /\ meas' = IF txpkt.jit_result \in Rejections
             THEN [meas EXCEPT !.rejected = @ + 1] ELSE meas
  /\ txacks' = txacks \cup {[token |-> txpkt.token, error |-> txpkt.jit_result]}
  /\ txpkt' = NoDownlink
  /\ heard' = heard
  /\ Proceed(elapsed)
  /\ UNCHANGED <<token, req_ack, autoquit_cnt, exit_sig, elapsed, cp, net, received,
                 queued>>

ThreadDown ==
  \/ Quit \/ SendPullData \/ RecvNothing \/ Enqueue \/ SendTxAck
  \/ \E t \in Tokens : RecvPullAck(t)
  \/ \E t \in Downlinks, form \in Forms : RecvPullResp(t, form)

-----------------------------------------------------------------------------
(* The rest of the hub                                                     *)

(* thread_pktfwd copies and resets the counters under mx_meas_dw; the       *)
(* requests and the rejections add up over the reports.                     *)
Report ==
  /\ cp' = [requested |-> cp.requested + meas.requested,
            rejected  |-> cp.rejected + meas.rejected]
  /\ meas' = NoCounts
  /\ UNCHANGED <<downVars, elapsed, net, received, history>>

TimePasses ==
  /\ down_pc = "recv" /\ ~elapsed
  /\ elapsed' = TRUE
  /\ UNCHANGED <<downVars, meas, cp, net, received, history>>

(* app_main polls exit_sig and calls esp_restart: everything begins anew,   *)
(* but for the datagrams in flight and what the server was told.            *)
Restart ==
  /\ exit_sig
  /\ down_pc' = "top"
  /\ req_ack' = FALSE /\ autoquit_cnt' = 0
  /\ elapsed' = FALSE
  /\ txpkt' = NoDownlink
  /\ exit_sig' = FALSE
  /\ meas' = NoCounts /\ cp' = NoSums
  /\ heard' = FALSE /\ silent' = 0
  /\ UNCHANGED <<token, net, received, queued, txacks>>

-----------------------------------------------------------------------------
(* The server                                                             *)

(* A PULL_ACK with the token of the request.                                *)
Answer(t) ==
  /\ [type |-> "PULL_DATA", token |-> t] \in net
  /\ net' = net \cup {[type |-> "PULL_ACK", token |-> t]}
  /\ UNCHANGED <<downVars, elapsed, meas, cp, received, history>>

(* A PULL_RESP, once a PULL_DATA has told where to; bound: one for a token.  *)
SendPullResp(t, form) ==
  /\ \E m \in net : m.type = "PULL_DATA"
  /\ \A m \in net : m.type = "PULL_RESP" => m.token # t
  /\ net' = net \cup {[type |-> "PULL_RESP", token |-> t, form |-> form]}
  /\ UNCHANGED <<downVars, elapsed, meas, cp, received, history>>

Server ==
  \/ \E t \in Tokens : Answer(t)
  \/ \E t \in Downlinks, form \in Forms : SendPullResp(t, form)

Next == ThreadDown \/ Report \/ TimePasses \/ Restart \/ Server

(* The threads run, and time passes. Nothing is assumed of the server and   *)
(* of the network.                                                          *)
Fairness == WF_vars(ThreadDown) /\ WF_vars(Report) /\ WF_vars(TimePasses) /\ WF_vars(Restart)

Spec == Init /\ [][Next]_vars /\ Fairness

-----------------------------------------------------------------------------
(* Properties *)

Results == Verdicts \cup {"TX_FREQ", "TX_POWER"}

Packets == [token : Downlinks, form : Forms \ {"malformed"}, jit_result : Results]

TxAcks == [token : Downlinks, error : Results]

Counts == [pull_sent : Nat, ack_rcv : Nat, requested : Nat, rejected : Nat]

Sums == [requested : Nat, rejected : Nat]

TypeOK ==
  /\ down_pc \in {"top", "recv", "enqueue", "tx_ack", "quit"}
  /\ token \in Tokens
  /\ req_ack \in BOOLEAN /\ elapsed \in BOOLEAN
  /\ exit_sig \in BOOLEAN /\ heard \in BOOLEAN
  /\ autoquit_cnt \in Nat /\ silent \in Nat /\ received \in 0 .. MAX_RESP
  /\ down_pc = "enqueue" => txpkt.form # "off_band"
  /\ txpkt = NoDownlink \/ txpkt \in Packets
  /\ meas \in Counts /\ meas.pull_sent <= STAT_PULLS
  /\ cp \in Sums
  /\ net \subseteq Datagrams
  /\ queued \subseteq Downlinks
  /\ txacks \subseteq TxAcks

(* The hub restarts when autoquit_threshold periods in a row went by without*)
(* a PULL_ACK bearing the token of their own request, and not before: late, *)
(* repeated and reordered answers to other requests neither keep it alive   *)
(* nor make it quit.                                                        *)
QuitIffSilent ==
  /\ exit_sig => AUTOQUIT_THRESHOLD > 0 /\ silent = AUTOQUIT_THRESHOLD
  /\ AUTOQUIT_THRESHOLD > 0 => silent <= AUTOQUIT_THRESHOLD

(* A request is counted as acknowledged at most once, so that a report shows*)
(* no more answers than requests, but for the answer to the last request of *)
(* the report before.                                                       *)
AckedOnce ==
  meas.ack_rcv <= meas.pull_sent + 1

(* The reports never show more rejected downlinks than requested ones, at   *)
(* whatever point of thread_down the counters are copied.                   *)
RejectedWithinRequested ==
  /\ cp.rejected <= cp.requested
  /\ cp.rejected + meas.rejected <= cp.requested + meas.requested

Positive == {a.token : a \in {b \in txacks : b.error \in {"OK", "TX_POWER"}}}

(* A TX_ACK without an error, or with a mere warning, is sent for the       *)
(* downlinks that are in the queue, and for all of them but the one in hand.*)
TxAckTruthful ==
  /\ Positive \subseteq queued
  /\ queued \subseteq Positive \cup {txpkt.token}

(* When no PULL_ACK answers a request in time any more, whatever else still *)
(* arrives, the hub restarts, again and again.                              *)
SilenceRestarts == AUTOQUIT_THRESHOLD > 0 /\ <>[]~heard => []<>exit_sig
=============================================================================
