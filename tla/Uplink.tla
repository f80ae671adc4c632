------------------------------- MODULE Uplink -------------------------------
(***************************************************************************)
(* The upstream side of lorahub/main/pkt_fwd.c. thread_up fetches a packet *)
(* from the HAL, counts and filters it, composes a PUSH_DATA with the      *)
(* packet and the status report that is ready, if any, sends it, and waits *)
(* for its PUSH_ACK in two receptions while it holds mx_meas_up. The loop  *)
(* of thread_pktfwd copies and resets the counters, writes the next status *)
(* report, and ends when thread_up has ended. The two share the counters   *)
(* under mx_meas_up and the report under mx_stat_rep, but for report_ready *)
(* which thread_up reads without it.                                       *)
(***************************************************************************)
EXTENDS Integers, Sequences

CONSTANTS
  Tokens,       \* values of the two random bytes of a PUSH_DATA
  Forwarded,    \* the statuses of which fwd_*_pkt is true
  MAX_RX,       \* bound: number of packets received since the start
  MAX_REPORTS   \* bound: number of reports since the start

(* What the HAL says of a packet; it never says STAT_NO_CRC.                *)
Statuses == {"CRC_OK", "CRC_BAD"}

ASSUME UplinkAssumption ==
  /\ Tokens # {}
  /\ Forwarded \subseteq Statuses
  /\ MAX_RX \in Nat /\ MAX_REPORTS \in Nat

VARIABLES
  up_pc,          \* thread_up: where it is
  pkt,            \* the status of the packet in rxpkt, or None
  send_report,    \* its copy of report_ready
  token,          \* token_h, token_l
  body,           \* what buff_up holds: a packet or not, and a report
  stat_pc,        \* thread_pktfwd: where it is
  cp,             \* its copies of the counters
  meas,           \* the meas_nb_rx_* and meas_up_* counters
  mx_meas_up,     \* the thread that holds the mutex, or None
  mx_stat_rep,
  report_ready,
  status_report,
  exit_sig,       \* of main.c
  acks,           \* the PUSH_ACK on their way: those the server has sent
  fetched,        \* history: packets that lgw_receive returned
  copied,         \* history: packets in the reports, and in cp
  written,        \* history: reports completed
  sent,           \* history: reports sent, in order
  overwritten     \* history: reports replaced by the next before thread_up took them

upVars   == <<up_pc, pkt, send_report, token, body>>
statVars == <<stat_pc, cp>>
history  == <<fetched, copied, written, sent, overwritten>>
vars == <<upVars, statVars, meas, mx_meas_up, mx_stat_rep, report_ready, status_report,
          exit_sig, acks, history>>

None == "none"

NoCounts == [rcv |-> 0, ok |-> 0, bad |-> 0, fwd |-> 0, dgram |-> 0, ack |-> 0]
Counts   == [rcv : Nat, ok : Nat, bad : Nat, fwd : Nat, dgram : Nat, ack : Nat]

(* The text of a report: its number, and the counters it shows. While       *)
(* snprintf writes it, it is neither the last report nor the next.          *)
NoReport == [number |-> 0, shows |-> NoCounts]
Torn     == [number |-> -1, shows |-> NoCounts]
Report(n, counts) == [number |-> n, shows |-> counts]

Init ==
  /\ up_pc = "fetch" /\ pkt = None /\ send_report = FALSE
  /\ token \in Tokens
  /\ body = NoReport
  /\ stat_pc = "top" /\ cp = NoCounts
  /\ meas = NoCounts
  /\ mx_meas_up = None /\ mx_stat_rep = None
  /\ report_ready = FALSE /\ status_report = NoReport
  /\ exit_sig = FALSE
  /\ acks = {}
  /\ fetched = 0 /\ copied = 0 /\ written = 0
  /\ sent = << >> /\ overwritten = {}

-----------------------------------------------------------------------------
(* thread_up                                                               *)

Exit ==
  /\ up_pc = "fetch" /\ exit_sig
  /\ up_pc' = "ended"
  /\ UNCHANGED <<pkt, send_report, token, body, statVars, meas, mx_meas_up, mx_stat_rep,
                 report_ready, status_report, exit_sig, acks, history>>

(* lgw_receive returns a packet or none, and the next datagram is composed  *)
(* from nothing. The queue of the radio is module LoraHal.                  *)
Fetch ==
  /\ up_pc = "fetch" /\ ~exit_sig
  /\ \/ pkt' = None /\ UNCHANGED fetched
     \/ /\ fetched < MAX_RX
        /\ pkt' \in Statuses
        /\ fetched' = fetched + 1
  /\ up_pc' = "flag"
  /\ body' = NoReport
  /\ UNCHANGED <<send_report, token, statVars, meas, mx_meas_up, mx_stat_rep,
                 report_ready, status_report, exit_sig, acks, copied, written, sent,
                 overwritten>>

(* lgw_receive returns an error: wait_on_error.                             *)
FetchFails ==
  /\ up_pc = "fetch" /\ ~exit_sig
  /\ up_pc' = "error"
  /\ UNCHANGED <<pkt, send_report, token, body, statVars, meas, mx_meas_up, mx_stat_rep,
                 report_ready, status_report, exit_sig, acks, history>>

(* The copy of report_ready, without a mutex; nothing to do, it sleeps.     *)
ReadFlag ==
  /\ up_pc = "flag"
  /\ send_report' = report_ready
  /\ IF pkt = None /\ ~report_ready
     THEN up_pc' = "fetch" /\ UNCHANGED token
     ELSE up_pc' = (IF pkt # None THEN "count" ELSE "take") /\ token' \in Tokens
  /\ UNCHANGED <<pkt, body, statVars, meas, mx_meas_up, mx_stat_rep, report_ready, status_report,
                 exit_sig, acks, history>>

(* Whether a thread may take the mutex.                                     *)
Free_Never_Taken(mutex) == TRUE

Free(mutex) == mutex = None

Counted(status) ==
  [meas EXCEPT !.rcv = @ + 1,
               !.ok  = IF status = "CRC_OK" THEN @ + 1 ELSE @,
               !.bad = IF status = "CRC_BAD" THEN @ + 1 ELSE @,
               !.fwd = IF status \in Forwarded THEN @ + 1 ELSE @]

(* The packet is counted under mx_meas_up, then serialised, or skipped when *)
(* its status is not forwarded.                                             *)
Count ==
  /\ up_pc = "count" /\ Free(mx_meas_up)
  /\ meas' = Counted(pkt)
  /\ up_pc' = IF send_report THEN "take" ELSE IF pkt \in Forwarded THEN "send" ELSE "fetch"
  /\ UNCHANGED <<pkt, send_report, token, body, statVars, mx_meas_up, mx_stat_rep,
                 report_ready, status_report, exit_sig, acks, history>>

(* The report, under mx_stat_rep: the flag is reset, and the text is copied.*)
TakeReport_FlagKept ==
  /\ up_pc = "take" /\ Free(mx_stat_rep)
  /\ body' = status_report
  /\ up_pc' = "send"
  /\ UNCHANGED <<pkt, send_report, token, statVars, meas, mx_meas_up, mx_stat_rep,
                 report_ready, status_report, exit_sig, acks, history>>

TakeReport_NoLock ==
  /\ up_pc = "take"
  /\ report_ready' = FALSE
  /\ body' = status_report
  /\ up_pc' = "send"
  /\ UNCHANGED <<pkt, send_report, token, statVars, meas, mx_meas_up, mx_stat_rep,
                 status_report, exit_sig, acks, history>>

TakeReport ==
  /\ up_pc = "take" /\ Free(mx_stat_rep)
  /\ report_ready' = FALSE
  /\ body' = status_report
  /\ up_pc' = "send"
  /\ UNCHANGED <<pkt, send_report, token, statVars, meas, mx_meas_up, mx_stat_rep,
                 status_report, exit_sig, acks, history>>

(* The datagram leaves, or send fails; it is counted all the same, under    *)
(* mx_meas_up, which is kept. The answer of the server to an earlier one    *)
(* with the same token may still be on its way.                             *)
Send ==
  /\ up_pc = "send" /\ Free(mx_meas_up)
  /\ meas' = [meas EXCEPT !.dgram = @ + 1]
  /\ mx_meas_up' = "up"
  /\ acks' \in {acks, acks \cup {token}}
  /\ sent' = IF send_report THEN Append(sent, body.number) ELSE sent
  /\ up_pc' = "recv1"
  /\ UNCHANGED <<pkt, send_report, token, body, statVars, mx_stat_rep, report_ready,
                 status_report, exit_sig, fetched, copied, written, overwritten>>

(* A reception that times out, or returns something else than a PUSH_ACK    *)
(* with the token sent: the second one is the last.                         *)
Missed ==
  /\ up_pc \in {"recv1", "recv2"}
  /\ up_pc' = IF up_pc = "recv1" THEN "recv2" ELSE "fetch"
  /\ mx_meas_up' = IF up_pc = "recv1" THEN mx_meas_up ELSE None
  /\ UNCHANGED <<pkt, send_report, token, body, statVars, meas, mx_stat_rep, report_ready,
                 status_report, exit_sig, acks, history>>

(* recv returns another error: no second reception.                         *)
RecvError_NoUnlock ==
  /\ up_pc \in {"recv1", "recv2"}
  /\ up_pc' = "fetch"
  /\ UNCHANGED <<pkt, send_report, token, body, statVars, meas, mx_meas_up, mx_stat_rep,
                 report_ready, status_report, exit_sig, acks, history>>

RecvError ==
  /\ up_pc \in {"recv1", "recv2"}
  /\ up_pc' = "fetch"
  /\ mx_meas_up' = None
  /\ UNCHANGED <<pkt, send_report, token, body, statVars, meas, mx_stat_rep, report_ready,
                 status_report, exit_sig, acks, history>>

AfterAck_Again == IF up_pc = "recv1" THEN "recv2" ELSE "fetch"

AfterAck == "fetch"

(* A PUSH_ACK, which the network may repeat: it counts when its token is    *)
(* that of the datagram just sent.                                          *)
RecvAck ==
  /\ up_pc \in {"recv1", "recv2"}
  /\ token \in acks
  /\ meas' = [meas EXCEPT !.ack = @ + 1]
  /\ up_pc' = AfterAck
  /\ mx_meas_up' = IF AfterAck = "fetch" THEN None ELSE mx_meas_up
  /\ acks' \in {acks, acks \ {token}}
  /\ UNCHANGED <<pkt, send_report, token, body, statVars, mx_stat_rep, report_ready,
                 status_report, exit_sig, history>>

ThreadUp == Exit \/ Fetch \/ FetchFails \/ ReadFlag \/ Count \/ TakeReport
            \/ Send \/ Missed \/ RecvError \/ RecvAck

-----------------------------------------------------------------------------
(* thread_pktfwd                                                           *)

(* The test of the loop, then the sleep of stat_interval.                   *)
Loop ==
  /\ stat_pc = "top"
  /\ stat_pc' = IF exit_sig THEN "join" ELSE "sleep"
  /\ UNCHANGED <<upVars, cp, meas, mx_meas_up, mx_stat_rep, report_ready, status_report,
                 exit_sig, acks, history>>

(* It wakes, whatever exit_sig has become, copies the counters under        *)
(* mx_meas_up ...                                                           *)
CopyCounters ==
  /\ stat_pc = "sleep" /\ written < MAX_REPORTS
  /\ Free(mx_meas_up)
  /\ mx_meas_up' = "stat"
  /\ cp' = meas
  /\ copied' = copied + meas.rcv
  /\ stat_pc' = "reset"
  /\ UNCHANGED <<upVars, meas, mx_stat_rep, report_ready, status_report, exit_sig, acks,
                 fetched, written, sent, overwritten>>

(* ... and resets them.                                                     *)
ResetCounters ==
  /\ stat_pc = "reset"
  /\ meas' = NoCounts
  /\ mx_meas_up' = None
  /\ stat_pc' = "report"
  /\ UNCHANGED <<upVars, cp, mx_stat_rep, report_ready, status_report, exit_sig, acks,
                 history>>

(* The report is written over the last one under mx_stat_rep ...            *)
WriteReport ==
  /\ stat_pc = "report" /\ Free(mx_stat_rep)
  /\ mx_stat_rep' = "stat"
  /\ status_report' = Torn
  /\ overwritten' = IF report_ready THEN overwritten \cup {status_report.number}
                    ELSE overwritten
  /\ stat_pc' = "ready"
  /\ UNCHANGED <<upVars, cp, meas, mx_meas_up, report_ready, exit_sig, acks, fetched,
                 copied, written, sent>>

(* ... and announced.                                                       *)
Announce ==
  /\ stat_pc = "ready"
  /\ status_report' = Report(written + 1, cp)
  /\ report_ready' = TRUE
  /\ mx_stat_rep' = None
  /\ written' = written + 1
  /\ stat_pc' = "top"
  /\ UNCHANGED <<upVars, cp, meas, mx_meas_up, exit_sig, acks, fetched, copied, sent,
                 overwritten>>

(* pthread_join waits for thread_up, then the hardware is stopped.          *)
Stop ==
  /\ stat_pc = "join" /\ up_pc = "ended"
  /\ stat_pc' = "stopped"
  /\ UNCHANGED <<upVars, cp, meas, mx_meas_up, mx_stat_rep, report_ready, status_report,
                 exit_sig, acks, history>>

ThreadPktfwd == Loop \/ CopyCounters \/ ResetCounters \/ WriteReport \/ Announce \/ Stop

-----------------------------------------------------------------------------
(* thread_down gives up (module PullProtocol). The chip restarts at some    *)
(* point of all this: from app_main, which polls exit_sig, or ten seconds   *)
(* after an error.                                                          *)
Quit ==
  /\ ~exit_sig
  /\ exit_sig' = TRUE
  /\ UNCHANGED <<upVars, statVars, meas, mx_meas_up, mx_stat_rep, report_ready,
                 status_report, acks, history>>

Restart ==
  /\ exit_sig \/ up_pc = "error"
  /\ up_pc' = "fetch" /\ pkt' = None /\ send_report' = FALSE
  /\ body' = NoReport
  /\ stat_pc' = "top" /\ cp' = NoCounts
  /\ meas' = NoCounts
  /\ mx_meas_up' = None /\ mx_stat_rep' = None
  /\ report_ready' = FALSE /\ status_report' = NoReport
  /\ exit_sig' = FALSE
  /\ fetched' = 0 /\ copied' = 0 /\ written' = 0
  /\ sent' = << >> /\ overwritten' = {}
  /\ UNCHANGED <<token, acks>>

Next == ThreadUp \/ ThreadPktfwd \/ Quit \/ Restart

(* The threads run; nothing is assumed of the server and of thread_down.    *)
Fairness == WF_vars(ThreadUp) /\ WF_vars(ThreadPktfwd) /\ WF_vars(Restart)

Spec == Init /\ [][Next]_vars /\ Fairness

-----------------------------------------------------------------------------
(* Properties *)

Reports == [number : Nat \cup {-1}, shows : Counts]

(* Types, and who is where when it holds a mutex.                           *)
TypeOK ==
  /\ up_pc \in {"fetch", "flag", "count", "take", "send", "recv1", "recv2", "ended",
              "error"}
  /\ pkt \in Statuses \cup {None} /\ (up_pc = "count" => pkt # None)
  /\ send_report \in BOOLEAN /\ token \in Tokens /\ body \in Reports
  /\ stat_pc \in {"top", "sleep", "reset", "report", "ready", "join", "stopped"}
  /\ cp \in Counts /\ meas \in Counts
  /\ mx_meas_up \in {None, "up", "stat"} /\ mx_stat_rep \in {None, "stat"}
  /\ mx_meas_up = "up" <=> up_pc \in {"recv1", "recv2"}
  /\ mx_meas_up = "stat" <=> stat_pc = "reset"
  /\ mx_stat_rep = "stat" <=> stat_pc = "ready"
  /\ report_ready \in BOOLEAN /\ status_report \in Reports
  /\ exit_sig \in BOOLEAN /\ acks \subseteq Tokens
  /\ fetched \in 0 .. MAX_RX /\ copied \in Nat /\ written \in 0 .. MAX_REPORTS
  /\ sent \in Seq(Nat \cup {-1}) /\ overwritten \subseteq Nat \cup {-1}

(* Every packet that the HAL returned is in the counters or in the copies of *)
(* one report, and in one only, but for the one in hand.                    *)
NothingLost ==
  fetched = copied + (IF stat_pc = "reset" THEN 0 ELSE meas.rcv)
            + (IF up_pc = "count" \/ (up_pc = "flag" /\ pkt # None) THEN 1 ELSE 0)

HangsTogether(c) ==
  /\ c.rcv = c.ok + c.bad
  /\ (Forwarded \subseteq {"CRC_OK"} => c.fwd <= c.ok)
  /\ c.ack <= c.dgram

(* What a report shows hangs together: rxnb counts rxok and those with a bad *)
(* CRC, rxfw is within rxok, and ackr, "the percentage of upstream datagrams *)
(* that were acknowledged", is at most 100, whatever the server repeats.    *)
ReportConsistent ==
  HangsTogether(cp) /\ HangsTogether(status_report.shows) /\ HangsTogether(body.shows)

(* thread_up never sends a report that is being written, although it reads  *)
(* report_ready without the mutex.                                          *)
ReportWhole == body.number # -1

Sent == {sent[i] : i \in DOMAIN sent}

(* Each report written is sent once, in order, or was replaced by the next, *)
(* or waits: none is lost between the flag that thread_up copies and the    *)
(* one it resets.                                                           *)
ReportSentOnce ==
  /\ \A i, j \in DOMAIN sent : i < j => sent[i] < sent[j]
  /\ Sent \cap overwritten = {}
  /\ \A n \in 1 .. written :
       \/ n \in Sent \cup overwritten
       \/ report_ready /\ status_report.number = n
       \/ up_pc = "send" /\ body.number = n

(* A report that is ready is taken, unless the hub is about to restart.     *)
ReportServed == report_ready ~> ~report_ready \/ exit_sig
=============================================================================
