---------------------------- MODULE UplinkProofs ----------------------------
(***************************************************************************)
(* Theorems about Uplink, for any tokens, any filter, any number of        *)
(* packets and reports, and any server.                                    *)
(***************************************************************************)
EXTENDS Uplink, TLAPS

(* The counters hang together at every moment, and a datagram that waits    *)
(* for its answer leaves room for it.                                       *)
Consistent ==
  /\ HangsTogether(meas)
  /\ up_pc \in {"recv1", "recv2"} => meas.ack < meas.dgram
  /\ ReportConsistent

(* The report that is being written is torn, no other is.                   *)
Whole ==
  /\ stat_pc # "ready" => status_report.number = written
  /\ stat_pc = "ready" => status_report.number = -1
  /\ body.number # -1

(* The flag that thread_up resets is the one that it copied, or a later one. *)
Flagged ==
  /\ up_pc = "take" => send_report
  /\ up_pc \in {"count", "take"} /\ send_report => report_ready
  /\ up_pc \in {"flag", "count"} => body.number = 0
  /\ up_pc = "send" /\ ~send_report => body.number = 0

(* The report that waits in status_report, and the one in hand, are later   *)
(* than all those sent, and were not overwritten.                           *)
Waiting == report_ready /\ stat_pc # "ready"
InHand  == up_pc = "send" /\ send_report

Later ==
  /\ \A i \in DOMAIN sent : sent[i] \in 1 .. written
  /\ overwritten \subseteq 1 .. written
  /\ Waiting => /\ written > 0 /\ written \notin overwritten
                /\ \A i \in DOMAIN sent : sent[i] < written
  /\ InHand => /\ body.number \in 1 .. written /\ body.number \notin overwritten
               /\ \A i \in DOMAIN sent : sent[i] < body.number
               /\ Waiting => body.number < written

Accounted ==
  \A n \in 1 .. written :
    \/ n \in Sent \cup overwritten
    \/ Waiting /\ n = written
    \/ InHand /\ n = body.number

Ordered ==
  /\ \A i, j \in DOMAIN sent : i < j => sent[i] < sent[j]
  /\ Sent \cap overwritten = {}

Bounded == stat_pc \in {"reset", "report", "ready"} => written < MAX_REPORTS

IInv ==
  /\ TypeOK /\ Bounded /\ NothingLost /\ Consistent
  /\ Whole /\ Flagged /\ Later /\ Accounted /\ Ordered

-----------------------------------------------------------------------------
(* The counters after one of them was incremented.                         *)
LEMMA CountsFields ==
  ASSUME NEW m \in Counts
  PROVE  /\ m.rcv \in Nat /\ m.ok \in Nat /\ m.bad \in Nat
         /\ m.fwd \in Nat /\ m.dgram \in Nat /\ m.ack \in Nat
         /\ LET d == [m EXCEPT !.dgram = @ + 1]
            IN  /\ d \in Counts /\ d.dgram = m.dgram + 1 /\ d.rcv = m.rcv /\ d.ok = m.ok
                /\ d.bad = m.bad /\ d.fwd = m.fwd /\ d.ack = m.ack
         /\ LET a == [m EXCEPT !.ack = @ + 1]
            IN  /\ a \in Counts /\ a.ack = m.ack + 1 /\ a.rcv = m.rcv /\ a.ok = m.ok
                /\ a.bad = m.bad /\ a.fwd = m.fwd /\ a.dgram = m.dgram
BY DEF Counts

(* The counters after a packet was counted.                                *)
LEMMA CountedFields ==
  ASSUME meas \in Counts, NEW s \in Statuses
  PROVE  LET c == Counted(s)
         IN  /\ c \in Counts /\ c.rcv = meas.rcv + 1 /\ c.dgram = meas.dgram /\ c.ack = meas.ack
             /\ c.ok = IF s = "CRC_OK" THEN meas.ok + 1 ELSE meas.ok
             /\ c.bad = IF s = "CRC_BAD" THEN meas.bad + 1 ELSE meas.bad
             /\ c.fwd = IF s \in Forwarded THEN meas.fwd + 1 ELSE meas.fwd
<1>1. /\ meas.rcv \in Nat /\ meas.ok \in Nat /\ meas.bad \in Nat
      /\ meas.fwd \in Nat /\ meas.dgram \in Nat /\ meas.ack \in Nat
  BY DEF Counts
<1> DEFINE ok  == IF s = "CRC_OK" THEN meas.ok + 1 ELSE meas.ok
           bad == IF s = "CRC_BAD" THEN meas.bad + 1 ELSE meas.bad
           fwd == IF s \in Forwarded THEN meas.fwd + 1 ELSE meas.fwd
<1>2. ok \in Nat /\ bad \in Nat /\ fwd \in Nat /\ meas.rcv + 1 \in Nat
  BY <1>1
<1>3. Counted(s) = [meas EXCEPT !.rcv = meas.rcv + 1, !.ok = ok, !.bad = bad, !.fwd = fwd]
  BY DEF Counted
<1> HIDE DEF ok, bad, fwd
<1>4. /\ Counted(s) \in Counts
      /\ Counted(s).rcv = meas.rcv + 1 /\ Counted(s).ok = ok /\ Counted(s).bad = bad
      /\ Counted(s).fwd = fwd /\ Counted(s).dgram = meas.dgram /\ Counted(s).ack = meas.ack
  BY <1>1, <1>2, <1>3 DEF Counts
<1>5. QED
  BY <1>4 DEF ok, bad, fwd

(* The counters after a reset.                                             *)
LEMMA NoCountsFields ==
  /\ NoCounts \in Counts /\ NoCounts.rcv = 0 /\ NoCounts.ok = 0 /\ NoCounts.bad = 0
  /\ NoCounts.fwd = 0 /\ NoCounts.dgram = 0 /\ NoCounts.ack = 0
  /\ HangsTogether(NoCounts)
BY DEF NoCounts, Counts, HangsTogether

(* The number and the contents of a report.                                *)
LEMMA ReportFields ==
  /\ NoReport \in Reports /\ NoReport.number = 0 /\ NoReport.shows = NoCounts
  /\ Torn \in Reports /\ Torn.number = -1 /\ Torn.shows = NoCounts
  /\ \A n \in Nat, c \in Counts :
       Report(n, c) \in Reports /\ Report(n, c).number = n /\ Report(n, c).shows = c
BY NoCountsFields DEF NoReport, Torn, Report, Reports

-----------------------------------------------------------------------------
(* Every step keeps the bounds of the run.                                 *)
LEMMA BoundedInductive == TypeOK /\ Bounded /\ [Next]_vars => Bounded'
<1> SUFFICES ASSUME TypeOK, Bounded, [Next]_vars PROVE Bounded'
  OBVIOUS
<1>1. \/ stat_pc' = "reset" /\ written < MAX_REPORTS /\ written' = written
      \/ stat_pc \in {"reset", "report"} /\ written' = written
      \/ stat_pc' \notin {"reset", "report", "ready"}
      \/ UNCHANGED <<stat_pc, written>>
  BY DEF Next, ThreadUp, ThreadPktfwd, Exit, Fetch, FetchFails, ReadFlag, Count, TakeReport, Send, Missed,
     RecvError, RecvAck, Loop, CopyCounters, ResetCounters, WriteReport, Announce, Stop, Quit,
     Restart, vars, statVars, history
<1>2. QED
  BY <1>1 DEF Bounded

(* Every step keeps the types.                                             *)
LEMMA TypeInductive == TypeOK /\ Bounded /\ [Next]_vars => TypeOK'
<1> SUFFICES ASSUME TypeOK, Bounded, [Next]_vars PROVE TypeOK'
  OBVIOUS
<1> USE UplinkAssumption DEF TypeOK, upVars, statVars, history, None
<1>1. CASE Exit \/ FetchFails
  BY <1>1 DEF Exit, FetchFails
<1>2. CASE Fetch
  <2>1. fetched' \in 0 .. MAX_RX
    BY <1>2 DEF Fetch
  <2>2. pkt' \in Statuses \cup {None} /\ up_pc' = "flag" /\ body' \in Reports /\ up_pc = "fetch"
    BY <1>2, ReportFields DEF Fetch
  <2>3. UNCHANGED <<send_report, token, statVars, meas, mx_meas_up, mx_stat_rep,
                 report_ready, status_report, exit_sig, acks, copied, written, sent, overwritten>>
    BY <1>2 DEF Fetch
  <2>4. QED
    BY <2>1, <2>2, <2>3
<1>3. CASE ReadFlag
  BY <1>3 DEF ReadFlag
<1>4. CASE Count
  <2>1. pkt \in Statuses
    BY <1>4 DEF Count
  <2>2. meas' \in Counts
    BY <1>4, <2>1, CountedFields DEF Count
  <2>3. /\ up_pc' \in {"take", "send", "fetch"} /\ up_pc = "count"
        /\ UNCHANGED <<pkt, send_report, token, body, statVars, mx_meas_up, mx_stat_rep,
                 report_ready, status_report, exit_sig, acks, history>>
    BY <1>4 DEF Count
  <2>4. QED
    BY <2>2, <2>3
<1>5. CASE TakeReport
  BY <1>5 DEF TakeReport
<1>6. CASE Send
  <2>1. meas' \in Counts /\ acks' \subseteq Tokens
    BY <1>6, CountsFields DEF Send
  <2>2. sent' \in Seq(Nat \cup {-1})
    <3>1. body.number \in Nat \cup {-1}
      BY DEF Reports
    <3>2. QED
      BY <1>6, <3>1 DEF Send
  <2>3. /\ up_pc' = "recv1" /\ mx_meas_up' = "up" /\ mx_meas_up = None
        /\ UNCHANGED <<pkt, send_report, token, body, statVars, mx_stat_rep, report_ready,
                 status_report, exit_sig, fetched, copied, written, overwritten>>
    BY <1>6 DEF Send, Free
  <2>4. QED
    BY <2>1, <2>2, <2>3
<1>7. CASE Missed
  BY <1>7 DEF Missed
<1>8. CASE RecvError
  BY <1>8 DEF RecvError
<1>9. CASE RecvAck
  <2>1. meas' \in Counts /\ acks' \subseteq Tokens
    BY <1>9, CountsFields DEF RecvAck
  <2>2. /\ up_pc' = "fetch" /\ mx_meas_up' = None /\ up_pc \in {"recv1", "recv2"}
        /\ UNCHANGED <<pkt, send_report, token, body, statVars, mx_stat_rep, report_ready,
                 status_report, exit_sig, history>>
    BY <1>9 DEF RecvAck, AfterAck
  <2>3. QED
    BY <2>1, <2>2
<1>10. CASE Loop
  BY <1>10 DEF Loop
<1>11. CASE CopyCounters
  <2>1. copied' \in Nat
    <3>1. meas.rcv \in Nat
      BY CountsFields
    <3>2. QED
      BY <1>11, <3>1 DEF CopyCounters
  <2>2. QED
    BY <1>11, <2>1 DEF CopyCounters, Free
<1>12. CASE ResetCounters
  BY <1>12, NoCountsFields DEF ResetCounters
<1>13. CASE WriteReport
  <2>1. status_report' \in Reports
    BY <1>13, ReportFields DEF WriteReport
  <2>2. overwritten' \subseteq Nat \cup {-1}
    <3>1. status_report.number \in Nat \cup {-1}
      BY DEF Reports
    <3>2. QED
      BY <1>13, <3>1 DEF WriteReport
  <2>3. QED
    BY <1>13, <2>1, <2>2 DEF WriteReport, Free
<1>14. CASE Announce
  <2>1. status_report' \in Reports
    BY <1>14, ReportFields DEF Announce
  <2>2. written' \in 0 .. MAX_REPORTS
    BY <1>14 DEF Announce, Bounded
  <2>3. /\ stat_pc = "ready" /\ report_ready' = TRUE /\ mx_stat_rep' = None /\ stat_pc' = "top"
        /\ UNCHANGED <<upVars, cp, meas, mx_meas_up, exit_sig, acks, fetched, copied, sent,
                       overwritten>>
    BY <1>14 DEF Announce
  <2>4. QED
    BY <2>1, <2>2, <2>3
<1>15. CASE Stop
  BY <1>15 DEF Stop
<1>16. CASE Quit
  BY <1>16 DEF Quit
<1>17. CASE Restart
  <2>1. cp' \in Counts /\ meas' \in Counts /\ body' \in Reports /\ status_report' \in Reports
    BY <1>17, NoCountsFields, ReportFields DEF Restart
  <2>2. /\ sent' \in Seq(Nat \cup {-1}) /\ overwritten' \subseteq Nat \cup {-1}
        /\ fetched' \in 0 .. MAX_RX /\ copied' \in Nat /\ written' \in 0 .. MAX_REPORTS
    BY <1>17 DEF Restart
  <2>3. /\ up_pc' = "fetch" /\ pkt' = None /\ send_report' = FALSE /\ stat_pc' = "top"
        /\ mx_meas_up' = None /\ mx_stat_rep' = None /\ report_ready' = FALSE
        /\ exit_sig' = FALSE /\ UNCHANGED <<token, acks>>
    BY <1>17 DEF Restart
  <2>4. QED
    BY <2>1, <2>2, <2>3
<1>18. CASE UNCHANGED vars
  BY <1>18 DEF vars
<1>19. QED
  BY <1>1, <1>2, <1>3, <1>4, <1>5, <1>6, <1>7, <1>8, <1>9, <1>10, <1>11, <1>12, <1>13, <1>14,
     <1>15, <1>16, <1>17, <1>18 DEF Next, ThreadUp, ThreadPktfwd

-----------------------------------------------------------------------------
(* The counters *)

(* Every step keeps the account of the packets.                            *)
LEMMA LostInductive == TypeOK /\ NothingLost /\ [Next]_vars => NothingLost'
<1> SUFFICES ASSUME TypeOK, NothingLost, [Next]_vars PROVE NothingLost'
  OBVIOUS
<1>0. /\ meas \in Counts /\ meas.rcv \in Nat /\ copied \in Nat /\ fetched \in Nat
      /\ mx_meas_up = "stat" <=> stat_pc = "reset"
      /\ up_pc = "count" => pkt # None
  <2>1. meas \in Counts /\ fetched \in Nat
    BY UplinkAssumption DEF TypeOK
  <2>2. meas.rcv \in Nat
    BY <2>1, CountsFields
  <2>3. QED
    BY <2>1, <2>2 DEF TypeOK
<1> USE DEF NothingLost, upVars, statVars, history
<1>1. CASE Exit \/ FetchFails
  BY <1>1 DEF Exit, FetchFails
<1>2. CASE Fetch
  <2>1. /\ up_pc = "fetch" /\ up_pc' = "flag" /\ UNCHANGED <<copied, stat_pc, meas>>
        /\ \/ pkt' = None /\ fetched' = fetched
           \/ pkt' # None /\ fetched' = fetched + 1
    BY <1>2 DEF Fetch, Statuses, None
  <2>2. QED
    BY <1>0, <2>1
<1>3. CASE ReadFlag
  <2>1. /\ up_pc = "flag" /\ UNCHANGED <<fetched, copied, stat_pc, meas, pkt>>
        /\ up_pc' = "count" <=> pkt # None
        /\ up_pc' # "flag"
    BY <1>3 DEF ReadFlag
  <2>2. QED
    BY <2>1
<1>4. CASE Count
  <2>1. /\ up_pc = "count" /\ up_pc' \notin {"count", "flag"} /\ stat_pc # "reset"
        /\ UNCHANGED <<fetched, copied, stat_pc, pkt>>
    BY <1>0, <1>4 DEF Count, Free, None
  <2>2. meas'.rcv = meas.rcv + 1
    BY <1>4, CountedFields DEF Count, TypeOK
  <2>3. QED
    BY <1>0, <2>1, <2>2
<1>5. CASE TakeReport
  BY <1>5 DEF TakeReport
<1>6. CASE Send \/ RecvAck
  <2>1. /\ up_pc \notin {"count", "flag"} /\ up_pc' \notin {"count", "flag"}
        /\ UNCHANGED <<fetched, copied, stat_pc>> /\ meas'.rcv = meas.rcv
    BY <1>0, <1>6, CountsFields DEF Send, RecvAck, AfterAck
  <2>2. QED
    BY <2>1
<1>7. CASE Missed \/ RecvError
  BY <1>7 DEF Missed, RecvError
<1>8. CASE CopyCounters
  <2>1. /\ stat_pc = "sleep" /\ stat_pc' = "reset" /\ copied' = copied + meas.rcv
        /\ UNCHANGED <<fetched, up_pc, pkt>>
    BY <1>8 DEF CopyCounters
  <2>2. QED
    BY <1>0, <2>1
<1>9. CASE ResetCounters
  <2>1. /\ stat_pc = "reset" /\ stat_pc' = "report" /\ meas'.rcv = 0
        /\ UNCHANGED <<copied, fetched, up_pc, pkt>>
    BY <1>9, NoCountsFields DEF ResetCounters
  <2>2. QED
    BY <1>0, <2>1
<1>10. CASE Loop \/ WriteReport \/ Announce \/ Stop \/ Quit \/ UNCHANGED vars
  <2>1. /\ stat_pc = "reset" <=> stat_pc' = "reset"
        /\ UNCHANGED <<copied, fetched, up_pc, pkt, meas>>
    BY <1>10 DEF Loop, WriteReport, Announce, Stop, Quit, vars
  <2>2. QED
    BY <2>1
<1>11. CASE Restart
  <2>1. up_pc' = "fetch" /\ stat_pc' = "top" /\ fetched' = 0 /\ copied' = 0 /\ meas'.rcv = 0
    BY <1>11, NoCountsFields DEF Restart
  <2>2. QED
    BY <2>1
<1>12. QED
  BY <1>1, <1>2, <1>3, <1>4, <1>5, <1>6, <1>7, <1>8, <1>9, <1>10, <1>11
     DEF Next, ThreadUp, ThreadPktfwd

(* Every step keeps the counters in agreement.                             *)
LEMMA ConsistentInductive == TypeOK /\ Consistent /\ [Next]_vars => Consistent'
<1> SUFFICES ASSUME TypeOK, Consistent, [Next]_vars PROVE Consistent'
  OBVIOUS
<1>0. /\ meas \in Counts /\ meas.ack \in Nat /\ meas.dgram \in Nat /\ meas.rcv \in Nat
      /\ meas.ok \in Nat /\ meas.bad \in Nat /\ meas.fwd \in Nat
      /\ mx_meas_up = "up" <=> up_pc \in {"recv1", "recv2"}
  BY CountsFields DEF TypeOK
<1> USE DEF Consistent, ReportConsistent, upVars, statVars, history
<1>1. CASE Exit \/ FetchFails
  BY <1>1 DEF Exit, FetchFails
<1>2. CASE Fetch
  BY <1>2, ReportFields, NoCountsFields DEF Fetch
<1>3. CASE ReadFlag
  BY <1>3 DEF ReadFlag
<1>4. CASE Count
  <2>1. up_pc' \notin {"recv1", "recv2"} /\ UNCHANGED <<cp, status_report, body>>
    BY <1>4 DEF Count
  <2>2. /\ pkt \in Statuses /\ meas' = Counted(pkt)
    BY <1>4 DEF Count, TypeOK
  <2>3. HangsTogether(Counted(pkt))
    <3>1. LET c == Counted(pkt)
          IN  /\ c.rcv = meas.rcv + 1 /\ c.dgram = meas.dgram /\ c.ack = meas.ack
              /\ c.ok = IF pkt = "CRC_OK" THEN meas.ok + 1 ELSE meas.ok
              /\ c.bad = IF pkt = "CRC_BAD" THEN meas.bad + 1 ELSE meas.bad
              /\ c.fwd = IF pkt \in Forwarded THEN meas.fwd + 1 ELSE meas.fwd
      BY <1>0, <2>2, CountedFields
    <3>2. /\ meas.rcv = meas.ok + meas.bad /\ meas.ack <= meas.dgram
          /\ Forwarded \subseteq {"CRC_OK"} => meas.fwd <= meas.ok
      BY DEF HangsTogether
    <3>3. CASE pkt = "CRC_OK"
      BY <1>0, <3>1, <3>2, <3>3 DEF HangsTogether
    <3>4. CASE pkt = "CRC_BAD"
      <4>1. Forwarded \subseteq {"CRC_OK"} => pkt \notin Forwarded
        BY <3>4
      <4>2. QED
        BY <1>0, <3>1, <3>2, <3>4, <4>1 DEF HangsTogether
    <3>5. QED
      BY <2>2, <3>3, <3>4 DEF Statuses
  <2>4. QED
    BY <2>1, <2>2, <2>3
<1>5. CASE TakeReport
  BY <1>5 DEF TakeReport
<1>6. CASE Send
  <2>1. /\ meas'.dgram = meas.dgram + 1 /\ meas'.ack = meas.ack /\ meas'.rcv = meas.rcv
        /\ meas'.ok = meas.ok /\ meas'.bad = meas.bad /\ meas'.fwd = meas.fwd
    BY <1>0, <1>6, CountsFields DEF Send
  <2>2. UNCHANGED <<cp, status_report, body>>
    BY <1>6 DEF Send
  <2>3. HangsTogether(meas') /\ meas'.ack < meas'.dgram
    BY <1>0, <2>1 DEF HangsTogether
  <2>4. QED
    BY <2>2, <2>3
<1>7. CASE RecvAck
  <2>1. /\ meas'.ack = meas.ack + 1 /\ meas'.dgram = meas.dgram /\ meas'.rcv = meas.rcv
        /\ meas'.ok = meas.ok /\ meas'.bad = meas.bad /\ meas'.fwd = meas.fwd
    BY <1>0, <1>7, CountsFields DEF RecvAck
  <2>2. /\ UNCHANGED <<cp, status_report, body>> /\ up_pc \in {"recv1", "recv2"}
        /\ up_pc' = "fetch"
    BY <1>7 DEF RecvAck, AfterAck
  <2>3. HangsTogether(meas')
    BY <1>0, <2>1, <2>2 DEF HangsTogether
  <2>4. QED
    BY <2>2, <2>3
<1>8. CASE Missed \/ RecvError
  <2>1. up_pc \in {"recv1", "recv2"} /\ UNCHANGED <<meas, cp, status_report, body>>
    BY <1>8 DEF Missed, RecvError
  <2>2. QED
    BY <2>1
<1>9. CASE Loop \/ Stop \/ Quit
  BY <1>9 DEF Loop, Stop, Quit
<1>10. CASE CopyCounters
  BY <1>10 DEF CopyCounters
<1>11. CASE ResetCounters
  <2>1. up_pc' = up_pc /\ up_pc \notin {"recv1", "recv2"}
    BY <1>11 DEF ResetCounters, TypeOK
  <2>2. meas' = NoCounts /\ UNCHANGED <<cp, status_report, body>>
    BY <1>11 DEF ResetCounters
  <2>3. QED
    BY <2>1, <2>2, NoCountsFields
<1>12. CASE WriteReport
  BY <1>12, ReportFields, NoCountsFields DEF WriteReport
<1>13. CASE Announce
  <2>1. status_report'.shows = cp
    BY <1>13, ReportFields DEF Announce, TypeOK
  <2>2. QED
    BY <1>13, <2>1 DEF Announce
<1>14. CASE Restart
  <2>1. /\ up_pc' = "fetch" /\ cp' = NoCounts /\ meas' = NoCounts
        /\ body' = NoReport /\ status_report' = NoReport
    BY <1>14 DEF Restart
  <2>2. QED
    BY <2>1, NoCountsFields, ReportFields
<1>15. CASE UNCHANGED vars
  BY <1>15 DEF vars
<1>16. QED
  BY <1>1, <1>2, <1>3, <1>4, <1>5, <1>6, <1>7, <1>8, <1>9, <1>10, <1>11, <1>12, <1>13, <1>14,
     <1>15 DEF Next, ThreadUp, ThreadPktfwd

-----------------------------------------------------------------------------
(* The reports *)

Handed == Whole /\ Flagged /\ Later /\ Accounted /\ Ordered

(* A step that touches neither the reports nor thread_up on its way to one. *)
LEMMA HandedKept ==
  ASSUME Handed, UNCHANGED <<report_ready, status_report, written, sent, overwritten, body>>,
         stat_pc = "ready" <=> stat_pc' = "ready",
         \/ UNCHANGED <<up_pc, send_report>>
         \/ /\ up_pc' \notin {"count", "take", "send"} /\ up_pc # "send"
            /\ up_pc' = "flag" => body.number = 0
  PROVE  Handed'
<1>1. Whole'
  BY DEF Handed, Whole
<1>2. Flagged'
  BY DEF Handed, Flagged
<1>3. /\ Waiting' <=> Waiting
      /\ InHand' => InHand
      /\ InHand /\ ~InHand' => FALSE
  BY DEF Waiting, InHand
<1>4. Later'
  BY <1>3 DEF Handed, Later
<1>5. Accounted'
  BY <1>3 DEF Handed, Accounted, Sent
<1>6. Ordered'
  BY DEF Handed, Ordered, Sent
<1>7. QED
  BY <1>1, <1>2, <1>4, <1>5, <1>6 DEF Handed

(* thread_up takes the report whose flag it has seen.                      *)
LEMMA TakeHanded ==
  ASSUME TypeOK, Handed, TakeReport
  PROVE  Handed'
<1>1. /\ up_pc = "take" /\ up_pc' = "send" /\ report_ready' = FALSE
      /\ body' = status_report /\ stat_pc # "ready" /\ stat_pc' = stat_pc
      /\ UNCHANGED <<status_report, written, sent, overwritten, send_report>>
  BY DEF TakeReport, Free, TypeOK, None, history, statVars
<1>2. send_report /\ report_ready
  BY <1>1 DEF Handed, Flagged
<1>3. /\ Waiting /\ ~Waiting' /\ ~InHand /\ InHand' /\ body'.number = written
  BY <1>1, <1>2 DEF Waiting, InHand, Handed, Whole
<1>4. written \in Nat
  BY UplinkAssumption DEF TypeOK
<1>5. Whole' /\ Flagged'
  BY <1>1, <1>2, <1>3, <1>4 DEF Handed, Whole, Flagged
<1>6. Later'
  BY <1>1, <1>3, <1>4 DEF Handed, Later
<1>7. Accounted'
  BY <1>1, <1>3 DEF Handed, Accounted, Sent
<1>8. Ordered'
  BY <1>1 DEF Handed, Ordered, Sent
<1>9. QED
  BY <1>5, <1>6, <1>7, <1>8 DEF Handed

(* thread_up sends the report it has taken.                                *)
LEMMA SendHanded ==
  ASSUME TypeOK, Handed, Send
  PROVE  Handed'
<1>1. /\ up_pc = "send" /\ up_pc' = "recv1"
      /\ sent' = IF send_report THEN Append(sent, body.number) ELSE sent
      /\ UNCHANGED <<report_ready, status_report, written, overwritten, send_report, body, stat_pc>>
  BY DEF Send, statVars
<1>2. /\ written \in Nat /\ sent \in Seq(Nat \cup {-1}) /\ body.number \in Nat \cup {-1}
  BY UplinkAssumption DEF TypeOK, Reports
<1>3. /\ Waiting' <=> Waiting
      /\ ~InHand'
  BY <1>1 DEF Waiting, InHand
<1>4. Whole' /\ Flagged'
  BY <1>1 DEF Handed, Whole, Flagged
<1>5. CASE send_report
  <2> DEFINE b == body.number
  <2>1. InHand
    BY <1>1, <1>5 DEF InHand
  <2>2. /\ b \in 1 .. written /\ b \notin overwritten
        /\ \A i \in DOMAIN sent : sent[i] \in 1 .. written /\ sent[i] < b
        /\ Waiting => b < written
    BY <2>1 DEF Handed, Later
  <2>3. /\ DOMAIN sent = 1 .. Len(sent) /\ Len(sent) \in Nat
        /\ sent' = Append(sent, b) /\ DOMAIN sent' = 1 .. (Len(sent) + 1)
        /\ sent'[Len(sent) + 1] = b
        /\ \A i \in DOMAIN sent : sent'[i] = sent[i]
    BY <1>1, <1>2, <1>5
  <2> HIDE DEF b
  <2>4. \A i \in DOMAIN sent' : i \in DOMAIN sent \/ (i = Len(sent) + 1 /\ sent'[i] = b)
    BY <2>3
  <2>5. \A n : n \in Sent' <=> n \in Sent \/ n = b
    <3>1. \A n : n \in Sent' => n \in Sent \/ n = b
      BY <2>3, <2>4 DEF Sent
    <3>2. \A n : n \in Sent => n \in Sent'
      <4>1. \A i \in DOMAIN sent : i \in DOMAIN sent'
        BY <2>3
      <4>2. QED
        BY <2>3, <4>1 DEF Sent
    <3>3. b \in Sent'
      <4>1. Len(sent) + 1 \in DOMAIN sent'
        BY <2>3
      <4>2. QED
        BY <2>3, <4>1 DEF Sent
    <3>4. QED
      BY <3>1, <3>2, <3>3
  <2>6. Later'
    <3>1. \A i \in DOMAIN sent' : sent'[i] \in 1 .. written /\ sent'[i] <= b
      BY <1>2, <2>2, <2>3, <2>4
    <3>2. Waiting => \A i \in DOMAIN sent' : sent'[i] < written
      BY <1>2, <2>2, <3>1
    <3>3. QED
      BY <1>1, <1>3, <3>1, <3>2 DEF Handed, Later
  <2>7. Accounted'
    BY <1>1, <1>3, <2>1, <2>5 DEF Handed, Accounted, b
  <2>8. Ordered'
    <3>1. ASSUME NEW i \in DOMAIN sent', NEW j \in DOMAIN sent', i < j
          PROVE  sent'[i] < sent'[j]
      <4>1. i \in DOMAIN sent
        BY <2>3, <3>1
      <4>2. CASE j \in DOMAIN sent
        BY <2>3, <3>1, <4>1, <4>2 DEF Handed, Ordered
      <4>3. CASE sent'[j] = b
        BY <2>2, <2>3, <4>1, <4>3
      <4>4. QED
        BY <2>4, <4>2, <4>3
    <3>2. Sent' \cap overwritten' = {}
      BY <1>1, <2>2, <2>5 DEF Handed, Ordered
    <3>3. QED
      BY <3>1, <3>2 DEF Ordered
  <2>9. QED
    BY <1>4, <2>6, <2>7, <2>8 DEF Handed
<1>6. CASE ~send_report
  <2>1. sent' = sent /\ ~InHand
    BY <1>1, <1>6 DEF InHand
  <2>2. Later' /\ Accounted' /\ Ordered'
    BY <1>1, <1>3, <2>1 DEF Handed, Later, Accounted, Ordered, Sent
  <2>3. QED
    BY <1>4, <2>2 DEF Handed
<1>7. QED
  BY <1>5, <1>6 DEF TypeOK

(* The statistics loop starts to write a report.                           *)
LEMMA WriteHanded ==
  ASSUME TypeOK, Handed, WriteReport
  PROVE  Handed'
<1>1. /\ stat_pc # "ready" /\ stat_pc' = "ready" /\ status_report' = Torn
      /\ overwritten' = IF report_ready THEN overwritten \cup {status_report.number} ELSE overwritten
      /\ UNCHANGED <<up_pc, send_report, body, report_ready, written, sent>>
  BY DEF WriteReport, upVars
<1>2. status_report.number = written /\ written \in Nat
  BY <1>1, UplinkAssumption DEF Handed, Whole, TypeOK
<1>3. ~Waiting' /\ (Waiting <=> report_ready) /\ (InHand' <=> InHand)
  BY <1>1 DEF Waiting, InHand
<1>4. Whole' /\ Flagged'
  BY <1>1, ReportFields DEF Handed, Whole, Flagged
<1>5. CASE report_ready
  <2>1. /\ overwritten' = overwritten \cup {written} /\ written > 0
        /\ \A i \in DOMAIN sent : sent[i] < written
        /\ InHand => body.number < written
    BY <1>1, <1>2, <1>3, <1>5 DEF Handed, Later
  <2>2. written \notin Sent
    BY <1>2, <2>1 DEF Sent
  <2>3. Later'
    BY <1>1, <1>2, <1>3, <2>1 DEF Handed, Later
  <2>4. Accounted'
    BY <1>1, <1>3, <2>1 DEF Handed, Accounted, Sent
  <2>5. Ordered'
    BY <1>1, <2>1, <2>2 DEF Handed, Ordered, Sent
  <2>6. QED
    BY <1>4, <2>3, <2>4, <2>5 DEF Handed
<1>6. CASE ~report_ready
  <2>1. overwritten' = overwritten /\ ~Waiting
    BY <1>1, <1>3, <1>6
  <2>2. Later' /\ Accounted' /\ Ordered'
    BY <1>1, <1>3, <2>1 DEF Handed, Later, Accounted, Ordered, Sent
  <2>3. QED
    BY <1>4, <2>2 DEF Handed
<1>7. QED
  BY <1>5, <1>6

(* The statistics loop sets the flag of a report.                          *)
LEMMA AnnounceHanded ==
  ASSUME TypeOK, Handed, Announce
  PROVE  Handed'
<1>1. /\ stat_pc = "ready" /\ stat_pc' = "top" /\ report_ready' = TRUE
      /\ written' = written + 1 /\ status_report' = Report(written + 1, cp)
      /\ UNCHANGED <<up_pc, send_report, body, sent, overwritten>>
  BY DEF Announce, upVars
<1>2. written \in Nat /\ cp \in Counts
  BY UplinkAssumption DEF TypeOK
<1>3. ~Waiting /\ Waiting' /\ (InHand' <=> InHand)
  BY <1>1 DEF Waiting, InHand
<1>4. status_report'.number = written'
  BY <1>1, <1>2, ReportFields
<1>5. Whole' /\ Flagged'
  BY <1>1, <1>4 DEF Handed, Whole, Flagged
<1>6. \A n \in 1 .. written : n \in 1 .. written' /\ n < written'
  BY <1>1, <1>2
<1>7. Later'
  <2>1. \A i \in DOMAIN sent : sent[i] \in 1 .. written' /\ sent[i] < written'
    BY <1>6 DEF Handed, Later
  <2>2. overwritten \subseteq 1 .. written' /\ written' \notin overwritten /\ written' > 0
    BY <1>1, <1>2, <1>6 DEF Handed, Later
  <2>3. InHand => /\ body.number \in 1 .. written' /\ body.number \notin overwritten
                  /\ \A i \in DOMAIN sent : sent[i] < body.number
                  /\ body.number < written'
    BY <1>6 DEF Handed, Later
  <2>4. QED
    BY <1>1, <1>3, <2>1, <2>2, <2>3 DEF Later
<1>8. Accounted'
  <2>1. \A n \in 1 .. written' : n \in 1 .. written \/ n = written'
    BY <1>1, <1>2
  <2>2. QED
    BY <1>1, <1>3, <2>1 DEF Handed, Accounted, Sent
<1>9. Ordered'
  BY <1>1 DEF Handed, Ordered, Sent
<1>10. QED
  BY <1>5, <1>7, <1>8, <1>9 DEF Handed

(* Every step keeps the order of the reports.                              *)
LEMMA HandedInductive == TypeOK /\ Handed /\ [Next]_vars => Handed'
<1> SUFFICES ASSUME TypeOK, Handed, [Next]_vars PROVE Handed'
  OBVIOUS
<1> USE DEF upVars, statVars, history
<1>1. CASE Exit \/ FetchFails \/ Missed \/ RecvError \/ RecvAck
  <2>1. /\ UNCHANGED <<report_ready, status_report, written, sent, overwritten, body, stat_pc>>
        /\ up_pc' \notin {"flag", "count", "take", "send"} /\ up_pc # "send"
    BY <1>1 DEF Exit, FetchFails, Missed, RecvError, RecvAck, AfterAck
  <2>2. QED
    BY <2>1, HandedKept
<1>2. CASE Loop \/ CopyCounters \/ ResetCounters \/ Stop \/ Quit \/ UNCHANGED vars
  <2>1. /\ UNCHANGED <<report_ready, status_report, written, sent, overwritten, body>>
        /\ stat_pc = "ready" <=> stat_pc' = "ready"
        /\ UNCHANGED <<up_pc, send_report>>
    BY <1>2 DEF Loop, CopyCounters, ResetCounters, Stop, Quit, vars
  <2>2. QED
    BY <2>1, HandedKept
<1>3. CASE Fetch
  <2>1. /\ up_pc = "fetch" /\ up_pc' = "flag" /\ body' = NoReport
        /\ UNCHANGED <<report_ready, status_report, written, sent, overwritten, stat_pc>>
    BY <1>3 DEF Fetch
  <2>2. Whole' /\ Flagged'
    BY <2>1, ReportFields DEF Handed, Whole, Flagged
  <2>3. ~InHand /\ ~InHand' /\ (Waiting' <=> Waiting)
    BY <2>1 DEF InHand, Waiting
  <2>4. Later' /\ Accounted' /\ Ordered'
    BY <2>1, <2>3 DEF Handed, Later, Accounted, Ordered, Sent
  <2>5. QED
    BY <2>2, <2>4 DEF Handed
<1>4. CASE ReadFlag \/ Count
  <2>1. /\ up_pc \in {"flag", "count"} /\ up_pc' \in {"fetch", "count", "take", "send"}
        /\ UNCHANGED <<report_ready, status_report, written, sent, overwritten, stat_pc, body>>
        /\ up_pc = "flag" => up_pc' # "send" /\ send_report' = report_ready
        /\ up_pc = "count" => up_pc' # "count" /\ send_report' = send_report
        /\ up_pc = "count" /\ up_pc' = "send" => ~send_report
        /\ up_pc' = "take" => send_report'
    BY <1>4 DEF ReadFlag, Count, TypeOK
  <2>2. Whole' /\ Flagged'
    BY <2>1 DEF Handed, Whole, Flagged
  <2>3. ~InHand /\ ~InHand' /\ (Waiting' <=> Waiting)
    BY <2>1 DEF InHand, Waiting
  <2>4. Later' /\ Accounted' /\ Ordered'
    BY <2>1, <2>3 DEF Handed, Later, Accounted, Ordered, Sent
  <2>5. QED
    BY <2>2, <2>4 DEF Handed
<1>5. CASE TakeReport
  BY <1>5, TakeHanded
<1>6. CASE Send
  BY <1>6, SendHanded
<1>7. CASE WriteReport
  BY <1>7, WriteHanded
<1>8. CASE Announce
  BY <1>8, AnnounceHanded
<1>9. CASE Restart
  <2>1. /\ up_pc' = "fetch" /\ body' = NoReport /\ stat_pc' = "top" /\ written' = 0
        /\ report_ready' = FALSE /\ status_report' = NoReport
        /\ sent' = << >> /\ overwritten' = {}
    BY <1>9 DEF Restart
  <2>2. QED
    BY <2>1, ReportFields
       DEF Handed, Whole, Flagged, Later, Accounted, Ordered, Sent, Waiting, InHand
<1>10. QED
  BY <1>1, <1>2, <1>3, <1>4, <1>5, <1>6, <1>7, <1>8, <1>9 DEF Next, ThreadUp, ThreadPktfwd

(* The invariant holds before the first packet.                            *)
LEMMA InvariantInit == Init => IInv
<1> SUFFICES ASSUME Init PROVE IInv
  OBVIOUS
<1>1. TypeOK /\ Bounded
  <2>1. body \in Reports /\ status_report \in Reports /\ cp \in Counts /\ meas \in Counts
    BY ReportFields, NoCountsFields DEF Init
  <2>2. fetched \in 0 .. MAX_RX /\ copied \in Nat /\ written \in 0 .. MAX_REPORTS
    BY UplinkAssumption DEF Init
  <2>3. sent \in Seq(Nat \cup {-1}) /\ overwritten \subseteq Nat \cup {-1}
    BY DEF Init
  <2>4. QED
    BY <2>1, <2>2, <2>3 DEF Init, TypeOK, Bounded, None
<1>2. NothingLost /\ Consistent
  BY NoCountsFields, ReportFields DEF Init, NothingLost, Consistent, ReportConsistent
<1>3. Whole /\ Flagged
  BY ReportFields DEF Init, Whole, Flagged
<1>4. Later /\ Accounted /\ Ordered
  BY DEF Init, Later, Accounted, Ordered, Sent, Waiting, InHand
<1>5. QED
  BY <1>1, <1>2, <1>3, <1>4 DEF IInv

(* The invariant holds in every state.                                     *)
LEMMA Invariance == Spec => []IInv
<1>1. IInv /\ [Next]_vars => IInv'
  BY TypeInductive, BoundedInductive, LostInductive, ConsistentInductive, HandedInductive
     DEF IInv, Handed
<1>2. QED
  BY <1>1, InvariantInit, PTL DEF Spec

-----------------------------------------------------------------------------
(* Every state has the types declared for it, and a mutex is held by the    *)
(* thread that is in its critical section.                                  *)
THEOREM TypeCorrect == Spec => []TypeOK
<1>1. IInv => TypeOK
  BY DEF IInv
<1>2. QED
  BY <1>1, Invariance, PTL

(* Every packet is in the counters of exactly one report.                   *)
THEOREM EveryPacketCounted == Spec => []NothingLost
<1>1. IInv => NothingLost
  BY DEF IInv
<1>2. QED
  BY <1>1, Invariance, PTL

(* No report shows counters that contradict each other.                     *)
THEOREM ReportsHangTogether == Spec => []ReportConsistent
<1>1. IInv => ReportConsistent
  BY DEF IInv, Consistent
<1>2. QED
  BY <1>1, Invariance, PTL

(* No report is sent while it is written.                                   *)
THEOREM ReportsWhole == Spec => []ReportWhole
<1>1. IInv => ReportWhole
  BY DEF IInv, Whole, ReportWhole
<1>2. QED
  BY <1>1, Invariance, PTL

(* No report is sent twice, out of order or after the next one, and none    *)
(* disappears, although report_ready is read without its mutex.             *)
THEOREM ReportsSentOnce == Spec => []ReportSentOnce
<1>1. IInv => ReportSentOnce
  <2> SUFFICES ASSUME IInv PROVE ReportSentOnce
    OBVIOUS
  <2>1. ASSUME NEW n \in 1 .. written
        PROVE  \/ n \in Sent \cup overwritten
               \/ report_ready /\ status_report.number = n
               \/ up_pc = "send" /\ body.number = n
    BY DEF IInv, Accounted, Waiting, InHand, Whole
  <2>2. QED
    BY <2>1 DEF IInv, Ordered, ReportSentOnce
<1>2. QED
  BY <1>1, Invariance, PTL

=============================================================================
