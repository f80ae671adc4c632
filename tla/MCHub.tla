------------------------------- MODULE MCHub -------------------------------
(***************************************************************************)
(* An instance of Hub: a default at 868.1 MHz with one spreading factor,   *)
(* and posts that a user may send, each of a few fields.                   *)
(***************************************************************************)
EXTENDS Hub, TLC

MCDefault ==
  [lns_addr |-> "lns1", lns_port |-> 1700, chan_freq |-> 868100, chan_dr |-> 10,
   chan_dr_2 |-> 0, chan_bw |-> 125, sntp_addr |-> "sntp"]

(* The second detector on; one spreading factor that has none beside it;    *)
(* a bandwidth of the other band, which the radio refuses, and which does   *)
(* not go with the second detector; a value out of range.                   *)
MCPosts ==
  {"chan_dr_2" :> 7,
   "chan_dr" :> 12 @@ "chan_dr_2" :> 0,
   "chan_bw" :> 800,
   "chan_dr" :> 4}
=============================================================================
