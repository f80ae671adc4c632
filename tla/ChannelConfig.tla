---------------------------- MODULE ChannelConfig ----------------------------
(***************************************************************************)
(* The checks of a channel configuration in the LR1121 build: those of the *)
(* web form (lorahub/main/http_server.c), of lorahub_aux.c, and of the     *)
(* configuration of the two detectors in lorahub_hal_rx.c. Frequencies are *)
(* in kHz, bandwidths by their name in kHz, and 0 is DR_UNDEFINED.         *)
(***************************************************************************)
EXTENDS Integers

SpreadingFactors == 5 .. 12
DR_UNDEFINED     == 0

SubGhzBandwidths == {125, 250, 500}
Ghz24Bandwidths  == {200, 400, 800}
Bandwidths       == SubGhzBandwidths \cup Ghz24Bandwidths

FREQ_SUBGHZ_MIN == 150000
FREQ_SUBGHZ_MAX == 960000
FREQ_2_4GHZ_MIN == 2400000
FREQ_2_4GHZ_MAX == 2500000

(* lgw_check_lora_mod_params: each band has its bandwidths.                 *)
lgw_check_lora_mod_params(freq, bw) ==
  \/ freq \in FREQ_SUBGHZ_MIN .. FREQ_SUBGHZ_MAX /\ bw \in SubGhzBandwidths
  \/ freq \in FREQ_2_4GHZ_MIN .. FREQ_2_4GHZ_MAX /\ bw \in Ghz24Bandwidths

(* ral_compute_lora_ldro, for the bandwidths of the hub: whether the low    *)
(* data rate optimisation is on.                                            *)
ral_compute_lora_ldro(sf, bw) ==
  CASE bw = 500 -> FALSE
    [] bw = 250 -> sf = 12
    [] OTHER    -> sf \in {11, 12}

Abs(n) == IF n < 0 THEN -n ELSE n

(* lgw_check_lora_dualsf_conf: whether the two detectors work together.     *)
lgw_check_lora_dualsf_conf(bw, sf1, sf2) ==
  \/ sf1 = DR_UNDEFINED \/ sf2 = DR_UNDEFINED
  \/ /\ IF bw = 800 THEN sf1 < 10 /\ sf2 < 10 ELSE sf1 # 12 /\ sf2 # 12
     /\ sf1 # sf2
     /\ Abs(sf1 - sf2) <= 4
     /\ ral_compute_lora_ldro(sf1, bw) = ral_compute_lora_ldro(sf2, bw)

(* The detectors that lgw_radio_configure_rx sets: the highest spreading    *)
(* factor on the main one, or the first alone when the pair does not work.  *)
Detectors_Unchecked(bw, dr1, dr2) ==
  IF dr2 = DR_UNDEFINED THEN [main |-> dr1, side |-> DR_UNDEFINED]
  ELSE IF dr2 < dr1 THEN [main |-> dr1, side |-> dr2] ELSE [main |-> dr2, side |-> dr1]

Detectors(bw, dr1, dr2) ==
  LET pair == IF dr2 = DR_UNDEFINED THEN [main |-> dr1, side |-> DR_UNDEFINED]
              ELSE IF dr2 < dr1 THEN [main |-> dr1, side |-> dr2]
              ELSE [main |-> dr2, side |-> dr1]
  IN  IF lgw_check_lora_dualsf_conf(bw, pair.main, pair.side) THEN pair
      ELSE [main |-> dr1, side |-> DR_UNDEFINED]

FieldAccepted_AnyRate(field, value) ==
  /\ field = "chan_freq" => value \in FREQ_SUBGHZ_MIN .. FREQ_2_4GHZ_MAX
  /\ field = "chan_dr_2" => value \in SpreadingFactors \cup {DR_UNDEFINED}
  /\ field = "chan_bw"   => value \in Bandwidths

(* The sanity check of each field of the web form, on its own.              *)
FieldAccepted(field, value) ==
  /\ field = "chan_freq" => value \in FREQ_SUBGHZ_MIN .. FREQ_2_4GHZ_MAX
  /\ field = "chan_dr"   => value \in SpreadingFactors
  /\ field = "chan_dr_2" => value \in SpreadingFactors \cup {DR_UNDEFINED}
  /\ field = "chan_bw"   => value \in Bandwidths
=============================================================================
