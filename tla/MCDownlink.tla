----------------------------- MODULE MCDownlink -----------------------------
(***************************************************************************)
(* Instances of Downlink for TLC. One unit of the counter stands for 5 ms: *)
(* the lead of 30 ms is six units, the sleep of 10 ms two, and the start   *)
(* delay and the margin, 2.5 ms together, are rounded down to nothing.     *)
(* The horizon and the one second margin are shortened. The run starts     *)
(* just before the counter rolls over.                                     *)
(***************************************************************************)
EXTENDS Downlink, TLC

Identities == Permutations(Payload)
=============================================================================
