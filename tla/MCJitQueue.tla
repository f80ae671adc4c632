----------------------------- MODULE MCJitQueue -----------------------------
(***************************************************************************)
(* Instances of JitQueue for TLC. One unit of the counter stands for about *)
(* 30 ms, except that the beacon guard, the one second margin and the      *)
(* horizon are shortened; every inequality between sums of delays that     *)
(* the code's constants satisfy and the properties depend on is kept.      *)
(***************************************************************************)
EXTENDS JitQueue

=============================================================================
