------------------------------ MODULE MCMeterTaps ------------------------------
(* Bounded instances of MeterTaps. *)
EXTENDS MeterTaps
=============================================================================
