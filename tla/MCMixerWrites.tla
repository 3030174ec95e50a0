---------------------------- MODULE MCMixerWrites ----------------------------
(* Model checking of MixerWrites: a handful of gestures of the two hands   *)
(* on one track.                                                           *)
EXTENDS MixerWrites
=============================================================================
