----------------------------- MODULE MCTrackEgress -----------------------------
(* Bounded instances of TrackEgress. *)
EXTENDS TrackEgress
=============================================================================
