--------------------------- MODULE MCControlQueue ---------------------------
(* ControlQueue on small rings, and the deviations its properties catch.   *)
EXTENDS ControlQueue
=============================================================================
