---------------------------- MODULE MCSessionLanes ----------------------------
(* Model checking of SessionLanes: a few edits of every kind.              *)
EXTENDS SessionLanes
=============================================================================
