---------------------------- MODULE MCRackPublish ----------------------------
(* RackPublish with a handful of generations.                              *)
EXTENDS RackPublish
=============================================================================
