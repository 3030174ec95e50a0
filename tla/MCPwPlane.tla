------------------------------- MODULE MCPwPlane -------------------------------
(* Bounded instances of PwPlane. *)
EXTENDS PwPlane
=============================================================================
