------------------------------- MODULE MCFxHost -------------------------------
(* Two chains, between which the user goes back and forth.                 *)
EXTENDS FxHost

=============================================================================
