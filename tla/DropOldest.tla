----------------------------- MODULE DropOldest -----------------------------
(***************************************************************************)
(* What the control mailbox of the FX host promises ("Drops oldest on      *)
(* overflow (keep latest)", engine/src/host/control.rs), with no ring, no  *)
(* indices and no threads.                                                 *)
(*                                                                         *)
(* Messages are numbered in the order they are pushed, so the mailbox is   *)
(* an interval: the messages lo+1 .. sent are still in it, everything up   *)
(* to lo is gone, delivered or discarded, and last is the newest one the   *)
(* consumer received.  A burst of pushes can upset it: until it settles    *)
(* nothing is promised but that it counts what is sent.                    *)
(***************************************************************************)
EXTENDS Naturals

CONSTANT Room            \* the mailbox never discards below this many messages

VARIABLES sent, lo, last, upset

avars == <<sent, lo, last, upset>>

AInit == sent = 0 /\ lo = 0 /\ last = 0 /\ upset = FALSE

Queued == sent - lo

(* A push adds one message; the ring has one spare slot while the consumer *)
(* is inside the oldest one.                                               *)
Enqueue == /\ Queued <= Room
           /\ sent' = sent + 1
           /\ UNCHANGED <<lo, last>>

(* Only a full mailbox loses a message, and it loses the oldest one.       *)
Discard == /\ Queued >= Room
           /\ lo' = lo + 1
           /\ UNCHANGED <<sent, last>>

Deliver == /\ lo < sent
           /\ lo' = lo + 1
           /\ last' = lo + 1
           /\ UNCHANGED sent

(* Only a full mailbox is upset.                                           *)
Upset == /\ ~upset /\ upset' = TRUE
         /\ Queued >= Room
         /\ lo' = 0
         /\ UNCHANGED <<sent, last>>

Churn == /\ upset /\ upset' = TRUE
         /\ sent' \in {sent, sent + 1}
         /\ last' \in 0 .. sent + 1
         /\ UNCHANGED lo

(* It settles with no more than Room messages, newer than the last one.    *)
Settle == /\ upset /\ upset' = FALSE
          /\ lo' \in last .. sent /\ sent - lo' <= Room
          /\ UNCHANGED <<sent, last>>

ANext ==
    \/ ~upset /\ upset' = FALSE /\ (Enqueue \/ Discard \/ Deliver)
    \/ Upset \/ Churn \/ Settle

ASpec == AInit /\ [][ANext]_avars
=============================================================================
