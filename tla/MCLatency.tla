------------------------------- MODULE MCLatency -------------------------------
(* Bounded instances of Latency: a stem that feeds Master directly and through *)
(* another one, a cycle, a Direct stem, and Master Direct.                      *)
EXTENDS Latency

CONSTANTS a, b

Nested == (a :> {b, Master}) @@ (b :> {Master})
Looped == (a :> {b, Master}) @@ (b :> {a, Master})
MCRoutings ==
    {[egress |-> Nested, direct |-> {}, off |-> FALSE],
     [egress |-> Nested, direct |-> {}, off |-> TRUE],
     [egress |-> Nested, direct |-> {b}, off |-> FALSE],
     [egress |-> (a :> {Master}) @@ (b :> {Master}), direct |-> {}, off |-> FALSE],
     [egress |-> Looped, direct |-> {}, off |-> FALSE]}
=============================================================================
