--------------------------- MODULE MCEventDelivery --------------------------
(* Three outputs, two of them contradicting each other on one key. *)
EXTENDS EventDelivery, TLC

CONSTANTS signal, summary, revised, k1, k2

Outputs == {signal, summary, revised}
Keys == {k1, k2}
KeyOfOutput == (signal :> k1) @@ (summary :> k2) @@ (revised :> k2)
=============================================================================
