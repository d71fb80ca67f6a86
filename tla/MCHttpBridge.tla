---------------------------- MODULE MCHttpBridge ----------------------------
(* HttpBridge with two requests of one conversation, of which the second     *)
(* names the response of the first, and one request of another key.          *)
EXTENDS HttpBridge, TLC

CONSTANTS r1, r2, r3, k1, k2

KeyOf == (r1 :> k1) @@ (r2 :> k2) @@ (r3 :> k2)
Follows == (r1 :> None) @@ (r2 :> r1) @@ (r3 :> None)
NoLane == (r1 :> None) @@ (r2 :> None) @@ (r3 :> None)

=============================================================================
