---------------------------- MODULE MCTokenRefresh ----------------------------
(* TokenRefresh with callers placed on named processes. *)
EXTENDS TokenRefresh, TLC

CONSTANTS p1, p2, c1, c2

Apart == (c1 :> p1) @@ (c2 :> p2)
Alone == c1 :> p1

\* The replicas change places together with their callers.
Swap == {[x \in {p1, p2, c1, c2} |-> x],
         (p1 :> p2) @@ (p2 :> p1) @@ (c1 :> c2) @@ (c2 :> c1)}

===============================================================================
