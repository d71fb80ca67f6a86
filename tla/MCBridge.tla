------------------------------ MODULE MCBridge -------------------------------
(***************************************************************************)
(* What a replica keeps of the upstream connections it holds for its       *)
(* clients, side by side: the durable row of a bridge key, the registry of *)
(* the HTTP bridge and a client WebSocket touch none of each other's state, *)
(* so a behaviour picks one of them and runs it, and the others stay in their *)
(* initial states.                                                         *)
(***************************************************************************)
EXTENDS DurableBridge, WebSocketRelay, TLC

CONSTANTS i1, i2, s1, s2, r1, r2, r3, k1, k2, none

VARIABLES part, bridge, future, key, pc, at, evicted, lease, retire, active,
    down

httpVars == <<bridge, future, key, pc, at, evicted, lease, retire, active,
    down>>

SessionHome == (s1 :> i1) @@ (s2 :> i2)

\* Two requests of one key, of which the second may get a lane of its own,
\* and one that continues the first with a turn state no alias knows.
KeyOf == (r1 :> k1) @@ (r2 :> k1) @@ (r3 :> k1)
Follows == (r1 :> none) @@ (r2 :> none) @@ (r3 :> r1)
LaneOf == (r1 :> none) @@ (r2 :> k2) @@ (r3 :> none)
ThreeRequests == {r1, r2, r3}
TwoKeys == {k1, k2}
HardKey == {k1}
Rebinder == {r3}
Leaver == {r2}

TwoRequests == {r1, r2}
TwoAccounts == {1, 2}
RelayErrors == {"auth", "retry", "missing", "security"}

\* The continuity of the requests of a client WebSocket: self-contained, or
\* naming a response of an account that is looked up.
Whole == [anchored |-> FALSE, injected |-> FALSE, safe |-> TRUE, owner |-> none]
Anchored == [anchored |-> TRUE, injected |-> FALSE, safe |-> FALSE, owner |-> none]
Continuity == {(r1 :> Whole) @@ (r2 :> Anchored)}

Http == INSTANCE HttpBridge WITH
    Requests <- ThreeRequests, Keys <- TwoKeys, NoKey <- none,
    None <- none, InitialKey <- KeyOf, PreviousOf <- Follows,
    ForkKey <- LaneOf, Rebinders <- Rebinder, HardKeys <- HardKey,
    MaxSessions <- 1, Leavers <- Leaver, Fickle <- {}, MayShutdown <- FALSE

MCInit ==
    /\ part \in {"rows", "http", "relay"}
    /\ Init
    /\ Http!Init
    /\ RelayInit /\ (part # "relay" => w.numbered)

MCNext ==
    \/ part = "rows" /\ Next /\ UNCHANGED <<part, httpVars, w>>
    \/ part = "http" /\ Http!Next /\ UNCHANGED <<part, vars, w>>
    \/ part = "relay" /\ RelayNext /\ UNCHANGED <<part, vars, httpVars>>

mcVars == <<part, vars, httpVars, w>>

MCSpec == MCInit /\ [][MCNext]_mcVars

\* Type correctness of the component that runs: rows that existed, markers whose
\* creation is pending, and exactness of the gate of a client WebSocket.
TypesOK == CASE part = "rows" -> BridgeTypeOK
             [] part = "http" -> Http!HttpBridgeTypeOK
             [] part = "relay" -> RelayTypeOK

\* The registry keeps within its capacity, but for sessions in use.
CapacityKept == part = "http" => Http!CapacityKept

=============================================================================
