---------------------------- MODULE MCRequestsEnd ----------------------------
(***************************************************************************)
(* What a request waits for ends, side by side: a token refresh, a lookup in *)
(* the HTTP bridge, a turn of a bridge session and an API key reservation  *)
(* touch none of each other's state, so a behaviour picks one of them and  *)
(* runs it fairly, and the others stay in their initial states.            *)
(***************************************************************************)
EXTENDS MCTokenRefresh

CONSTANTS r1, r2, a1, k1, k2, warmup, none

VARIABLES part, bridge, future, key, pc, at, evicted, lease, retire, active,
    down, b, losses, auths, limit, valid, status, items, stale, requestPc,
    seen, usedTokens, batch, edit, carried, faults, edits

httpVars == <<bridge, future, key, pc, at, evicted, lease, retire, active,
    down>>
turnsVars == <<b, losses, auths>>
reservationsVars == <<limit, valid, status, items, stale, requestPc, seen,
    usedTokens, batch, edit, carried, faults, edits>>

TwoRequests == {r1, r2}
KeyOf == (r1 :> k1) @@ (r2 :> k2)
Follows == (r1 :> none) @@ (r2 :> r1)
NoLane == (r1 :> none) @@ (r2 :> none)
LimitsOf == (r1 :> {a1}) @@ (r2 :> {a1})
BudgetOf == (r1 :> 2) @@ (r2 :> 2)
TurnErrors == {"plain", "account", "auth"}

Http == INSTANCE HttpBridge WITH
    Requests <- TwoRequests, Keys <- {k1, k2}, NoKey <- none, None <- none,
    InitialKey <- KeyOf, PreviousOf <- Follows, ForkKey <- NoLane,
    Rebinders <- {}, HardKeys <- {k1}, MaxSessions <- 1, Leavers <- {r1},
    Fickle <- {r1}, MayShutdown <- TRUE

Turns == INSTANCE BridgeTurns WITH
    Requests <- TwoRequests, Warmup <- warmup, None <- none, Anchored <- {},
    Warmers <- {}, Leavers <- {r1}, QueueLimit <- 2, ErrorKinds <- TurnErrors,
    MaxNaps <- 0, MaxLosses <- 1, MaxAuth <- 0

Reservations == INSTANCE ApiKeyReservations WITH
    Requests <- TwoRequests, Limits <- {a1}, Applies <- LimitsOf,
    Budget <- BudgetOf, Usage <- {1}, MaxValues <- {3}, MaxWindows <- 0,
    MaxFaults <- 2, MaxEdits <- 0, pc <- requestPc, used <- usedTokens

MCInit ==
    /\ part \in {"refresh", "http", "turns", "reservations"}
    /\ Init
    /\ Http!Init
    /\ Turns!Init
    /\ Reservations!Init

MCNext ==
    \/ /\ part = "refresh" /\ Next
       /\ UNCHANGED <<part, httpVars, turnsVars, reservationsVars>>
    \/ /\ part = "http" /\ Http!Next
       /\ UNCHANGED <<part, vars, turnsVars, reservationsVars>>
    \/ /\ part = "turns" /\ Turns!Next
       /\ UNCHANGED <<part, vars, httpVars, reservationsVars>>
    \/ /\ part = "reservations" /\ Reservations!Next
       /\ UNCHANGED <<part, vars, httpVars, turnsVars>>

mcVars == <<part, vars, httpVars, turnsVars, reservationsVars>>

(* Fairness of the component that runs. *)
RefreshStep(i) == \/ i = 1 /\ Tick
                  \/ i \in 2..4 /\ TaskStep(<<p1, i - 1>>)

HttpStep(i) == \/ i \in 1..2 /\ Http!Progress(<<r1, r2>>[i])
               \/ i \in 3..4 /\ Http!Ends(<<r1, r2>>[i - 2])

TurnsStep(i) == \/ i \in 1..2 /\ Turns!Step(<<r1, r2>>[i])
                \/ i = 3 /\ Turns!ReaderStops
                \/ i = 4 /\ Turns!ReplayEnds

ReservationStep(i) ==
    \/ i = 1 /\ Reservations!Sweep
    \/ i \in 2..3 /\ Reservations!Request(<<r1, r2>>[i - 1])
    \/ /\ i \in 4..5
       /\ LET r == <<r1, r2>>[i - 3] IN requestPc[r] # "streaming" /\ Reservations!Ages(r)

\* The state of the component that runs.
running == CASE part = "refresh" -> vars
             [] part = "http" -> httpVars
             [] part = "turns" -> turnsVars
             [] part = "reservations" -> reservationsVars

\* The i-th of the steps the component that runs takes weakly fairly.  The
\* component never changes, so each of the conditions is about one step.
FairStep(i) ==
    /\ part' = part
    /\ \/ part = "refresh" /\ RefreshStep(i)
       \/ part = "http" /\ HttpStep(i)
       \/ part = "turns" /\ TurnsStep(i)
       \/ part = "reservations" /\ ReservationStep(i)

MCFairness == \A i \in 1..5 : WF_running(FairStep(i))

MCSpec == MCInit /\ [][MCNext]_mcVars /\ MCFairness

\* Every request that looks up a bridge session ends.
RequestEnds == part = "http" => Http!RequestEnds

\* A turn that waits for the gate ends.
TurnEnds == Turns!TurnEnds

\* A reservation is finalized or released.
ReservationEnds == Reservations!ReservationEnds

=============================================================================
