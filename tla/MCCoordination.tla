--------------------------- MODULE MCCoordination ----------------------------
(***************************************************************************)
(* What replicas coordinate through the database and within themselves, side *)
(* by side: the redemption of reset credits, cache invalidation, API key   *)
(* reservations and the shares of the caps touch none of each other's      *)
(* state, so a behaviour picks one of them and runs it, and the others stay *)
(* in their initial states.                                                *)
(***************************************************************************)
EXTENDS RedeemCoordination, CacheInvalidation, TLC

CONSTANTS p1, p2, p3, id, i1, i2, r1, r2, l1, l2

VARIABLES part, limit, valid, status, items, stale, requestPc, seen, used,
    batch, edit, carried, usageFaults, edits, ringRow, ringPhase, adopted,
    pendingShare, since, caps, ringFaults, stops, capEdits

reservationsVars == <<limit, valid, status, items, stale, requestPc, seen,
    used, batch, edit, carried, usageFaults, edits>>
capsVars == <<ringRow, ringPhase, adopted, pendingShare, since, caps,
    ringFaults, stops, capEdits>>

TwoInstances == {i1, i2}

\* Two attempts with one id, from either replica, and one without an id.
AttemptHome == (p1 :> i1) @@ (p2 :> i2) @@ (p3 :> i2)
AttemptId == (p1 :> id) @@ (p2 :> id) @@ (p3 :> None)
AttemptCredit == (p1 :> None) @@ (p2 :> None) @@ (p3 :> 1)

CacheKinds == {"api_key", "account_selection", "account_routing", "reset_credits"}

\* A request under both limits and one under the first only.
TwoRequests == {r1, r2}
TwoLimits == {l1, l2}
LimitsOf == (r1 :> TwoLimits) @@ (r2 :> {l1})
BudgetOf == (r1 :> 2) @@ (r2 :> 2)

Reservations == INSTANCE ApiKeyReservations WITH
    Requests <- TwoRequests, Limits <- TwoLimits, Applies <- LimitsOf,
    Budget <- BudgetOf, Usage <- {1}, MaxValues <- {3}, MaxWindows <- 1,
    MaxFaults <- 0, MaxEdits <- 1, pc <- requestPc,
    faults <- usageFaults

Caps == INSTANCE CapPartition WITH
    Replicas <- {1, 2}, StartupCaps <- {2, 3}, DashboardCaps <- {{2, 5}},
    StaleAfter <- 3, MarkedAge <- 1, Window <- 3, SettingsMayFail <- FALSE,
    MaxFaults <- 4, MaxStops <- 2, MaxEdits <- 1, row <- ringRow,
    phase <- ringPhase, pending <- pendingShare, faults <- ringFaults,
    edits <- capEdits

MCInit ==
    /\ part \in {"redeem", "cache", "reservations", "caps"}
    /\ Init
    /\ CacheInit /\ (part # "cache" => kind = "api_key")
    /\ Reservations!Init
    /\ Caps!Init

MCNext ==
    \/ /\ part = "redeem" /\ Next
       /\ UNCHANGED <<part, cacheVars, reservationsVars, capsVars>>
    \/ /\ part = "cache" /\ CacheNext
       /\ UNCHANGED <<part, vars, reservationsVars, capsVars>>
    \/ /\ part = "reservations" /\ Reservations!Next
       /\ UNCHANGED <<part, vars, cacheVars, capsVars>>
    \/ /\ part = "caps" /\ Caps!Next
       /\ UNCHANGED <<part, vars, cacheVars, reservationsVars>>

mcVars == <<part, vars, cacheVars, reservationsVars, capsVars>>

MCSpec == MCInit /\ [][MCNext]_mcVars

\* Type correctness of the component that runs.
TypesOK == CASE part = "redeem" -> RedeemTypeOK
             [] part = "cache" -> CacheTypeOK
             [] part = "reservations" -> Reservations!ReservationTypeOK
             [] part = "caps" -> Caps!CapTypeOK

\* A limit counts every reservation and every settled use once.
CountedOnce == part = "reservations" => Reservations!CountedOnce

\* A reservation is granted only within the limit as it is then.
NeverOverAdmits == Reservations!NeverOverAdmits

=============================================================================
