----------------------------- MODULE MCRequests ------------------------------
(***************************************************************************)
(* The paths a request takes through a replica, side by side: the leases it *)
(* takes on accounts, a retried stream, the turns of a bridge session, and *)
(* the runs of automations.  They touch none of each                       *)
(* other's state, so a behaviour picks one of them and runs it, and the    *)
(* others stay in their initial states.                                    *)
(***************************************************************************)
EXTENDS MCAccountLeases, StreamRetry

CONSTANTS q1, q2, w1, w2, warmup

VARIABLES part, b, losses, auths, warmBridge,
    warmLosses, warmAuths, trigger, eligible, cycle, due, run, task, hangs,
    crashes, flips

turnsVars == <<b, losses, auths>>
warmVars == <<warmBridge, warmLosses, warmAuths>>
automationVars == <<trigger, eligible, cycle, due, run, task, hangs, crashes,
    flips>>

TwoRequests == {q1, q2}
Workers == {w1, w2}
JobAccounts == {1, 2}
TurnErrors == {"plain", "account", "auth", "security"}

Turns == INSTANCE BridgeTurns WITH
    Requests <- TwoRequests, Warmup <- warmup, None <- NoAccount,
    Anchored <- {q2}, Warmers <- {}, Leavers <- {}, QueueLimit <- 2,
    ErrorKinds <- TurnErrors, MaxNaps <- 1, MaxLosses <- 1, MaxAuth <- 1

Warm == INSTANCE BridgeTurns WITH
    Requests <- TwoRequests, Warmup <- warmup, None <- NoAccount,
    Anchored <- {q2}, Warmers <- {q1}, Leavers <- {}, QueueLimit <- 2,
    ErrorKinds <- TurnErrors, MaxNaps <- 0, MaxLosses <- 1, MaxAuth <- 0,
    b <- warmBridge, losses <- warmLosses, auths <- warmAuths

Automation == INSTANCE Automations WITH
    Accounts <- JobAccounts, Workers <- Workers, Threshold <- 1, Budget <- 2,
    Slack <- 1, LeadersOverlap <- TRUE, MaxHangs <- 1, MaxCrashes <- 1,
    MaxFlips <- 1

MCInit ==
    /\ part \in {"leases", "stream", "turns", "prewarm", "automations"}
    /\ Init /\ (part # "leases" => share = Caps(1, 1))
    /\ StreamInit /\ (part # "stream" => asked = CHOOSE q \in Asked : TRUE)
    /\ Turns!Init
    /\ Warm!Init
    /\ Automation!Init /\ (part # "automations" => trigger = "manual" /\ eligible = {})

MCNext ==
    \/ /\ part = "leases" /\ Next
       /\ UNCHANGED <<part, streamVars, turnsVars, warmVars, automationVars>>
    \/ /\ part = "stream" /\ StreamNext
       /\ UNCHANGED <<part, vars, turnsVars, warmVars, automationVars>>
    \/ /\ part = "turns" /\ Turns!Next
       /\ UNCHANGED <<part, vars, streamVars, warmVars, automationVars>>
    \/ /\ part = "prewarm" /\ Warm!Next
       /\ UNCHANGED <<part, vars, streamVars, turnsVars, automationVars>>
    \/ /\ part = "automations" /\ Automation!Next
       /\ UNCHANGED <<part, vars, streamVars, turnsVars, warmVars>>

mcVars == <<part, vars, streamVars, turnsVars, warmVars, automationVars>>

MCSpec == MCInit /\ [][MCNext]_mcVars

\* Type correctness of leases, streams, turns and automations, and exactness of
\* the gate of a bridge session, without and with a prewarm turn.
TypesOK == CASE part = "leases" -> TypeOK
             [] part = "stream" -> StreamTypeOK
             [] part = "turns" -> Turns!TurnsTypeOK
             [] part = "prewarm" -> Warm!TurnsTypeOK
             [] part = "automations" -> Automation!AutomationTypeOK

\* A turn the client saw output of is not sent upstream again.
NoResendAfterOutput == Turns!NoResendAfterOutput /\ Warm!NoResendAfterOutput

=============================================================================
