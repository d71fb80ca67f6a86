------------------------------ MODULE MCSettle -------------------------------
(***************************************************************************)
(* What the replicas agree on in the end, side by side: the runs of an     *)
(* automation, the rows of the durable bridge, the cached routing state and *)
(* the shares of the caps touch none of each other's state, so a behaviour *)
(* picks one of them and runs it fairly, and the others stay in their initial *)
(* states.                                                                 *)
(***************************************************************************)
EXTENDS Automations, TLC

CONSTANTS i1, i2, s1, s2, a1, none

VARIABLES part, bridgeRow, rows, alias, session, creator, draining, marking,
    purging, kind, written, bumpedAt, cachePhase, cacheRows, known, primed,
    seeded, pending, cached, mark, refresh, reader, writer, cacheFaults,
    cacheLosses, ringRow, ringPhase, adopted, pendingShare, since, caps,
    ringFaults, stops, capEdits

bridgeVars == <<bridgeRow, rows, alias, session, creator, draining, marking,
    purging>>
cacheVars == <<kind, written, bumpedAt, cachePhase, cacheRows, known, primed,
    seeded, pending, cached, mark, refresh, reader, writer, cacheFaults,
    cacheLosses>>
capsVars == <<ringRow, ringPhase, adopted, pendingShare, since, caps,
    ringFaults, stops, capEdits>>

TwoInstances == {i1, i2}
TwoSessions == {s1, s2}
ThreeReplicas == {1, 2, 3}
SessionHome == (s1 :> i1) @@ (s2 :> i2)

Bridge == INSTANCE DurableBridge WITH
    Instances <- TwoInstances, NoInstance <- none, NoSession <- none,
    Sessions <- TwoSessions, Home <- SessionHome, AccountIds <- {a1},
    NoAccount <- none, Aliases <- {}, Ttl <- 1, IdleTtl <- 1, ClosedAge <- 1,
    AbandonedAge <- 1, Drainers <- {}, Mortal <- {}, MaxEpoch <- 2,
    MaxRows <- 1, row <- bridgeRow

Cache == INSTANCE CacheInvalidation WITH
    Nodes <- TwoInstances, Kinds <- {"account_routing"}, Nothing <- none,
    MaxWrites <- 1, MaxFaults <- 0, MaxLosses <- 0, PrimeMayFail <- TRUE,
    phase <- cachePhase, rows <- cacheRows, faults <- cacheFaults,
    losses <- cacheLosses

Caps == INSTANCE CapPartition WITH
    Replicas <- ThreeReplicas, StartupCaps <- {2, 3},
    DashboardCaps <- {{2, 5}}, StaleAfter <- 3, MarkedAge <- 1, Window <- 3,
    SettingsMayFail <- TRUE, MaxFaults <- 1, MaxStops <- 1, MaxEdits <- 0,
    row <- ringRow, phase <- ringPhase, pending <- pendingShare,
    faults <- ringFaults, edits <- capEdits

MCInit ==
    /\ part \in {"automations", "rows", "cache", "caps"}
    /\ Init /\ (part # "automations" => trigger = "manual" /\ eligible = {})
    /\ Bridge!Init
    /\ Cache!CacheInit
    /\ Caps!Init

MCNext ==
    \/ /\ part = "automations" /\ Next
       /\ UNCHANGED <<part, bridgeVars, cacheVars, capsVars>>
    \/ /\ part = "rows" /\ Bridge!Next
       /\ UNCHANGED <<part, vars, cacheVars, capsVars>>
    \/ /\ part = "cache" /\ Cache!CacheNext
       /\ UNCHANGED <<part, vars, bridgeVars, capsVars>>
    \/ /\ part = "caps" /\ Caps!Next
       /\ UNCHANGED <<part, vars, bridgeVars, cacheVars>>

mcVars == <<part, vars, bridgeVars, cacheVars, capsVars>>

(* Fairness of the component that runs. *)
AutomationStep(i) == \/ i = 1 /\ CreateScheduled
                     \/ i = 2 /\ \E w \in TwoInstances : Begin(w)
                     \/ i \in 3..4 /\ Step(<<i1, i2>>[i - 2])

BridgeStep(i) == \/ i = 1 /\ Bridge!Tick
                 \/ i \in 2..3 /\ Bridge!Reconcile(<<s1, s2>>[i - 1])
                 \/ /\ i \in 4..5
                    /\ LET s == <<s1, s2>>[i - 3] IN Bridge!Release(s) \/ Bridge!ReleaseFails(s)

CacheStep(i) == \/ i \in 1..2 /\ Cache!Task(<<i1, i2>>[i])
                \/ i \in 3..4 /\ Cache!Mutation(<<i1, i2>>[i - 2])
                \/ /\ i \in 5..6
                   /\ LET r == <<i1, i2>>[i - 4] IN Cache!ReadRow(r) \/ Cache!Fill(r)

CapsStep(i) == \/ i \in 1..3 /\ Caps!Register(i)
               \/ i \in 4..6 /\ Caps!Heartbeat(i - 3)
               \/ i \in 7..9 /\ Caps!RefreshCapPartition(i - 6)
               \/ i = 10 /\ Caps!Tick

\* The state of the component that runs.
running == CASE part = "automations" -> vars
             [] part = "rows" -> bridgeVars
             [] part = "cache" -> cacheVars
             [] part = "caps" -> capsVars

\* The i-th of the steps the component that runs takes weakly fairly.  The
\* component never changes, so each of the conditions is about one step.
FairStep(i) ==
    /\ part' = part
    /\ \/ part = "automations" /\ AutomationStep(i)
       \/ part = "rows" /\ BridgeStep(i)
       \/ part = "cache" /\ CacheStep(i)
       \/ part = "caps" /\ CapsStep(i)

MCFairness == /\ \A i \in 1..10 : WF_running(FairStep(i))
              /\ SF_vars(part = "automations" /\ Tick)

MCSpec == MCInit /\ [][MCNext]_mcVars /\ MCFairness

\* A session another owner or epoch has fenced out is closed.
FencedOutEvicted == Bridge!FencedOutEvicted

\* Every replica comes to serve what was committed last.
Converges == Cache!Converges

\* The shares of the running replicas add up to the caps in the end.
SharesSettle == Caps!SharesSettle

=============================================================================
