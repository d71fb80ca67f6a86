----------------------------- MODULE MCRecovery ------------------------------
(***************************************************************************)
(* How a replica gets back to work, side by side: the circuit breaker, the *)
(* account leases and the leader election touch none of each other's state, *)
(* so a behaviour picks one of them and runs it fairly, and the others stay *)
(* in their initial states.                                                *)
(***************************************************************************)
EXTENDS CircuitBreaker, TLC

CONSTANTS c1, c2, c3, r1, r2, a1, p1, p2, s1, none

VARIABLES part, runtime, leaseAge, listed, share, req, row, phase, isLeader,
    lease, task, detached, orphan, keeper, drain

leasesVars == <<runtime, leaseAge, listed, share, req>>
leaderVars == <<row, phase, isLeader, lease, task, detached, orphan, keeper,
    drain>>

TwoRequests == {r1, r2}
OneShare == {("response_create" :> 1) @@ ("stream" :> 2)}
PlainAndSticky == {<<"stream", "plain">>, <<"stream", "sticky">>}

Leases == INSTANCE AccountLeases WITH
    Requests <- TwoRequests, Accounts <- {a1}, NoAccount <- none,
    Fragile <- {r1}, Removable <- {}, Workload <- PlainAndSticky,
    Shares <- OneShare, RecoveryReserve <- 1, LeaseTtl <- 1,
    StreamBudget <- 2, StreamGrace <- 0, MaxSelectionAttempts <- 2,
    age <- leaseAge

Leader == INSTANCE LeaderElection WITH
    Processes <- {p1, p2}, NoProcess <- none, Schedulers <- {s1}, Ttl <- 2,
    MaxTransit <- 0, CancelGrace <- 1, DrainGrace <- 1, MaxErrors <- 1,
    Faulty <- {p1, p2}, Mortal <- {p1}

MCInit ==
    /\ part \in {"breaker", "leases", "leader"}
    /\ Init
    /\ Leases!Init
    /\ Leader!Init

MCNext ==
    \/ part = "breaker" /\ Next /\ UNCHANGED <<part, leasesVars, leaderVars>>
    \/ part = "leases" /\ Leases!Next /\ UNCHANGED <<part, vars, leaderVars>>
    \/ part = "leader" /\ Leader!Next /\ UNCHANGED <<part, vars, leasesVars>>

mcVars == <<part, vars, leasesVars, leaderVars>>

(* Fairness of the component that runs. *)
Request(i) == <<r1, r2>>[i]
Process(i) == <<p1, p2>>[i]
Call(i) == <<c1, c2, c3>>[i]

BreakerStep(i) == \/ i = 1 /\ Tick
                  \/ i \in 2..4 /\ StreamCloses(Call(i - 1))

LeasesStep(i) ==
    \/ i = 1 /\ Leases!Tick
    \/ i \in 2..3 /\ Leases!RequestStep(Request(i - 1))
    \/ i \in 4..5 /\ Leases!Release(Request(i - 3))
    \/ /\ i \in 6..7
       /\ \E class \in Leases!Classes, mode \in Leases!Modes :
             Leases!Begin(Request(i - 5), class, mode)

LeaderStep(i) ==
    \/ i \in 1..2 /\ Leader!KeeperRenews(Process(i))
    \/ i \in 3..4 /\ Leader!BeginRelease(Process(i - 2))
    \/ i \in 5..6 /\ Leader!Release(Process(i - 4))
    \/ i \in 7..8 /\ Leader!TryAcquire(Process(i - 6), s1)
    \/ /\ i \in 9..10
       /\ LET p == Process(i - 8) IN Leader!Receive(p, s1) \/ Leader!Committed(p, s1)
    \/ /\ i \in 11..12
       /\ LET p == Process(i - 10)
          IN  Leader!Wake(p, s1) \/ Leader!RenewTimesOut(p, s1) \/ Leader!GraceOver(p, s1)
    \/ i \in 13..14 /\ Leader!StopScheduler(Process(i - 12), s1)

BreakerTry(i) == \/ i \in 1..3 /\ PreCallCheck(Call(i))
                 \/ i \in 4..6 /\ CallSucceeds(Call(i - 3))

LeasesTry(i) ==
    \/ i \in 1..2 /\ Leases!LoadInputs(Request(i))
    \/ /\ i \in 3..4
       /\ LET r == Request(i - 2) IN Leases!SelectPlain(r) \/ Leases!StickyBuild(r)

LeaderTry(i) == \/ i = 1 /\ Leader!Tick
                \/ i \in 2..3 /\ Leader!Execute(Process(i - 1), s1)

\* The state of the component that runs.
running == CASE part = "breaker" -> vars
             [] part = "leases" -> leasesVars
             [] part = "leader" -> leaderVars

\* The i-th of the steps the component that runs takes weakly fairly.  The
\* component never changes, so each of the conditions is about one step.
FairStep(i) ==
    /\ part' = part
    /\ \/ part = "breaker" /\ BreakerStep(i)
       \/ part = "leases" /\ LeasesStep(i)
       \/ part = "leader" /\ LeaderStep(i)

\* And of those it takes strongly fairly.
FairTry(i) ==
    /\ part' = part
    /\ \/ part = "breaker" /\ BreakerTry(i)
       \/ part = "leases" /\ LeasesTry(i)
       \/ part = "leader" /\ LeaderTry(i)

MCFairness == /\ \A i \in 1..14 : WF_running(FairStep(i))
              /\ \A i \in 1..6 : SF_running(FairTry(i))

MCSpec == MCInit /\ [][MCNext]_mcVars /\ MCFairness

\* A selection ends with an account or a refusal, and the lease of a vanished
\* task is reclaimed while requests arrive.
SelectionsEnd == Leases!SelectionEnds /\ Leases!OrphanReclaimed

\* A leadership left behind by a dead process passes on, and a shutdown gets
\* past its own.
LeadershipMovesOn == Leader!FailoverHappens /\ Leader!ShutdownEnds

=============================================================================
