--------------------------- MODULE CircuitBreaker ---------------------------
(***************************************************************************)
(* The per-account circuit breaker (core/resilience/circuit_breaker.py)    *)
(* and the three ways the upstream client drives it                        *)
(* (core/clients/proxy.py): a gated call or HTTP context, a gated          *)
(* websocket stream that keeps a half-open probe until it is closed, and a *)
(* routed websocket stream, which is never gated but reports its result.   *)
(*                                                                         *)
(* The breaker's lock is never held across a suspension point, so          *)
(* pre_call_check, a recording and a release are each one atomic step, and *)
(* a recording that is followed at once by the release of the probe is one *)
(* step too.                                                               *)
(***************************************************************************)
EXTENDS Naturals, FiniteSets

CONSTANTS
    Calls,             \* concurrent upstream calls on one account
    FailureThreshold,  \* circuit_breaker_failure_threshold
    SuccessThreshold,  \* success_threshold
    RecoveryTimeout,   \* circuit_breaker_recovery_timeout_seconds, in ticks
    MaxFailures        \* bound: failures are not recorded beyond this count

ASSUME BreakerAssumption ==
    /\ FailureThreshold \in Nat \ {0}
    /\ SuccessThreshold \in Nat \ {0}
    /\ RecoveryTimeout \in Nat \ {0}
    /\ MaxFailures \in Nat

VARIABLES
    state,     \* _state; HALF_OPEN is derived, never stored
    failures,  \* _failure_count
    successes, \* _success_count
    age,       \* time since _last_failure_time, saturating at RecoveryTimeout
    probe,     \* _half_open_probe_in_flight
    call       \* where each upstream call stands

vars == <<state, failures, successes, age, probe, call>>

\* A call is "plain" or a "probe" until its result is recorded; a websocket
\* stream that recorded its terminal event stays "settled" until it is closed.
CallStates == {"idle", "plain", "probe", "settled", "settledProbe"}
Pending == {"plain", "probe"}
Settled == {"settled", "settledProbe"}
Probing == {"probe", "settledProbe"}

\* Type correctness of the breaker's fields: OPEN and CLOSED are the only
\* states stored, and the two counters never go below zero.
TypeOK ==
    /\ state \in {"CLOSED", "OPEN"}
    /\ failures \in Nat
    /\ successes \in Nat
    /\ age \in 0..RecoveryTimeout
    /\ probe \in BOOLEAN
    /\ call \in [Calls -> CallStates]

Init ==
    /\ state = "CLOSED"
    /\ failures = 0
    /\ successes = 0
    /\ age = RecoveryTimeout
    /\ probe = FALSE
    /\ call = [c \in Calls |-> "idle"]

\* The state property: OPEN turns into HALF_OPEN by the passing of time alone.
CurrentState ==
    IF state = "OPEN" /\ age >= RecoveryTimeout THEN "HALF_OPEN" ELSE state

PreCallCheckIgnoringProbe(c) ==
    /\ call[c] = "idle"
    /\ CurrentState # "OPEN"
    /\ probe' = (probe \/ CurrentState = "HALF_OPEN")
    /\ call' = [call EXCEPT ![c] = IF CurrentState = "HALF_OPEN" THEN "probe" ELSE "plain"]
    /\ UNCHANGED <<state, failures, successes, age>>

PreCallCheck(c) ==
    /\ call[c] = "idle"
    /\ \/ /\ CurrentState = "HALF_OPEN"
          /\ ~probe
          /\ probe' = TRUE
          /\ call' = [call EXCEPT ![c] = "probe"]
       \/ /\ CurrentState = "CLOSED"
          /\ call' = [call EXCEPT ![c] = "plain"]
          /\ UNCHANGED probe
    /\ UNCHANGED <<state, failures, successes, age>>

\* A stream over a configured route opens without asking the breaker.
RoutedStart(c) ==
    /\ call[c] = "idle"
    /\ call' = [call EXCEPT ![c] = "plain"]
    /\ UNCHANGED <<state, failures, successes, age, probe>>

RecordSuccessKeepingFailures ==
    \/ /\ CurrentState = "HALF_OPEN"
       /\ successes' = IF successes + 1 >= SuccessThreshold THEN 0 ELSE successes + 1
       /\ state' = IF successes + 1 >= SuccessThreshold THEN "CLOSED" ELSE state
       /\ UNCHANGED failures
    \/ /\ CurrentState = "CLOSED"
       /\ failures' = 0
       /\ UNCHANGED <<state, successes>>
    \/ /\ CurrentState = "OPEN"
       /\ UNCHANGED <<state, failures, successes>>

RecordSuccess ==
    \/ /\ CurrentState = "HALF_OPEN"
       /\ IF successes + 1 >= SuccessThreshold
          THEN /\ state' = "CLOSED"
               /\ failures' = 0
               /\ successes' = 0
          ELSE /\ successes' = successes + 1
               /\ UNCHANGED <<state, failures>>
    \/ /\ CurrentState = "CLOSED"
       /\ failures' = 0
       /\ UNCHANGED <<state, successes>>
    \/ /\ CurrentState = "OPEN"
       /\ UNCHANGED <<state, failures, successes>>

RecordFailure ==
    /\ failures' = failures + 1
    /\ age' = 0
    /\ successes' = 0
    /\ state' = IF failures + 1 >= FailureThreshold THEN "OPEN" ELSE state

\* The call ends; a call that holds the half-open probe gives it back.
FinishLeakingProbe(c) ==
    /\ call' = [call EXCEPT ![c] = "idle"]
    /\ probe' = IF call[c] = "probe" THEN FALSE ELSE probe

Finish(c) ==
    /\ call' = [call EXCEPT ![c] = "idle"]
    /\ probe' = IF call[c] \in Probing THEN FALSE ELSE probe

CallSucceeds(c) ==
    /\ call[c] \in Pending
    /\ RecordSuccess
    /\ Finish(c)
    /\ UNCHANGED age

CallFails(c) ==
    /\ call[c] \in Pending
    /\ failures < MaxFailures
    /\ RecordFailure
    /\ Finish(c)

\* A client error, a cancellation or the loss of the host's own network: the
\* call says nothing about the account, but a probe is still given back.
CallNeutral(c) ==
    /\ call[c] \in Pending
    /\ Finish(c)
    /\ UNCHANGED <<state, failures, successes, age>>

\* A websocket stream records success at its terminal event, before it closes.
StreamTerminalEvent(c) ==
    /\ call[c] \in Pending
    /\ RecordSuccess
    /\ call' = [call EXCEPT ![c] = IF @ = "probe" THEN "settledProbe" ELSE "settled"]
    /\ UNCHANGED <<age, probe>>

StreamCloses(c) ==
    /\ call[c] \in Settled
    /\ Finish(c)
    /\ UNCHANGED <<state, failures, successes, age>>

Tick ==
    /\ age < RecoveryTimeout
    /\ age' = age + 1
    /\ UNCHANGED <<state, failures, successes, probe, call>>

Next ==
    \/ \E c \in Calls :
        \/ PreCallCheck(c)
        \/ RoutedStart(c)
        \/ CallSucceeds(c)
        \/ CallFails(c)
        \/ CallNeutral(c)
        \/ StreamTerminalEvent(c)
        \/ StreamCloses(c)
    \/ Tick

\* Time passes, requests keep arriving at the gate, the upstream answers often
\* enough, and a stream that saw its terminal event is closed by its finally
\* block.
Fairness ==
    /\ WF_vars(Tick)
    /\ \A c \in Calls :
        /\ SF_vars(PreCallCheck(c))
        /\ SF_vars(CallSucceeds(c))
        /\ WF_vars(StreamCloses(c))

Spec == Init /\ [][Next]_vars

FairSpec == Spec /\ Fairness

-----------------------------------------------------------------------------
(* Properties *)

\* At any time at most one upstream call runs as the half-open probe, and the
\* _half_open_probe_in_flight flag is up exactly while that call runs: no path
\* (cancellation, late result, websocket close) lets a second probe in or
\* leaves the flag behind.
ProbeExclusive ==
    /\ \A c, d \in Calls : call[c] \in Probing /\ call[d] \in Probing => c = d
    /\ probe <=> \E c \in Calls : call[c] \in Probing

\* The breaker is open exactly while its failure count is at the threshold:
\* whatever late results of calls admitted earlier are recorded, one more
\* failure in HALF_OPEN reopens it at once, and closing it forgets the count.
OpenIffThreshold ==
    state = "OPEN" <=> failures >= FailureThreshold

\* Progress towards closing (_success_count) is only ever kept while the
\* breaker is open, and never reaches the threshold: a success streak of an
\* earlier outage is not carried over into the next half-open period.
StreakOnlyWhileOpen ==
    /\ successes < SuccessThreshold
    /\ state = "CLOSED" => successes = 0

\* An account is not shut off for good: if from some point on no call fails,
\* the breaker is closed again and again (no leaked probe blocks recovery).
RecoversWhenUpstreamHealthy ==
    <>[][\A c \in Calls : ~CallFails(c)]_vars => []<>(state = "CLOSED")

=============================================================================
