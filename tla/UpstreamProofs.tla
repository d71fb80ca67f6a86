---------------------------- MODULE UpstreamProofs ----------------------------
(***************************************************************************)
(* How a replica calls upstream.                                           *)
(*                                                                         *)
(* CircuitBreaker: its safety, for any number of concurrent calls and any  *)
(* thresholds.  The invariants are inductive together with the type        *)
(* invariant, so IInv is simply their conjunction.                         *)
(*                                                                         *)
(* StreamRetry: a streamed request leaves no slot behind, is settled and   *)
(* ended once, streams on an account it may use and sends nothing again    *)
(* once the client has seen a line: for any number of accounts and any     *)
(* limits on attempts, retries and waits.                                  *)
(***************************************************************************)
EXTENDS CircuitBreaker, StreamRetry, TLAPS

\* The inductive invariant of the breaker.
IInv ==
    /\ TypeOK
    /\ ProbeExclusive
    /\ OpenIffThreshold
    /\ StreakOnlyWhileOpen

\* A freshly built breaker (CircuitBreaker.__init__) satisfies the invariant.
LEMMA InitInv == Init => IInv
  <1> SUFFICES ASSUME Init PROVE IInv
    OBVIOUS
  <1>1. TypeOK
    <2>1. call \in [Calls -> CallStates]
      BY DEF Init, CallStates
    <2>2. age \in 0..RecoveryTimeout
      BY BreakerAssumption DEF Init
    <2> QED BY <2>1, <2>2 DEF Init, TypeOK
  <1>4. OpenIffThreshold
    BY BreakerAssumption DEF Init, OpenIffThreshold
  <1>5. StreakOnlyWhileOpen
    BY BreakerAssumption DEF Init, StreakOnlyWhileOpen
  <1>2. probe = FALSE /\ \A c \in Calls : call[c] \notin Probing
    BY DEF Init, Probing
  <1>3. ProbeExclusive
    BY <1>2 DEF ProbeExclusive
  <1> QED BY <1>1, <1>3, <1>4, <1>5 DEF IInv

\* Recording a success keeps the counters in range and keeps the count and
\* the state of the breaker in step (_record_success).
LEMMA RecordSuccessKeeps ==
  ASSUME IInv, RecordSuccess
  PROVE  /\ state' \in {"CLOSED", "OPEN"} /\ failures' \in Nat /\ successes' \in Nat
         /\ OpenIffThreshold' /\ StreakOnlyWhileOpen'
  BY BreakerAssumption
  DEF IInv, TypeOK, RecordSuccess, CurrentState, OpenIffThreshold, StreakOnlyWhileOpen

\* The same for a recorded server failure (_record_failure).
LEMMA RecordFailureKeeps ==
  ASSUME IInv, RecordFailure
  PROVE  /\ state' \in {"CLOSED", "OPEN"} /\ failures' \in Nat /\ successes' \in Nat
         /\ age' \in 0..RecoveryTimeout
         /\ OpenIffThreshold' /\ StreakOnlyWhileOpen'
  BY BreakerAssumption
  DEF IInv, TypeOK, RecordFailure, OpenIffThreshold, StreakOnlyWhileOpen

\* Ending a call releases the probe exactly when that call held it
\* (the finally blocks around release_half_open_probe).
LEMMA FinishKeeps ==
  ASSUME IInv, NEW c \in Calls, Finish(c)
  PROVE  probe' \in BOOLEAN /\ call' \in [Calls -> CallStates] /\ ProbeExclusive'
  <1>1. /\ call \in [Calls -> CallStates] /\ probe \in BOOLEAN
        /\ call' = [call EXCEPT ![c] = "idle"]
        /\ probe' = IF call[c] \in Probing THEN FALSE ELSE probe
    BY DEF IInv, TypeOK, Finish
  <1>2. /\ call' \in [Calls -> CallStates]
        /\ \A d \in Calls : call'[d] = IF d = c THEN "idle" ELSE call[d]
    BY <1>1 DEF CallStates
  <1>3. probe' \in BOOLEAN
    BY <1>1
  <1>4. ProbeExclusive'
    BY <1>1, <1>2 DEF IInv, ProbeExclusive, Probing
  <1> QED BY <1>2, <1>3, <1>4

\* Every step of every call preserves the invariant.
LEMMA NextInv == IInv /\ [Next]_vars => IInv'
  <1> SUFFICES ASSUME IInv, [Next]_vars PROVE IInv'
    OBVIOUS
  <1>1. ASSUME NEW c \in Calls, PreCallCheck(c) PROVE IInv'
    <2>1. /\ call \in [Calls -> CallStates]
          /\ state' = state /\ failures' = failures /\ successes' = successes /\ age' = age
      BY <1>1 DEF PreCallCheck, IInv, TypeOK
    <2>2. CASE /\ CurrentState = "HALF_OPEN" /\ ~probe /\ probe' = TRUE
               /\ call' = [call EXCEPT ![c] = "probe"]
      <3>1. \A d \in Calls : call'[d] = IF d = c THEN "probe" ELSE call[d]
        BY <2>1, <2>2
      <3>2. ProbeExclusive'
        BY <2>2, <3>1 DEF IInv, ProbeExclusive, Probing
      <3> QED BY <2>1, <2>2, <3>2
        DEF IInv, TypeOK, CallStates, OpenIffThreshold, StreakOnlyWhileOpen
    <2>3. CASE /\ CurrentState = "CLOSED" /\ probe' = probe
               /\ call' = [call EXCEPT ![c] = "plain"]
      <3>1. \A d \in Calls : call'[d] = IF d = c THEN "plain" ELSE call[d]
        BY <2>1, <2>3
      <3>2. ProbeExclusive'
        BY <1>1, <2>3, <3>1 DEF IInv, ProbeExclusive, Probing, PreCallCheck
      <3> QED BY <2>1, <2>3, <3>2
        DEF IInv, TypeOK, CallStates, OpenIffThreshold, StreakOnlyWhileOpen
    <2> QED BY <1>1, <2>2, <2>3 DEF PreCallCheck
  <1>2. ASSUME NEW c \in Calls, RoutedStart(c) PROVE IInv'
    <2>1. /\ call \in [Calls -> CallStates]
          /\ \A d \in Calls : call'[d] = IF d = c THEN "plain" ELSE call[d]
      BY <1>2 DEF RoutedStart, IInv, TypeOK
    <2>2. ProbeExclusive'
      BY <1>2, <2>1 DEF IInv, ProbeExclusive, Probing, RoutedStart
    <2> QED BY <1>2, <2>2
      DEF RoutedStart, IInv, TypeOK, CallStates, OpenIffThreshold, StreakOnlyWhileOpen
  <1>3. ASSUME NEW c \in Calls, CallSucceeds(c) PROVE IInv'
    BY <1>3, RecordSuccessKeeps, FinishKeeps DEF CallSucceeds, IInv, TypeOK
  <1>4. ASSUME NEW c \in Calls, CallFails(c) PROVE IInv'
    BY <1>4, RecordFailureKeeps, FinishKeeps DEF CallFails, IInv, TypeOK
  <1>5. ASSUME NEW c \in Calls, CallNeutral(c) PROVE IInv'
    BY <1>5, FinishKeeps
    DEF CallNeutral, IInv, TypeOK, OpenIffThreshold, StreakOnlyWhileOpen
  <1>6. ASSUME NEW c \in Calls, StreamTerminalEvent(c) PROVE IInv'
    <2>1. /\ call \in [Calls -> CallStates] /\ call[c] \in Pending
          /\ call' = [call EXCEPT ![c] = IF @ = "probe" THEN "settledProbe" ELSE "settled"]
          /\ probe' = probe /\ age' = age
      BY <1>6 DEF StreamTerminalEvent, IInv, TypeOK
    <2>2. /\ call' \in [Calls -> CallStates]
          /\ \A d \in Calls : call'[d] \in Probing <=> call[d] \in Probing
      BY <2>1 DEF CallStates, Pending, Probing
    <2>3. ProbeExclusive'
      BY <2>1, <2>2 DEF IInv, ProbeExclusive
    <2> QED BY <1>6, <2>1, <2>2, <2>3, RecordSuccessKeeps DEF StreamTerminalEvent, IInv, TypeOK
  <1>7. ASSUME NEW c \in Calls, StreamCloses(c) PROVE IInv'
    BY <1>7, FinishKeeps
    DEF StreamCloses, IInv, TypeOK, OpenIffThreshold, StreakOnlyWhileOpen
  <1>8. CASE Tick
    BY <1>8, BreakerAssumption
    DEF Tick, IInv, TypeOK, ProbeExclusive, OpenIffThreshold, StreakOnlyWhileOpen
  <1>9. CASE UNCHANGED vars
    BY <1>9 DEF vars, IInv, TypeOK, ProbeExclusive, OpenIffThreshold, StreakOnlyWhileOpen
  <1> QED BY <1>1, <1>2, <1>3, <1>4, <1>5, <1>6, <1>7, <1>8, <1>9 DEF Next

\* For any number of calls and any positive thresholds, at most one call is
\* the half-open probe and the in-flight flag is never leaked.
THEOREM ProbeIsExclusive == Spec => []ProbeExclusive
  <1>1. IInv => ProbeExclusive
    BY DEF IInv
  <1> QED BY <1>1, InitInv, NextInv, PTL DEF Spec

\* For any number of calls and any positive thresholds, the breaker is open
\* exactly while the failure count is at the threshold.
THEOREM OpenExactlyAtThreshold == Spec => []OpenIffThreshold
  <1>1. IInv => OpenIffThreshold
    BY DEF IInv
  <1> QED BY <1>1, InitInv, NextInv, PTL DEF Spec

\* Types are respected: the counters stay natural numbers within their bounds,
\* and HALF_OPEN is never stored.
THEOREM BreakerTypes == Spec => []TypeOK
  <1>1. IInv => TypeOK
    BY DEF IInv
  <1> QED BY <1>1, InitInv, NextInv, PTL DEF Spec

\* A success streak belongs to the current outage, and is used up as soon as it
\* is long enough.
THEOREM StreaksAreCurrent == Spec => []StreakOnlyWhileOpen
  <1>1. IInv => StreakOnlyWhileOpen
    BY DEF IInv
  <1> QED BY <1>1, InitInv, NextInv, PTL DEF Spec

-----------------------------------------------------------------------------
(* The inductive invariant.                                                *)

Points == {"start", "select", "fresh", "stream", "force", "again", "finally", "done"}

Locals ==
    [pc : Points, attempt : 0..MaxAttempts, tries : 0..MaxTries,
     account : Pool \cup {None}, leased : BOOLEAN, excluded : SUBSET Pool,
     deferred : Pool \cup {None}, preferred : Pool \cup {None},
     require : BOOLEAN, filed : BOOLEAN, anchored : BOOLEAN, replay : BOOLEAN,
     secure : BOOLEAN, retryable : BOOLEAN, security : BOOLEAN,
     transient : BOOLEAN, settled : BOOLEAN, waits : 0..MaxWaits]

Seen == [visible : BOOLEAN, ends : Nat, closes : Nat, left : BOOLEAN, sends : Nat]

Over(t) == t.pc \in {"finally", "done"}
Trying(t) == t.pc \in {"fresh", "stream", "force", "again"}

\* The file's account is the only one the request may use.
FileBound(r) == r.file # None /\ ~r.anchor

\* The slots h are the one of the account at work, or that of the account that
\* was set aside, never both.
SlotOK(t, h) ==
    /\ t.leased => t.account \in Pool /\ t.deferred = None
    /\ \A a \in Pool : h[a] = IF (t.leased /\ a = t.account) \/ a = t.deferred THEN 1 ELSE 0

\* A body with the anchor of a known owner requires that owner, a required
\* account is the owner, a file binds to its account, and only an account the
\* request may leave is set aside.
BoundOK(r, t) ==
    /\ t.anchored /\ r.owner # None => t.require
    /\ t.require => r.owner # None /\ t.preferred = r.owner
    /\ FileBound(r) => t.filed /\ t.preferred = r.file
    /\ t.deferred # None => ~t.require /\ ~FileBound(r)

\* The account that is tried is leased, not excluded, and the bound one.
TryingOK(r, t) ==
    /\ t.leased /\ t.account \notin t.excluded
    /\ t.require => t.account = t.preferred
    /\ FileBound(r) => t.account = r.file

\* What the client and the reservation got, by where the generator is.
EndsOK(t, c) ==
    /\ ~Over(t) => c.ends = 0 /\ c.closes = 0 /\ ~c.left /\ ~t.settled
    /\ t.pc = "finally" => c.closes = IF t.settled THEN 1 ELSE 0
    /\ t.pc = "done" => c.closes = 1
    /\ Over(t) => c.ends = IF c.left THEN 0 ELSE 1
    /\ c.visible => t.pc \in {"stream", "again", "finally", "done"}

StateOK(r, t, h, c) ==
    /\ r \in Asked
    /\ t \in Locals /\ h \in [Pool -> 0..1] /\ c \in Seen
    /\ ~Over(t) => SlotOK(t, h) /\ t.attempt < MaxAttempts
    /\ ~Over(t) /\ t.pc # "start" => BoundOK(r, t)
    /\ t.pc \in {"start", "select"} => ~t.leased
    /\ t.pc = "start" => t.deferred = None
    /\ Trying(t) => TryingOK(r, t)
    /\ t.pc = "done" => \A a \in Pool : h[a] = 0
    /\ EndsOK(t, c)

RInv == late \in BOOLEAN /\ StateOK(asked, s, held, client)

-----------------------------------------------------------------------------
(* Facts about the locals.                                                 *)

\* The fields of the locals.
LEMMA Parts ==
    ASSUME NEW t \in Locals
    PROVE  /\ t.pc \in Points /\ t.attempt \in 0..MaxAttempts /\ t.tries \in 0..MaxTries
           /\ t.account \in Pool \cup {None} /\ t.leased \in BOOLEAN
           /\ t.excluded \subseteq Pool /\ t.deferred \in Pool \cup {None}
           /\ t.preferred \in Pool \cup {None} /\ t.require \in BOOLEAN
           /\ t.settled \in BOOLEAN /\ t.waits \in 0..MaxWaits /\ t.transient \in BOOLEAN
BY Zenon DEF Locals

\* The two agree on everything the invariant looks at, but for the point and
\* the excluded accounts.
Same(t, u) ==
    /\ u \in Locals /\ u.attempt = t.attempt /\ u.account = t.account /\ u.leased = t.leased
    /\ u.deferred = t.deferred /\ u.preferred = t.preferred /\ u.require = t.require
    /\ u.filed = t.filed /\ u.anchored = t.anchored /\ u.replay = t.replay
    /\ u.settled = t.settled

\* The flags of a failure, and the exclusion of its account, change no more.
LEMMA Flagged ==
    ASSUME NEW t \in Locals
    PROVE  /\ Same(t, t)
           /\ Same(t, [t EXCEPT !.retryable = TRUE])
           /\ \A f \in BOOLEAN : Same(t, [t EXCEPT !.transient = f])
           /\ Same(t, [t EXCEPT !.secure = TRUE, !.security = TRUE])
           /\ t.account \in Pool => Same(t, Excluding(t))
<1>1. Same(t, t)
    BY DEF Same
<1>2. Same(t, [t EXCEPT !.retryable = TRUE])
    BY ZenonT(30) DEF Same, Locals
<1>3. ASSUME NEW f \in BOOLEAN PROVE Same(t, [t EXCEPT !.transient = f])
    BY ZenonT(30) DEF Same, Locals
<1>4. Same(t, [t EXCEPT !.secure = TRUE, !.security = TRUE])
    BY ZenonT(30) DEF Same, Locals
<1>5. ASSUME t.account \in Pool PROVE Same(t, Excluding(t))
    BY <1>5, ZenonT(30) DEF Same, Locals, Excluding
<1> QED BY <1>1, <1>2, <1>3, <1>4, <1>5, Zenon

\* One account loop goes on with the locals of another: the attempt is the
\* same, and so are the slots, and the request is bound as the invariant says.
Carries(t, u) ==
    /\ u \in Locals /\ u.attempt = t.attempt /\ u.account = t.account /\ u.leased = t.leased
    /\ u.deferred = t.deferred /\ u.settled = t.settled /\ BoundOK(asked, u)

\* Locals that agree carry.
LEMMA SameCarries ==
    ASSUME NEW t, NEW u, Same(t, u), BoundOK(asked, t)
    PROVE  Carries(t, u)
BY Zenon DEF Same, Carries, BoundOK

\* A chain of locals that carry.
LEMMA CarriesOn ==
    ASSUME NEW t, NEW u, NEW v, Carries(t, u), Carries(u, v)
    PROVE  Carries(t, v)
BY Zenon DEF Carries

\* A verified fresh replay has left its owner, and is bound to nobody.
LEMMA FreshOK ==
    ASSUME asked \in Asked, NEW t \in Locals, t.require, BoundOK(asked, t)
    PROVE  /\ Carries(t, Fresh(t)) /\ ~Fresh(t).require /\ Fresh(t).pc = t.pc
           /\ Fresh(t).excluded = t.excluded \cup {t.preferred} /\ ~FileBound(asked)
<1>1. asked.owner # None /\ t.preferred = asked.owner /\ t.preferred \in Pool /\ asked.anchor
  <2>1. asked.owner # None /\ t.preferred = asked.owner
    BY Zenon DEF BoundOK
  <2>2. asked.anchor
    BY <2>1 DEF Asked
  <2> QED BY <2>1, <2>2, Parts, Zenon
<1>2. ~FileBound(asked)
    BY <1>1 DEF FileBound
<1>3. /\ Fresh(t) \in Locals /\ Fresh(t).attempt = t.attempt /\ Fresh(t).account = t.account
      /\ Fresh(t).leased = t.leased /\ Fresh(t).deferred = t.deferred
      /\ Fresh(t).settled = t.settled /\ Fresh(t).pc = t.pc
      /\ Fresh(t).anchored = FALSE /\ Fresh(t).require = FALSE
      /\ Fresh(t).excluded = t.excluded \cup {t.preferred}
    BY <1>1, ZenonT(30) DEF Fresh, Locals
<1>4. BoundOK(asked, Fresh(t))
    BY <1>2, <1>3, Zenon DEF BoundOK
<1> QED BY <1>2, <1>3, <1>4, Zenon DEF Carries

\* _move_verified_fresh_replay_from_owner keeps the request bound.
LEMMA MovedOK ==
    ASSUME asked \in Asked, NEW t \in Locals, BoundOK(asked, t)
    PROVE  Carries(t, Moved(t))
<1>1. CASE t.require /\ t.preferred = t.account /\ t.replay
    BY <1>1, FreshOK, Zenon DEF Moved
<1>2. CASE ~(t.require /\ t.preferred = t.account /\ t.replay)
    BY <1>2, Flagged, SameCarries, Zenon DEF Moved
<1> QED BY <1>1, <1>2

-----------------------------------------------------------------------------
(* The ways a step may end.                                                *)

\* The generator goes to its finally block, with one ending or with none.
LEMMA StopsOK ==
    ASSUME NEW n \in Locals, n.pc = "finally", NEW h \in [Pool -> 0..1], NEW c \in Seen,
           c.closes = IF n.settled THEN 1 ELSE 0, c.ends = IF c.left THEN 0 ELSE 1,
           asked \in Asked
    PROVE  StateOK(asked, n, h, c)
BY Zenon DEF StateOK, Over, Trying, EndsOK

\* The facts about the state that the steps use.
LEMMA StateFacts ==
    ASSUME RInv
    PROVE  /\ asked \in Asked /\ s \in Locals /\ held \in [Pool -> 0..1] /\ client \in Seen
           /\ late \in BOOLEAN /\ EndsOK(s, client)
           /\ ~Over(s) => SlotOK(s, held) /\ s.attempt < MaxAttempts
           /\ ~Over(s) /\ s.pc # "start" => BoundOK(asked, s)
           /\ s.pc \in {"start", "select"} => ~s.leased
           /\ s.pc = "start" => s.deferred = None
           /\ Trying(s) => TryingOK(asked, s)
BY Zenon DEF RInv, StateOK

\* A terminal event or an error ends the request.
LEMMA EndOK ==
    ASSUME RInv, ~Over(s), End
    PROVE  RInv'
<1>1. client.ends = 0 /\ client.closes = 0 /\ ~client.left /\ ~s.settled
    BY StateFacts, Zenon DEF EndsOK
<1>2. s' \in Locals /\ s'.pc = "finally" /\ s'.settled = s.settled
    BY StateFacts, ZenonT(30) DEF End, Locals, Points
<1>3. /\ client' \in Seen /\ client'.ends = 1 /\ client'.closes = 0 /\ ~client'.left
    BY <1>1, StateFacts DEF End, Seen
<1>4. asked' = asked /\ held' = held /\ late' = late
    BY Zenon DEF End
<1>5. StateOK(asked, s', held, client')
    BY <1>1, <1>2, <1>3, StateFacts, StopsOK, Zenon
<1> QED BY <1>4, <1>5, StateFacts, Zenon DEF RInv

\* So it does after the reservation was settled.
LEMMA SettleOK ==
    ASSUME RInv, ~Over(s), SettleAndEnd
    PROVE  RInv'
<1>1. client.ends = 0 /\ client.closes = 0 /\ ~client.left /\ ~s.settled
    BY StateFacts, Zenon DEF EndsOK
<1>2. s' \in Locals /\ s'.pc = "finally" /\ s'.settled = TRUE
    BY StateFacts, ZenonT(30) DEF SettleAndEnd, Locals, Points
<1>3. /\ client' \in Seen /\ client'.ends = 1 /\ client'.closes = 1 /\ ~client'.left
  <2>1. client' = [client EXCEPT !.ends = 1, !.closes = 1]
    BY <1>1 DEF SettleAndEnd
  <2>2. 1 \in Nat
    OBVIOUS
  <2> QED BY <1>1, <2>1, <2>2, StateFacts, ZenonT(30) DEF Seen
<1>4. asked' = asked /\ held' = held /\ late' = late
    BY Zenon DEF SettleAndEnd
<1>5. StateOK(asked, s', held, client')
    BY <1>1, <1>2, <1>3, StateFacts, StopsOK, Zenon
<1> QED BY <1>4, <1>5, StateFacts, Zenon DEF RInv

\* The account loop goes on, or has no attempt left, with the slots h.
LEMMA ContinueOK ==
    ASSUME RInv, ~Over(s), s.pc # "start", ~client.visible,
           NEW t, Carries(t, t), t.attempt = s.attempt, t.settled = s.settled,
           NEW h \in [Pool -> 0..1],
           \A a \in Pool : h[a] = IF a = t.deferred THEN 1 ELSE 0,
           Continue(t, h)
    PROVE  RInv'
<1> DEFINE pt == IF LastAttempt THEN "finally" ELSE "select"
           n == [[t EXCEPT !.attempt = t.attempt + 1, !.leased = FALSE] EXCEPT !.pc = pt]
<1>1. /\ client.ends = 0 /\ client.closes = 0 /\ ~client.left /\ ~s.settled
      /\ s.attempt < MaxAttempts
    BY StateFacts, Zenon DEF EndsOK
<1>2. /\ s.attempt + 1 \in 0..MaxAttempts
      /\ ~LastAttempt => s.attempt + 1 < MaxAttempts
    BY StreamAssumption, <1>1, StateFacts, Parts DEF LastAttempt
<1>3. t \in Locals /\ BoundOK(asked, t)
    BY Zenon DEF Carries
<1>4. /\ n \in Locals /\ n.pc = pt /\ n.attempt = s.attempt + 1 /\ n.leased = FALSE
      /\ n.settled = t.settled /\ n.deferred = t.deferred /\ n.preferred = t.preferred
      /\ n.require = t.require /\ n.filed = t.filed /\ n.anchored = t.anchored
    BY <1>2, <1>3, ZenonT(30) DEF Locals, Points
<1>5. /\ client' \in Seen /\ client'.ends = (IF LastAttempt THEN 1 ELSE 0)
      /\ client'.closes = 0 /\ ~client'.left /\ ~client'.visible
    BY <1>1, StateFacts DEF Continue, Seen
<1>6. s' = n /\ held' = h /\ asked' = asked /\ late' = late
    BY Zenon DEF Continue
<1> HIDE DEF n
<1>7. StateOK(asked, n, h, client')
  <2>1. CASE LastAttempt
    BY <2>1, <1>1, <1>4, <1>5, StateFacts, StopsOK, Zenon
  <2>2. CASE ~LastAttempt
    <3>1. SlotOK(n, h) /\ BoundOK(asked, n)
      BY <1>3, <1>4, Zenon DEF SlotOK, BoundOK
    <3>2. EndsOK(n, client')
      BY <2>2, <1>1, <1>4, <1>5, Zenon DEF EndsOK, Over
    <3> QED BY <2>2, <3>1, <3>2, <1>2, <1>4, <1>5, StateFacts, Zenon DEF StateOK, Over, Trying
  <2> QED BY <2>1, <2>2
<1> QED BY <1>6, <1>7, StateFacts, Zenon DEF RInv

\* The slot of the account that is tried is the only one, and is given back.
LEMMA FreedOK ==
    ASSUME RInv, Trying(s)
    PROVE  /\ Freed \in [Pool -> 0..1] /\ \A a \in Pool : Freed[a] = 0
           /\ s.account \in Pool /\ s.deferred = None /\ ~Over(s) /\ s.pc # "start"
           /\ s.leased /\ BoundOK(asked, s) /\ ~s.settled
<1>1. ~Over(s) /\ s.pc # "start"
    BY DEF Trying, Over
<1>2. s.leased /\ s.account \in Pool /\ s.deferred = None /\ BoundOK(asked, s) /\ ~s.settled
    BY <1>1, StateFacts, Zenon DEF TryingOK, SlotOK, EndsOK
<1>3. \A a \in Pool : held[a] = IF a = s.account THEN 1 ELSE 0
    BY StreamAssumption, <1>1, <1>2, StateFacts, Zenon DEF SlotOK
<1>4. Freed = [held EXCEPT ![s.account] = held[s.account] - 1]
    BY <1>2, Zenon DEF Freed
<1>5. Freed \in [Pool -> 0..1] /\ \A a \in Pool : Freed[a] = 0
    BY <1>2, <1>3, <1>4, StateFacts
<1> QED BY <1>1, <1>2, <1>5

\* A failed attempt gives its slot back and the next one begins.
LEMMA NextAccount ==
    ASSUME RInv, Trying(s), ~client.visible, NEW t, Carries(s, t),
           Continue(t, Freed)
    PROVE  RInv'
<1>1. Carries(t, t) /\ t.attempt = s.attempt /\ t.settled = s.settled /\ t.deferred = None
    BY FreedOK, Zenon DEF Carries
<1>2. \A a \in Pool : Freed[a] = IF a = t.deferred THEN 1 ELSE 0
    BY StreamAssumption, <1>1, FreedOK, Zenon
<1> QED BY <1>1, <1>2, FreedOK, ContinueOK, Zenon

\* The request waits, or goes on with the account it has.
LEMMA StaysOK ==
    ASSUME RInv, ~Over(s), s.pc # "start", NEW n, Same(s, n), n.excluded = s.excluded,
           n.pc = s.pc \/ (Trying(s) /\ Trying(n)),
           NEW c \in Seen, c.ends = client.ends, c.closes = client.closes, c.left = client.left,
           c.visible => n.pc \in {"stream", "again"}
    PROVE  StateOK(asked, n, held, c)
<1>1. ~Over(n) /\ n.pc # "start" /\ (n.pc \in {"start", "select"} => s.pc = n.pc)
      /\ (Trying(n) => Trying(s)) /\ n \in Locals
    BY Zenon DEF Trying, Over, Same
<1>2. SlotOK(n, held) /\ n.attempt < MaxAttempts /\ BoundOK(asked, n)
    BY StateFacts, ZenonT(30) DEF SlotOK, BoundOK, Same
<1>3. Trying(n) => TryingOK(asked, n)
    BY <1>1, StateFacts, Zenon DEF TryingOK, Same
<1>4. EndsOK(n, c)
    BY <1>1, StateFacts, Zenon DEF EndsOK, Same, Over
<1>5. n.pc \in {"start", "select"} => ~n.leased
    BY <1>1, StateFacts, Zenon DEF Same
<1> QED BY <1>1, <1>2, <1>3, <1>4, <1>5, StateFacts, Zenon DEF StateOK, Over

-----------------------------------------------------------------------------
(* One lemma per part of the generator.                                    *)

\* The binding that the request starts with.
LEMMA ResolveOK ==
    ASSUME RInv, Resolve
    PROVE  RInv'
<1>1. s.pc = "start" /\ ~Over(s) /\ ~s.leased /\ s.deferred = None /\ ~client.visible
    BY StateFacts, Zenon DEF Resolve, Over, EndsOK
<1>2. CASE End
    BY <1>1, <1>2, EndOK, Zenon
<1>3. CASE ~End
  <2> DEFINE filed == asked.owner = None /\ asked.file # None
             bound == IF filed THEN asked.file ELSE asked.owner
             owned == asked.owner # None
  <2>1. /\ s' = [s EXCEPT !.pc = "select", !.preferred = bound, !.require = owned, !.filed = filed]
        /\ asked' = asked /\ held' = held /\ late' = late /\ client' = client
    BY <1>3 DEF Resolve
  <2>2. asked.owner \in Pool \cup {None} /\ asked.file \in Pool \cup {None}
        /\ (asked.owner # None => asked.anchor)
    BY StateFacts DEF Asked
  <2>3. /\ s' \in Locals /\ s'.pc = "select" /\ s'.attempt = s.attempt /\ s'.account = s.account
        /\ s'.leased = s.leased /\ s'.deferred = s.deferred /\ s'.settled = s.settled
        /\ s'.preferred = bound /\ s'.require = owned /\ s'.filed = filed
        /\ s'.anchored = s.anchored
    <3>1. bound \in Pool \cup {None} /\ owned \in BOOLEAN /\ filed \in BOOLEAN
      BY <2>2
    <3> HIDE DEF bound, owned, filed
    <3> QED BY <2>1, <3>1, StateFacts, ZenonT(30) DEF Locals, Points
  <2>4. BoundOK(asked, s')
    BY <2>2, <2>3, <1>1, Zenon DEF BoundOK, FileBound
  <2>5. SlotOK(s', held) /\ s'.attempt < MaxAttempts
    BY <2>3, <1>1, StateFacts, Zenon DEF SlotOK
  <2>6. EndsOK(s', client)
    BY <2>3, <1>1, StateFacts, Zenon DEF EndsOK, Over
  <2>7. StateOK(asked, s', held, client)
    BY <2>3, <2>4, <2>5, <2>6, <1>1, StateFacts, Zenon DEF StateOK, Over, Trying
  <2> QED BY <2>1, <2>7, StateFacts, Zenon DEF RInv
<1> QED BY <1>2, <1>3

\* An account is selected and leased.
LEMMA SelectOK ==
    ASSUME RInv, NEW a \in Pool, Select(a)
    PROVE  RInv'
<1> DEFINE t == [s EXCEPT !.account = a, !.leased = TRUE, !.deferred = None]
           stray == s.require /\ s.preferred # None /\ a # s.preferred
           h == [b \in Pool |-> held[b] + (IF b = a THEN 1 ELSE 0)
                                            - (IF b = s.deferred THEN 1 ELSE 0)]
<1>1. s.pc = "select" /\ ~Over(s) /\ ~s.leased /\ ~client.visible /\ ~s.settled /\ BoundOK(asked, s)
      /\ client.ends = 0 /\ client.closes = 0 /\ ~client.left /\ s.attempt < MaxAttempts
  <2>1. s.pc = "select" /\ ~Over(s)
    BY Zenon DEF Select, Over
  <2> QED BY <2>1, StateFacts, Zenon DEF EndsOK
<1>2. a \notin s.excluded /\ (s.filed => a = s.preferred)
    BY Zenon DEF Select, Eligible
<1>3. /\ held' = h /\ asked' = asked /\ late' = late
      /\ s' = IF stray /\ s.replay THEN [Fresh(t) EXCEPT !.pc = "fresh"]
              ELSE [t EXCEPT !.pc = IF stray THEN "finally" ELSE "fresh"]
      /\ client' = [client EXCEPT !.ends = IF stray /\ ~s.replay THEN client.ends + 1 ELSE client.ends]
    BY Zenon DEF Select
<1>4. h \in [Pool -> 0..1] /\ \A b \in Pool : h[b] = IF b = a THEN 1 ELSE 0
  <2>1. \A b \in Pool : held[b] = IF b = s.deferred THEN 1 ELSE 0
    BY <1>1, StateFacts, Zenon DEF SlotOK
  <2>2. \A b \in Pool : h[b] = IF b = a THEN 1 ELSE 0
    BY <2>1
  <2> QED BY <2>2
<1>5. /\ t \in Locals /\ t.pc = "select" /\ t.attempt = s.attempt /\ t.account = a /\ t.leased = TRUE
      /\ t.deferred = None /\ t.excluded = s.excluded /\ t.preferred = s.preferred
      /\ t.require = s.require /\ t.filed = s.filed /\ t.anchored = s.anchored
      /\ t.replay = s.replay /\ t.settled = s.settled
    BY <1>1, StateFacts, ZenonT(30) DEF Locals
<1> HIDE DEF t, h
<1>6. BoundOK(asked, t)
    BY <1>1, <1>5, Zenon DEF BoundOK
<1>7. ASSUME NEW u, Carries(t, u), u.pc = "select", a \notin u.excluded, NEW n,
             n = [u EXCEPT !.pc = "fresh"], u.require => a = u.preferred,
             FileBound(asked) => a = asked.file
      PROVE  StateOK(asked, n, h, client)
  <2>1. u \in Locals
    BY <1>7, Zenon DEF Carries
  <2>2. /\ n \in Locals /\ n.pc = "fresh" /\ n.attempt = u.attempt /\ n.account = u.account
        /\ n.leased = u.leased /\ n.deferred = u.deferred /\ n.excluded = u.excluded
        /\ n.preferred = u.preferred /\ n.require = u.require /\ n.filed = u.filed
        /\ n.anchored = u.anchored /\ n.settled = u.settled
    BY <1>7, <2>1, ZenonT(30) DEF Locals, Points
  <2>3. n.account = a /\ n.leased = TRUE /\ n.deferred = None /\ n.attempt = s.attempt /\ n.settled = s.settled
    BY <1>5, <1>7, <2>2, Zenon DEF Carries
  <2>4. BoundOK(asked, n)
    BY <1>7, <2>2, Zenon DEF Carries, BoundOK
  <2>5. SlotOK(n, h)
    BY StreamAssumption, <1>4, <2>3, Zenon DEF SlotOK
  <2>6. TryingOK(asked, n)
    BY <1>7, <2>2, <2>3, Zenon DEF TryingOK
  <2>7. EndsOK(n, client)
    BY <1>1, <2>2, <2>3, Zenon DEF EndsOK, Over
  <2> QED BY <1>1, <1>4, <2>2, <2>3, <2>4, <2>5, <2>6, <2>7, StateFacts, ZenonT(30) DEF StateOK, Over, Trying
<1>8. CASE stray /\ s.replay
  <2>1. Carries(t, Fresh(t)) /\ ~Fresh(t).require /\ Fresh(t).pc = "select" /\ ~FileBound(asked)
        /\ Fresh(t).excluded = s.excluded \cup {s.preferred}
    BY <1>5, <1>6, <1>8, StateFacts, FreshOK, Zenon
  <2>2. client' = client
    BY <1>3, <1>8, StateFacts, ZenonT(30) DEF Seen
  <2>3. StateOK(asked, s', h, client)
    BY <1>2, <1>3, <1>7, <1>8, <2>1, Zenon
  <2> QED BY <1>3, <2>2, <2>3, StateFacts, Zenon DEF RInv
<1>9. CASE stray /\ ~s.replay
  <2>1. s' = [t EXCEPT !.pc = "finally"]
    BY <1>3, <1>9, Zenon
  <2>2. s' \in Locals /\ s'.pc = "finally" /\ s'.settled = s.settled
    BY <1>5, <2>1, ZenonT(30) DEF Locals, Points
  <2>3. client' \in Seen /\ client'.ends = 1 /\ client'.closes = 0 /\ ~client'.left
    BY <1>1, <1>3, <1>9, StateFacts DEF Seen
  <2>4. StateOK(asked, s', h, client')
    BY <1>1, <1>4, <2>2, <2>3, StateFacts, StopsOK, Zenon
  <2> QED BY <1>3, <2>4, StateFacts, Zenon DEF RInv
<1>10. CASE ~stray
  <2>1. s' = [t EXCEPT !.pc = "fresh"]
    BY <1>3, <1>10, Zenon
  <2>2. client' = client
    BY <1>3, <1>10, StateFacts, ZenonT(30) DEF Seen
  <2>3. Carries(t, t)
    BY <1>5, <1>6, Zenon DEF Carries
  <2>4. s.require => a = s.preferred
    <3>1. s.require => s.preferred # None
      BY <1>1, Zenon DEF BoundOK
    <3> QED BY <3>1, <1>10, Zenon
  <2>5. FileBound(asked) => a = asked.file
    BY <1>1, <1>2, Zenon DEF BoundOK
  <2>6. StateOK(asked, s', h, client)
    BY <1>2, <1>5, <1>7, <2>1, <2>3, <2>4, <2>5, Zenon
  <2> QED BY <1>3, <2>2, <2>6, StateFacts, Zenon DEF RInv
<1> QED BY <1>8, <1>9, <1>10

\* The selection finds nobody, or nobody yet.
LEMMA SelectingOK ==
    ASSUME RInv, Selecting
    PROVE  RInv'
<1>1. s.pc = "select"
    BY Zenon DEF Selecting, SelectionFails, NoAuthorized, Resume, Select, WaitForCapacity, NoneSelected
<1>2. ~Over(s) /\ s.pc # "start" /\ ~s.leased /\ ~client.visible /\ BoundOK(asked, s)
      /\ SlotOK(s, held) /\ ~Trying(s) /\ ~s.settled
  <2>1. ~Over(s) /\ s.pc # "start" /\ ~Trying(s)
    BY <1>1 DEF Over, Trying
  <2> QED BY <1>1, <2>1, StateFacts, Zenon DEF EndsOK
<1>3. CASE SelectionFails
    BY <1>2, <1>3, EndOK, Zenon DEF SelectionFails
<1>4. ASSUME NEW a \in Pool, Select(a) PROVE RInv'
    BY <1>4, SelectOK, Zenon
<1>5. CASE NoAuthorized
  <2>1. s' = [s EXCEPT !.secure = FALSE] /\ asked' = asked /\ held' = held /\ late' = late /\ client' = client
    BY <1>5, Zenon DEF NoAuthorized
  <2>2. Same(s, s') /\ s'.excluded = s.excluded /\ s'.pc = s.pc
    BY <2>1, StateFacts, ZenonT(30) DEF Same, Locals
  <2>3. StateOK(asked, s', held, client)
    BY <1>2, <2>2, StateFacts, StaysOK, Zenon
  <2> QED BY <2>1, <2>3, StateFacts, Zenon DEF RInv
<1>6. ASSUME NEW capped \in BOOLEAN, WaitForCapacity(capped) PROVE RInv'
  <2>1. s' = [s EXCEPT !.waits = s.waits + 1] /\ asked' = asked /\ held' = held /\ late' = late
        /\ client' = client /\ s.waits < MaxWaits
    BY <1>6, Zenon DEF WaitForCapacity
  <2>2. s.waits + 1 \in 0..MaxWaits
    BY StreamAssumption, <2>1, StateFacts, Parts
  <2>3. Same(s, s') /\ s'.excluded = s.excluded /\ s'.pc = s.pc
    BY <2>1, <2>2, StateFacts, ZenonT(30) DEF Same, Locals
  <2>4. StateOK(asked, s', held, client)
    BY <1>2, <2>3, StateFacts, StaysOK, Zenon
  <2> QED BY <2>1, <2>4, StateFacts, Zenon DEF RInv
<1>7. ASSUME NEW capped \in BOOLEAN, NoneSelected(capped) PROVE RInv'
  <2>1. CASE End
    BY <1>2, <2>1, EndOK, Zenon
  <2>2. CASE s.require /\ Continue(Fresh(s), held)
    <3>1. Carries(s, Fresh(s))
      BY <1>2, <2>2, StateFacts, FreshOK, Zenon
    <3>2. /\ Carries(Fresh(s), Fresh(s)) /\ Fresh(s).attempt = s.attempt
          /\ Fresh(s).settled = s.settled /\ Fresh(s).deferred = s.deferred
      BY <3>1, Zenon DEF Carries
    <3>3. \A a \in Pool : held[a] = IF a = Fresh(s).deferred THEN 1 ELSE 0
      BY <1>2, <3>2, Zenon DEF SlotOK
    <3> QED BY <1>2, <2>2, <3>2, <3>3, StateFacts, ContinueOK, Zenon
  <2> QED BY <1>7, <2>1, <2>2, Zenon DEF NoneSelected
<1>8. CASE Resume
  <2>1. CASE End
    BY <1>2, <2>1, EndOK, Zenon
  <2>2. CASE ~End
    <3>1. /\ s' = [s EXCEPT !.pc = "fresh", !.account = s.deferred, !.leased = TRUE,
                            !.deferred = None, !.excluded = s.excluded \ {s.deferred}]
          /\ s.deferred # None
          /\ asked' = asked /\ held' = held /\ late' = late /\ client' = client
      BY <1>8, <2>2, Zenon DEF Resume
    <3>2. /\ s' \in Locals /\ s'.pc = "fresh" /\ s'.attempt = s.attempt /\ s'.account = s.deferred
          /\ s'.leased = TRUE /\ s'.deferred = None /\ s'.excluded = s.excluded \ {s.deferred}
          /\ s'.preferred = s.preferred /\ s'.require = s.require /\ s'.filed = s.filed
          /\ s'.anchored = s.anchored /\ s'.settled = s.settled
      BY <3>1, StateFacts, ZenonT(30) DEF Locals, Points
    <3>3. ~s.require /\ ~FileBound(asked) /\ s.deferred \in Pool
      BY <1>2, <3>1, StateFacts, Parts, Zenon DEF BoundOK
    <3>4. SlotOK(s', held)
      BY StreamAssumption, <1>2, <3>2, <3>3, Zenon DEF SlotOK
    <3>5. BoundOK(asked, s') /\ TryingOK(asked, s')
      BY <1>2, <3>2, <3>3, Zenon DEF BoundOK, TryingOK
    <3>6. EndsOK(s', client)
      BY <1>2, <3>2, StateFacts, Zenon DEF EndsOK, Over
    <3>7. StateOK(asked, s', held, client)
      BY <1>2, <3>2, <3>4, <3>5, <3>6, StateFacts, Zenon DEF StateOK, Over, Trying
    <3> QED BY <3>1, <3>7, StateFacts, Zenon DEF RInv
  <2> QED BY <2>1, <2>2
<1> QED BY <1>3, <1>4, <1>5, <1>6, <1>7, <1>8, Zenon DEF Selecting

\* The token is made fresh, or is not.
LEMMA RefreshingOK ==
    ASSUME RInv,
           Refreshed \/ NoRoute \/ RefreshRefused \/ RefreshContended \/ RefreshLost
    PROVE  RInv'
<1>1. s.pc \in {"fresh", "force"}
    BY Zenon DEF Refreshed, NoRoute, RefreshRefused, RefreshContended, RefreshLost, Refreshing
<1>2. Trying(s) /\ ~Over(s) /\ s.pc # "start" /\ ~client.visible
  <2>1. Trying(s) /\ ~Over(s) /\ s.pc # "start" /\ s.pc \notin {"stream", "again", "finally", "done"}
    BY <1>1 DEF Trying, Over
  <2> QED BY <2>1, StateFacts, Zenon DEF EndsOK
<1>3. s \in Locals /\ BoundOK(asked, s) /\ s.account \in Pool /\ ~s.settled
    BY <1>2, StateFacts, FreedOK, Zenon
<1>4. CASE End
    BY <1>2, <1>4, EndOK, Zenon
<1>5. CASE Refreshed /\ ~End
  <2>1. /\ s' = [s EXCEPT !.pc = IF s.pc = "fresh" THEN "stream" ELSE "again", !.tries = 0]
        /\ client' = [client EXCEPT !.sends = client.sends + 1]
        /\ asked' = asked /\ held' = held /\ late' = late
    BY <1>5, Zenon DEF Refreshed
  <2>2. Same(s, s') /\ s'.excluded = s.excluded /\ s'.pc \in {"stream", "again"}
    <3> DEFINE p == IF s.pc = "fresh" THEN "stream" ELSE "again"
    <3>1. p \in {"stream", "again"} /\ p \in Points
      BY DEF Points
    <3>2. 0 \in 0..MaxTries
      BY StreamAssumption
    <3>3. s' = [s EXCEPT !.pc = p, !.tries = 0]
      BY <2>1, Zenon
    <3> HIDE DEF p
    <3> QED BY <3>1, <3>2, <3>3, StateFacts, ZenonT(30) DEF Same, Locals
  <2>3. client' \in Seen /\ client'.ends = client.ends /\ client'.closes = client.closes
        /\ client'.left = client.left
    BY <2>1, StateFacts DEF Seen
  <2>4. Trying(s')
    BY <2>2 DEF Trying
  <2>5. StateOK(asked, s', held, client')
    BY <1>2, <2>2, <2>3, <2>4, StateFacts, StaysOK, Zenon
  <2> QED BY <2>1, <2>5, StateFacts, Zenon DEF RInv
<1>6. CASE RefreshRefused
  <2>1. Carries(s, s)
    BY <1>3, Zenon DEF Carries
  <2> QED BY <1>2, <1>6, <2>1, NextAccount, Zenon DEF RefreshRefused
<1>7. CASE RefreshContended
  <2> DEFINE f == [s EXCEPT !.retryable = TRUE]
  <2>1. CASE Continue(Excluding(f), Freed)
    <3>1. Carries(s, f)
      BY <1>3, Flagged, SameCarries, Zenon
    <3> HIDE DEF f
    <3>2. f \in Locals /\ f.account \in Pool /\ BoundOK(asked, f)
      BY <1>3, <3>1, Zenon DEF Carries
    <3>3. Carries(f, Excluding(f))
      BY <3>2, Flagged, SameCarries, Zenon
    <3> QED BY <1>2, <2>1, <3>1, <3>3, CarriesOn, NextAccount, Zenon
  <2>2. CASE ~Continue(Excluding(f), Freed)
    <3>1. /\ s' = [s EXCEPT !.pc = "finally", !.leased = FALSE] /\ held' = Freed
          /\ client' = [client EXCEPT !.ends = client.ends + 1] /\ asked' = asked /\ late' = late
      BY <1>7, <2>2, Zenon DEF RefreshContended
    <3>2. s' \in Locals /\ s'.pc = "finally" /\ s'.settled = s.settled
      BY <3>1, StateFacts, ZenonT(30) DEF Locals, Points
    <3>3. client.ends = 0 /\ client.closes = 0 /\ ~client.left
      BY <1>2, StateFacts, Zenon DEF EndsOK
    <3>4. client' \in Seen /\ client'.ends = 1 /\ client'.closes = 0 /\ ~client'.left
      BY <3>1, <3>3, StateFacts DEF Seen
    <3>5. StateOK(asked, s', Freed, client')
      BY <1>2, <1>3, <3>2, <3>4, FreedOK, StateFacts, StopsOK, Zenon
    <3> QED BY <3>1, <3>5, StateFacts, Zenon DEF RInv
  <2> QED BY <2>1, <2>2
<1>8. CASE RefreshLost /\ ~End
  <2> DEFINE f == [s EXCEPT !.retryable = TRUE]
  <2>1. Continue(Moved(f), Freed) \/ Continue(Excluding(f), Freed)
    BY <1>8, ZenonT(30) DEF RefreshLost
  <2>2. Carries(s, f)
    BY <1>3, Flagged, SameCarries, Zenon
  <2> HIDE DEF f
  <2>3. f \in Locals /\ f.account \in Pool /\ BoundOK(asked, f)
    BY <1>3, <2>2, Zenon DEF Carries
  <2>4. Carries(f, Excluding(f)) /\ Carries(f, Moved(f))
    BY <2>3, StateFacts, Flagged, SameCarries, MovedOK, Zenon
  <2> QED BY <1>2, <2>1, <2>2, <2>4, CarriesOn, NextAccount, Zenon
<1> QED BY <1>4, <1>5, <1>6, <1>7, <1>8, Zenon DEF NoRoute

\* A failed attempt, whatever it is flagged with, leads to another account, and
\* a verified replay may leave its owner for it.
LEMMA FailedOK ==
    ASSUME RInv, Trying(s), NEW f, Same(s, f)
    PROVE  Carries(s, Excluding(f)) /\ Carries(s, Moved(Excluding(f)))
<1>1. Carries(s, f) /\ f \in Locals /\ f.account \in Pool /\ BoundOK(asked, f)
    BY FreedOK, SameCarries, Zenon DEF Same, Carries
<1>2. Carries(f, Excluding(f))
    BY <1>1, Flagged, SameCarries, Zenon
<1>3. Excluding(f) \in Locals /\ BoundOK(asked, Excluding(f))
    BY <1>2, Zenon DEF Carries
<1>4. Carries(Excluding(f), Moved(Excluding(f)))
    BY <1>3, StateFacts, MovedOK, Zenon
<1> QED BY <1>1, <1>2, <1>4, CarriesOn, Zenon

\* The same account is asked again, before anything was shown.
LEMMA AgainOK ==
    ASSUME RInv, Hidden, Same(s, s'), s'.excluded = s.excluded, Trying(s'),
           client' \in {client, [client EXCEPT !.sends = client.sends + 1]},
           UNCHANGED <<asked, held, late>>
    PROVE  RInv'
<1>1. Trying(s) /\ ~Over(s) /\ s.pc # "start" /\ ~client.visible
    BY Zenon DEF Hidden, Streaming, Trying, Over
<1>2. client' \in Seen /\ client'.ends = client.ends /\ client'.closes = client.closes
      /\ client'.left = client.left /\ client'.visible = client.visible
    BY StateFacts DEF Seen
<1>3. StateOK(asked, s', held, client')
    BY <1>1, <1>2, StateFacts, StaysOK, Zenon
<1> QED BY <1>3, StateFacts, Zenon DEF RInv

\* The account has no capacity: it is set aside with its slot, or waited for.
LEMMA CappedOK ==
    ASSUME RInv, Capped
    PROVE  RInv'
<1> DEFINE t == [s EXCEPT !.transient = TRUE]
           u == [t EXCEPT !.deferred = s.account]
<1>1. Hidden /\ Trying(s) /\ ~Over(s) /\ s.pc # "start" /\ ~client.visible
    BY Zenon DEF Capped, Hidden, Streaming, Trying, Over
<1>2. s \in Locals /\ BoundOK(asked, s) /\ s.account \in Pool /\ s.leased /\ s.deferred = None
    BY <1>1, StateFacts, FreedOK, Zenon
<1>3. CASE CanTryOther /\ Continue(Excluding(u), held)
  <2>1. /\ u \in Locals /\ u.attempt = s.attempt /\ u.settled = s.settled /\ u.account = s.account
        /\ u.deferred = s.account /\ u.preferred = s.preferred /\ u.require = s.require
        /\ u.filed = s.filed /\ u.anchored = s.anchored
    BY <1>2, ZenonT(30) DEF Locals
  <2> HIDE DEF u
  <2>2. ~s.require /\ ~FileBound(asked)
    BY <1>1, <1>3, StateFacts, Zenon DEF CanTryOther, TryingOK
  <2>3. BoundOK(asked, u)
    BY <1>2, <2>1, <2>2, Zenon DEF BoundOK
  <2>4. Carries(u, Excluding(u))
    BY <1>2, <2>1, <2>3, Flagged, SameCarries, Zenon
  <2>5. /\ Carries(Excluding(u), Excluding(u)) /\ Excluding(u).attempt = s.attempt
        /\ Excluding(u).settled = s.settled /\ Excluding(u).deferred = s.account
    BY <2>1, <2>4, Zenon DEF Carries
  <2>6. \A a \in Pool : held[a] = IF a = Excluding(u).deferred THEN 1 ELSE 0
    BY StreamAssumption, <1>1, <1>2, <2>5, StateFacts, Zenon DEF SlotOK
  <2> QED BY <1>1, <1>3, <2>5, <2>6, StateFacts, ContinueOK, Zenon
<1>4. CASE s.waits < MaxWaits /\ s' = [t EXCEPT !.waits = t.waits + 1]
           /\ client' = [client EXCEPT !.sends = client.sends + 1] /\ UNCHANGED <<asked, held, late>>
  <2>1. t \in Locals /\ t.waits = s.waits
    BY <1>2, ZenonT(30) DEF Locals
  <2>2. t.waits + 1 \in 0..MaxWaits
    <3>1. s.waits \in 0..MaxWaits /\ s.waits < MaxWaits /\ t.waits = s.waits
      BY <1>2, <1>4, <2>1, Parts, Zenon
    <3> HIDE DEF t
    <3> QED BY StreamAssumption, <3>1
  <2>3. Same(s, s') /\ s'.excluded = s.excluded /\ s'.pc = s.pc
    BY <1>2, <1>4, <2>2, ZenonT(30) DEF Same, Locals
  <2> QED BY <1>1, <1>4, <2>3, AgainOK, Zenon DEF Trying
<1>5. CASE End
    BY <1>1, <1>5, EndOK, Zenon
<1> QED BY <1>3, <1>4, <1>5, ZenonT(30) DEF Capped

\* A transient error, and a process without network.
LEMMA RetriesOK ==
    ASSUME RInv, Transient \/ NetworkRecovery
    PROVE  RInv'
<1>1. Hidden /\ Trying(s) /\ ~Over(s) /\ ~client.visible /\ s \in Locals
  <2>1. Hidden
    BY Zenon DEF Transient, NetworkRecovery
  <2> QED BY <2>1, StateFacts, Zenon DEF Hidden, Streaming, Trying, Over
<1>2. CASE s.tries + 1 < MaxTries /\ s' = [s EXCEPT !.tries = s.tries + 1]
           /\ client' = [client EXCEPT !.sends = client.sends + 1] /\ UNCHANGED <<asked, held, late>>
  <2>1. s.tries + 1 \in 0..MaxTries
    BY StreamAssumption, <1>1, <1>2, Parts
  <2>2. Same(s, s') /\ s'.excluded = s.excluded /\ s'.pc = s.pc
    BY <1>1, <1>2, <2>1, ZenonT(30) DEF Same, Locals
  <2> QED BY <1>1, <1>2, <2>2, AgainOK, Zenon DEF Trying
<1>3. ASSUME NEW last \in {s.transient, TRUE},
             Continue(Excluding([s EXCEPT !.transient = last]), Freed)
      PROVE  RInv'
  <2>1. last \in BOOLEAN
    BY <1>1, Parts, Zenon
  <2>2. Same(s, [s EXCEPT !.transient = last])
    BY <1>1, <2>1, Flagged, Zenon
  <2> QED BY <1>1, <1>3, <2>2, FailedOK, NextAccount, Zenon
<1>4. CASE SettleAndEnd
    BY <1>1, <1>4, SettleOK, Zenon
<1>5. CASE s.waits < MaxWaits /\ s' = [s EXCEPT !.waits = s.waits + 1]
           /\ client' = [client EXCEPT !.sends = client.sends + 1] /\ UNCHANGED <<asked, held, late>>
  <2>1. s.waits + 1 \in 0..MaxWaits
    BY StreamAssumption, <1>1, <1>5, Parts
  <2>2. Same(s, s') /\ s'.excluded = s.excluded /\ s'.pc = s.pc
    BY <1>1, <1>5, <2>1, ZenonT(30) DEF Same, Locals
  <2> QED BY <1>1, <1>5, <2>2, AgainOK, Zenon DEF Trying
<1>6. CASE Transient
    BY <1>2, <1>3, <1>6, ZenonT(30) DEF Transient
<1>7. CASE NetworkRecovery
    BY <1>4, <1>5, <1>7, ZenonT(30) DEF NetworkRecovery
<1> QED BY <1>6, <1>7

\* The outcomes of an upstream attempt.
LEMMA AttemptingOK ==
    ASSUME RInv, Attempting
    PROVE  RInv'
<1>1. CASE Refreshed \/ NoRoute \/ RefreshRefused \/ RefreshContended \/ RefreshLost
    BY <1>1, RefreshingOK, Zenon
<1>2. CASE Capped
    BY <1>2, CappedOK, Zenon
<1>3. CASE NetworkRecovery \/ Transient
    BY <1>3, RetriesOK, Zenon
<1>4. ASSUME Streaming PROVE Trying(s) /\ ~Over(s) /\ s.pc # "start" /\ s \in Locals
    BY <1>4, StateFacts, Zenon DEF Streaming, Trying, Over
<1>5. ASSUME Hidden PROVE Streaming /\ ~client.visible
    BY <1>5, Zenon DEF Hidden
<1>6. CASE Completes \/ Rejected \/ Surfaces
  <2>1. Streaming /\ (End \/ SettleAndEnd)
    BY <1>6, <1>5, Zenon DEF Completes, Rejected, Surfaces
  <2> QED BY <2>1, <1>4, EndOK, SettleOK, Zenon
<1>7. CASE Retryable
  <2>1. Hidden /\ Continue(Moved(Excluding([s EXCEPT !.retryable = TRUE])), Freed)
    BY <1>7, Zenon DEF Retryable
  <2>2. Same(s, [s EXCEPT !.retryable = TRUE])
    BY <1>4, <1>5, <2>1, Flagged, Zenon
  <2> QED BY <1>4, <1>5, <2>1, <2>2, FailedOK, NextAccount, Zenon
<1>8. CASE FailsOver
  <2>1. Hidden /\ Continue(Moved(Excluding([s EXCEPT !.transient = TRUE])), Freed)
    BY <1>8, Zenon DEF FailsOver
  <2>2. Same(s, [s EXCEPT !.transient = TRUE])
    BY <1>4, <1>5, <2>1, Flagged, Zenon
  <2> QED BY <1>4, <1>5, <2>1, <2>2, FailedOK, NextAccount, Zenon
<1>9. CASE Unauthorized
  <2>1. Hidden /\ (End \/ Continue(Excluding([s EXCEPT !.secure = TRUE, !.security = TRUE]), Freed))
    BY <1>9, Zenon DEF Unauthorized
  <2>2. Same(s, [s EXCEPT !.secure = TRUE, !.security = TRUE])
    BY <1>4, <1>5, <2>1, Flagged, Zenon
  <2>3. CASE End
    BY <1>4, <1>5, <2>1, <2>3, EndOK, Zenon
  <2> QED BY <1>4, <1>5, <2>1, <2>2, <2>3, FailedOK, NextAccount, Zenon
<1>10. CASE NotAuthenticated
  <2>1. Hidden /\ (End \/ (s' = [s EXCEPT !.pc = "force"] /\ UNCHANGED <<asked, held, late, client>>))
    BY <1>10, Zenon DEF NotAuthenticated
  <2>2. CASE End
    BY <1>4, <1>5, <2>1, <2>2, EndOK, Zenon
  <2>3. CASE s' = [s EXCEPT !.pc = "force"] /\ UNCHANGED <<asked, held, late, client>>
    <3>1. Same(s, s') /\ s'.excluded = s.excluded /\ s'.pc = "force"
      BY <2>1, <2>3, <1>4, <1>5, ZenonT(30) DEF Same, Locals, Points
    <3>2. Trying(s')
      BY <3>1, Zenon DEF Trying
    <3> QED BY <2>1, <2>3, <3>1, <3>2, AgainOK, Zenon
  <2> QED BY <2>1, <2>2, <2>3
<1> QED BY <1>1, <1>2, <1>3, <1>6, <1>7, <1>8, <1>9, <1>10, Zenon DEF Attempting

\* A line is shown, the finally block runs, the client leaves, time passes.
LEMMA OtherOK ==
    ASSUME RInv, Shows \/ Finally \/ Leave \/ Expire \/ UNCHANGED streamVars
    PROVE  RInv'
<1>1. CASE Shows
  <2>1. /\ s.pc \in {"stream", "again"} /\ client' = [client EXCEPT !.visible = TRUE]
        /\ asked' = asked /\ s' = s /\ held' = held /\ late' = late
    BY <1>1, Zenon DEF Shows, Hidden, Streaming
  <2>2. ~Over(s) /\ s.pc # "start"
    BY <2>1 DEF Over
  <2>3. client' \in Seen /\ client'.ends = client.ends /\ client'.closes = client.closes
        /\ client'.left = client.left
    BY <2>1, StateFacts, ZenonT(30) DEF Seen
  <2>4. StateOK(asked, s, held, client')
    BY <2>1, <2>2, <2>3, StateFacts, Flagged, StaysOK, Zenon
  <2> QED BY <2>1, <2>4, StateFacts, Zenon DEF RInv
<1>2. CASE Finally
  <2>1. /\ s.pc = "finally" /\ s' = [s EXCEPT !.pc = "done"] /\ held' = [a \in Pool |-> 0]
        /\ client' = [client EXCEPT !.closes = IF s.settled THEN client.closes ELSE client.closes + 1]
        /\ asked' = asked /\ late' = late
    BY <1>2, Zenon DEF Finally
  <2>2. s' \in Locals /\ s'.pc = "done"
    BY <2>1, StateFacts, ZenonT(30) DEF Locals, Points
  <2>3. client.closes = (IF s.settled THEN 1 ELSE 0) /\ client.ends = (IF client.left THEN 0 ELSE 1)
    BY <2>1, StateFacts, Zenon DEF EndsOK, Over
  <2>4. client' \in Seen /\ client'.closes = 1 /\ client'.ends = client.ends /\ client'.left = client.left
    BY <2>1, <2>3, StateFacts DEF Seen
  <2>5. held' \in [Pool -> 0..1] /\ \A a \in Pool : held'[a] = 0
    BY <2>1
  <2>6. EndsOK(s', client')
    BY <2>2, <2>3, <2>4, Zenon DEF EndsOK, Over
  <2>7. StateOK(asked, s', held', client')
    BY <2>2, <2>4, <2>5, <2>6, StateFacts, Zenon DEF StateOK, Over, Trying
  <2> QED BY <2>1, <2>7, StateFacts, Zenon DEF RInv
<1>3. CASE Leave
  <2>1. /\ ~Over(s) /\ s' = [s EXCEPT !.pc = "finally"] /\ client' = [client EXCEPT !.left = TRUE]
        /\ asked' = asked /\ held' = held /\ late' = late
    BY <1>3, Zenon DEF Leave, Over
  <2>2. client.ends = 0 /\ client.closes = 0 /\ ~s.settled
    BY <2>1, StateFacts, Zenon DEF EndsOK
  <2>3. s' \in Locals /\ s'.pc = "finally" /\ s'.settled = s.settled
    BY <2>1, StateFacts, ZenonT(30) DEF Locals, Points
  <2>4. client' \in Seen /\ client'.left = TRUE /\ client'.ends = 0 /\ client'.closes = 0
    BY <2>1, <2>2, StateFacts, ZenonT(30) DEF Seen
  <2>5. StateOK(asked, s', held, client')
    BY <2>2, <2>3, <2>4, StateFacts, StopsOK, Zenon
  <2> QED BY <2>1, <2>5, StateFacts, Zenon DEF RInv
<1>4. CASE Expire \/ UNCHANGED streamVars
    BY <1>4, StateFacts, Zenon DEF Expire, streamVars, RInv
<1> QED BY <1>1, <1>2, <1>3, <1>4

\* Initially nothing is held, bound, shown or settled.
LEMMA InitOK == ASSUME StreamInit PROVE RInv
<1>1. /\ s \in Locals /\ s.pc = "start" /\ s.leased = FALSE /\ s.deferred = None
      /\ s.attempt = 0 /\ s.settled = FALSE
  <2>1. asked.anchor \in BOOLEAN /\ asked.verified \in BOOLEAN
    BY DEF StreamInit, Asked
  <2> QED BY StreamAssumption, <2>1 DEF StreamInit, Locals, Points
<1>2. held \in [Pool -> 0..1] /\ \A a \in Pool : held[a] = 0
    BY DEF StreamInit
<1>3. /\ client \in Seen /\ client.visible = FALSE /\ client.ends = 0 /\ client.closes = 0
      /\ client.left = FALSE
    BY ZenonT(30) DEF StreamInit, Seen
<1>4. SlotOK(s, held) /\ s.attempt < MaxAttempts
  <2>1. s.attempt < MaxAttempts
    BY StreamAssumption, <1>1
  <2> QED BY StreamAssumption, <1>1, <1>2, <2>1, Zenon DEF SlotOK
<1>5. EndsOK(s, client)
    BY <1>1, <1>3, Zenon DEF EndsOK, Over
<1>6. asked \in Asked /\ late \in BOOLEAN
    BY Zenon DEF StreamInit
<1> QED BY <1>1, <1>2, <1>3, <1>4, <1>5, <1>6, Zenon DEF RInv, StateOK, Over, Trying

\* Every step keeps the invariant.
LEMMA StepOK == ASSUME RInv, [StreamNext]_streamVars PROVE RInv'
BY ResolveOK, SelectingOK, AttemptingOK, OtherOK, Zenon DEF StreamNext

-----------------------------------------------------------------------------
(* The theorems.                                                           *)

\* The locals of the stream generator keep their types: no attempt, try or wait
\* is counted beyond its limit, and no account's slots beyond the attempts.
THEOREM TypeCorrect == StreamSpec => []StreamTypeOK
<1>1. ASSUME RInv PROVE StreamTypeOK
  <2>1. \A a \in Pool : held[a] \in 0..MaxAttempts
    BY StreamAssumption, <1>1, StateFacts
  <2>2. held \in [Pool -> 0..MaxAttempts]
    BY <1>1, <2>1, StateFacts
  <2> QED BY <1>1, <2>2, StateFacts, Parts, Zenon DEF StreamTypeOK, Points
<1> QED BY <1>1, InitOK, StepOK, PTL DEF StreamSpec

\* While an attempt streams, its account's slot is the only one the request
\* holds; when the generator is done it holds none, its reservation was closed
\* once and its client got one ending, unless the client had left
\* (_release_tracked_stream_lease and the finally block of retry.py).
THEOREM SlotsBalance == StreamSpec => []SlotsAccounted
<1>1. ASSUME RInv PROVE SlotsAccounted
  <2>1. ASSUME Streaming PROVE held = [a \in Pool |-> IF a = s.account THEN 1 ELSE 0]
    <3>1. ~Over(s) /\ Trying(s)
      BY <2>1, Zenon DEF Streaming, Over, Trying
    <3>2. s.leased /\ s.deferred = None /\ SlotOK(s, held)
      BY <1>1, <3>1, StateFacts, FreedOK, Zenon
    <3>3. \A a \in Pool : held[a] = IF a = s.account THEN 1 ELSE 0
      BY StreamAssumption, <3>2, Zenon DEF SlotOK
    <3> QED BY <1>1, <3>3, StateFacts
  <2>2. EndsClean
    BY <1>1, Zenon DEF RInv, StateOK, EndsClean, EndsOK, Over
  <2> QED BY <2>1, <2>2, Zenon DEF SlotsAccounted, OneSlotWhileStreaming
<1> QED BY <1>1, InitOK, StepOK, PTL DEF StreamSpec

\* No attempt goes to an account that was excluded, to another account than the
\* owner with the anchor of a continued response, or away from the account of
\* an uploaded file.
THEOREM AttemptsOnRightAccount == StreamSpec => []RightAccount
<1>1. ASSUME RInv PROVE RightAccount
  <2> SUFFICES ASSUME Streaming
               PROVE  /\ s.account \notin s.excluded
                      /\ s.anchored /\ asked.owner # None => s.account = asked.owner
                      /\ asked.file # None /\ ~asked.anchor => s.account = asked.file
    BY DEF RightAccount
  <2>1. Trying(s)
    BY Zenon DEF Streaming, Trying
  <2>2. BoundOK(asked, s) /\ TryingOK(asked, s)
    BY <1>1, <2>1, StateFacts, FreedOK, Zenon
  <2> QED BY <2>2, Zenon DEF BoundOK, TryingOK, FileBound
<1> QED BY <1>1, InitOK, StepOK, PTL DEF StreamSpec

\* Nothing is sent upstream again once a line was shown to the client: every
\* retry of retry.py is taken only before that.
THEOREM VisibleNotReplayed == StreamSpec => NoReplayOnceVisible
<1>1. ASSUME RInv, [StreamNext]_streamVars, client.visible PROVE client'.sends = client.sends
  <2>1. ~Hidden /\ ~Refreshing /\ s.pc # "start" /\ s.pc # "select"
    BY <1>1, StateFacts, Zenon DEF Hidden, EndsOK, Refreshing
  <2>2. ASSUME client' \in {client, [client EXCEPT !.ends = client.ends + 1],
                            [client EXCEPT !.ends = client.ends + 1, !.closes = client.closes + 1],
                            [client EXCEPT !.left = TRUE]}
                     \/ \E n : client' = [client EXCEPT !.closes = n]
        PROVE client'.sends = client.sends
    BY <1>1, <2>2, StateFacts, ZenonT(30) DEF Seen
  <2>3. CASE Resolve \/ Selecting
    BY <2>1, <2>3, Zenon DEF Resolve, Selecting, SelectionFails, NoAuthorized, Resume, Select,
                              WaitForCapacity, NoneSelected
  <2>4. CASE Attempting
    <3>1. Completes
      BY <2>1, <2>4, Zenon DEF Attempting, Refreshed, NoRoute, RefreshRefused, RefreshContended,
           RefreshLost, Rejected, Retryable, Unauthorized, Capped, NetworkRecovery, Transient,
           FailsOver, Surfaces, NotAuthenticated
    <3> QED BY <2>2, <3>1, Zenon DEF Completes, SettleAndEnd
  <2>5. CASE Shows
    BY <2>1, <2>5, Zenon DEF Shows
  <2>6. CASE Finally \/ Leave \/ Expire \/ UNCHANGED streamVars
    BY <2>2, <2>6, Zenon DEF Finally, Leave, Expire, streamVars
  <2> QED BY <1>1, <2>3, <2>4, <2>5, <2>6, Zenon DEF StreamNext
<1>2. RInv /\ [StreamNext]_streamVars => [client.visible => client'.sends = client.sends]_streamVars
    BY <1>1
<1> QED BY <1>2, InitOK, StepOK, PTL DEF StreamSpec, NoReplayOnceVisible

==============================================================================
