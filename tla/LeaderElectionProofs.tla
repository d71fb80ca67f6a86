------------------------ MODULE LeaderElectionProofs ------------------------
(***************************************************************************)
(* For any number of replicas and schedulers, any lease time and any bound *)
(* on the travel of an answer: the deadlines that gated work runs under    *)
(* stay within the lease in the database plus one answer's travel, so that *)
(* two leaders overlap by less than that travel; and a replica whose       *)
(* database calls are punctual keeps the lease that its gated work, or its *)
(* shutdown, depends on.  Leaves that need no arithmetic are sent straight *)
(* to Zenon.                                                               *)
(***************************************************************************)
EXTENDS LeaderElection, TLAPS

Left(r, p) == IF r.leader = p THEN r.left ELSE -1

\* What is known of a gate whose process has left ticks of lease in the row.
TaskOK(left, t) ==
    /\ t.hb \in {"sleep", "renew"} => t.deadline <= left + MaxTransit /\ t.timer <= t.deadline
    /\ t.call = "ours" => Ttl - t.age <= left
    /\ t.call = "commit" => Ttl - t.age <= left + MaxTransit
    /\ t.call # "none" => t.hb \in {"acquire", "renew"}
    /\ t.body = "run" => t.hb \in {"sleep", "renew"}

TasksOK == \A p \in Processes, s \in Schedulers : TaskOK(Left(row, p), task[p][s])

LeasesOK == \A p \in Processes : lease[p] > 0 => lease[p] <= Left(row, p) + MaxTransit

\* A process that stopped its schedulers has no gate left and no deadline.
Quiet ==
    \A p \in Processes :
        phase[p] \in {"releasing", "released", "down"} =>
            lease[p] = 0 /\ \A s \in Schedulers : task[p][s] = Stopped

IInv == TypeOK /\ TasksOK /\ LeasesOK /\ Quiet

\* The intervals of the heartbeat fit in the lease.
LEMMA Intervals ==
    /\ RenewInterval \in 1..Ttl
    /\ RenewTimeout \in 1..Ttl
  BY LeaderAssumption DEF RenewInterval, RenewTimeout, Larger

\* Zero is in every range, and a full grace is a grace.
LEMMA Zeros ==
    /\ 0 \in 0..Ttl /\ 0 \in 0..MaxErrors /\ 0 \in 0..MaxTransit
    /\ 0 \in 0..CancelGrace /\ CancelGrace \in 0..CancelGrace
  BY LeaderAssumption

\* An idle gate and a stopped one are well typed.
LEMMA FixedTasks == NoTask \in TaskStates /\ Stopped \in TaskStates
  BY LeaderAssumption DEF NoTask, Stopped, TaskStates, Bodies, Beats, CallStages

\* A gate that has sent try_acquire knows nothing yet.
LEMMA AskingOK ==
    ASSUME NEW left \in -1..Ttl
    PROVE  LET asking == [NoTask EXCEPT !.hb = "acquire", !.call = "sent"]
           IN  asking \in TaskStates /\ TaskOK(left, asking)
  <1> DEFINE asking == [NoTask EXCEPT !.hb = "acquire", !.call = "sent"]
  <1>1. /\ asking.hb = "acquire" /\ asking.call = "sent" /\ asking.body = "none"
        /\ asking \in TaskStates
    BY Zenon, FixedTasks DEF NoTask, TaskStates, Beats, CallStages
  <1>2. TaskOK(left, asking)
    BY Zenon, <1>1 DEF TaskOK
  <1> QED
    BY Zenon, <1>1, <1>2

\* A gate that sleeps under a good deadline is a good gate.
LEMMA SleepOK ==
    ASSUME NEW t \in TaskStates, NEW d \in 1..Ttl, NEW e \in 0..MaxErrors,
           NEW left \in -1..Ttl, d <= left + MaxTransit
    PROVE  Sleep(t, d, e) \in TaskStates /\ TaskOK(left, Sleep(t, d, e))
  <1> DEFINE w == Smaller(RenewInterval, NotNegative(d - RenewTimeout))
  <1>1. w \in 0..Ttl /\ w <= d
    BY Intervals, LeaderAssumption DEF Smaller, NotNegative, Larger
  <1>2. Sleep(t, d, e) = [body |-> t.body, hb |-> "sleep", deadline |-> d, errors |-> e,
                          timer |-> w, grace |-> t.grace, call |-> "none", age |-> 0]
    BY Zenon DEF Sleep
  <1> HIDE DEF w
  <1>3. Sleep(t, d, e) \in TaskStates
    BY <1>1, <1>2, LeaderAssumption DEF TaskStates, Beats, CallStages
  <1>4. /\ Sleep(t, d, e).hb = "sleep" /\ Sleep(t, d, e).call = "none"
        /\ Sleep(t, d, e).deadline = d /\ Sleep(t, d, e).timer = w
    BY <1>2 DEF TaskStates
  <1>5. TaskOK(left, Sleep(t, d, e))
    BY Zenon, <1>1, <1>4 DEF TaskOK
  <1> QED
    BY Zenon, <1>3, <1>5

\* A body that starts under a good deadline makes a good gate (run_if_leader).
LEMMA StartedOK ==
    ASSUME NEW d \in 1..Ttl, NEW left \in -1..Ttl, d <= left + MaxTransit
    PROVE  Started(d) \in TaskStates /\ TaskOK(left, Started(d))
  <1>1. [NoTask EXCEPT !.body = "run"] \in TaskStates
    BY Zenon, FixedTasks DEF NoTask, TaskStates, Bodies
  <1>2. 0 \in 0..MaxErrors
    BY LeaderAssumption
  <1> QED
    BY Zenon, <1>1, <1>2, SleepOK DEF Started

\* A gate whose heartbeat lost the lease runs no uncancelled body.
LEMMA LostOK ==
    ASSUME NEW t \in TaskStates, NEW left \in -1..Ttl
    PROVE  Lost(t) \in TaskStates /\ TaskOK(left, Lost(t))
  <1> DEFINE lost(b, g) == [body |-> b, hb |-> "none", deadline |-> 0, errors |-> 0,
                            timer |-> 0, grace |-> g, call |-> "none", age |-> 0]
  <1>1. PICK b \in Bodies \ {"run"}, g \in 0..CancelGrace : Lost(t) = lost(b, g)
    <2>1. CASE t.body = "run"
      <3>1. Lost(t) = lost("cancelled", CancelGrace)
        BY Zenon, <2>1 DEF Lost, NoTask
      <3> QED
        BY <3>1, LeaderAssumption DEF Bodies
    <2>2. CASE t.body # "run"
      <3>1. Lost(t) = lost(t.body, t.grace)
        BY Zenon, <2>2 DEF Lost, NoTask
      <3> QED
        BY Zenon, <2>2, <3>1 DEF TaskStates
    <2> QED
      BY Zenon, <2>1, <2>2
  <1>2. Lost(t) \in TaskStates
    BY <1>1, LeaderAssumption DEF TaskStates, Beats, CallStages
  <1>3. TaskOK(left, Lost(t))
    BY <1>1 DEF TaskOK
  <1> QED
    BY Zenon, <1>2, <1>3

\* An idle gate and a stopped one need no lease.
LEMMA FixedOK ==
    ASSUME NEW left \in -1..Ttl
    PROVE  TaskOK(left, NoTask) /\ TaskOK(left, Stopped)
  BY Zenon DEF TaskOK, NoTask, Stopped

\* More lease never hurts a gate.
LEMMA MoreLease ==
    ASSUME NEW t \in TaskStates, NEW left \in -1..Ttl, NEW more \in -1..Ttl,
           left <= more, TaskOK(left, t)
    PROVE  TaskOK(more, t)
  BY LeaderAssumption DEF TaskOK, TaskStates

\* The time a process has left in the row is at least -1, for none.
LEMMA LeftType ==
    ASSUME NEW r \in [leader: Processes \cup {NoProcess}, left: -1..Ttl], NEW p \in Processes
    PROVE  Left(r, p) \in -1..Ttl
  BY LeaderAssumption DEF Left

\* A guarded statement only ever lengthens what a process has left.
LEMMA GrantGrows ==
    ASSUME row \in [leader: Processes \cup {NoProcess}, left: -1..Ttl],
           NEW p \in Processes, CanAcquire(p) \/ CanRenew(p)
    PROVE  /\ Granted(p) \in [leader: Processes \cup {NoProcess}, left: -1..Ttl]
           /\ Left(Granted(p), p) = Ttl
           /\ \A q \in Processes : Left(row, q) <= Left(Granted(p), q)
  BY LeaderAssumption DEF Granted, Left, CanAcquire, CanRenew

\* One gate changes and nothing that its siblings rely on gets worse.
LEMMA GateChange ==
    ASSUME IInv, NEW p \in Processes, NEW s \in Schedulers, NEW t \in TaskStates,
           SetTask(p, s, t), task[p][s] # Stopped, TaskOK(Left(row', p), t),
           row' \in [leader: Processes \cup {NoProcess}, left: -1..Ttl],
           \A q \in Processes : Left(row, q) <= Left(row', q),
           isLeader' \in [Processes -> BOOLEAN],
           lease' \in [Processes -> 0..Ttl],
           \A q \in Processes : \/ lease'[q] = lease[q]
                                \/ q = p /\ (lease'[q] = 0 \/ lease'[q] <= Left(row', q) + MaxTransit),
           detached' \in [Processes -> SUBSET Schedulers],
           orphan' \in [Processes -> SUBSET Schedulers],
           UNCHANGED <<phase, keeper, drain>>
    PROVE  IInv'
  <1>1. task' \in [Processes -> [Schedulers -> TaskStates]]
    BY Zenon DEF IInv, TypeOK, SetTask
  <1>2. TypeOK'
    BY Zenon, <1>1 DEF IInv, TypeOK
  <1>3. \A q \in Processes, r \in Schedulers :
            task'[q][r] = IF q = p /\ r = s THEN t ELSE task[q][r]
    BY Zenon DEF IInv, TypeOK, SetTask
  <1>4. \A q \in Processes : Left(row, q) \in -1..Ttl /\ Left(row', q) \in -1..Ttl
    BY Zenon, LeftType DEF IInv, TypeOK
  <1>5. TasksOK'
    <2> SUFFICES ASSUME NEW q \in Processes, NEW r \in Schedulers
                 PROVE  TaskOK(Left(row', q), task'[q][r])
      BY Zenon DEF TasksOK, TaskOK, Left
    <2>1. CASE q = p /\ r = s
      BY Zenon, <1>3, <2>1
    <2>2. CASE ~(q = p /\ r = s)
      <3>1. TaskOK(Left(row, q), task[q][r]) /\ task[q][r] \in TaskStates
        BY DEF IInv, TypeOK, TasksOK
      <3> QED
        BY Zenon, <1>3, <1>4, <2>2, <3>1, MoreLease
    <2> QED
      BY Zenon, <2>1, <2>2
  <1>6. LeasesOK'
    <2> SUFFICES ASSUME NEW q \in Processes, lease'[q] > 0
                 PROVE  lease'[q] <= Left(row', q) + MaxTransit
      BY Zenon DEF LeasesOK, Left
    <2>1. CASE lease'[q] = lease[q]
      <3>1. lease[q] <= Left(row, q) + MaxTransit
        BY Zenon, <2>1 DEF IInv, LeasesOK
      <3> QED
        BY <1>4, <2>1, <3>1, LeaderAssumption DEF IInv, TypeOK
    <2> QED
      BY <2>1
  <1>7. Quiet'
    BY <1>3 DEF IInv, Quiet
  <1> QED
    BY Zenon, <1>2, <1>5, <1>6, <1>7 DEF IInv

\* Clearing the flag and the deadline touches one process only.
LEMMA DemoteShape ==
    ASSUME TypeOK, NEW p \in Processes, Demote(p)
    PROVE  /\ isLeader' \in [Processes -> BOOLEAN]
           /\ lease' \in [Processes -> 0..Ttl]
           /\ \A q \in Processes : lease'[q] = IF q = p THEN 0 ELSE lease[q]
  BY LeaderAssumption DEF TypeOK, Demote

\* A step of one gate that leaves the row alone and keeps or gives up the
\* shared leadership.
LEMMA LocalChange ==
    ASSUME IInv, NEW p \in Processes, NEW s \in Schedulers, NEW t \in TaskStates,
           SetTask(p, s, t), task[p][s] # Stopped, TaskOK(Left(row, p), t),
           UNCHANGED <<isLeader, lease>> \/ Demote(p),
           detached' \in [Processes -> SUBSET Schedulers],
           orphan' \in [Processes -> SUBSET Schedulers],
           UNCHANGED <<row, phase, keeper, drain>>
    PROVE  IInv'
  <1>1. TypeOK
    BY Zenon DEF IInv
  <1>2. \A q \in Processes : Left(row, q) \in -1..Ttl
    BY Zenon, <1>1, LeftType DEF TypeOK
  <1>3. /\ isLeader' \in [Processes -> BOOLEAN]
        /\ lease' \in [Processes -> 0..Ttl]
        /\ \A q \in Processes : lease'[q] = lease[q] \/ (q = p /\ lease'[q] = 0)
    <2>1. CASE UNCHANGED <<isLeader, lease>>
      BY Zenon, <1>1, <2>1 DEF TypeOK
    <2>2. CASE Demote(p)
      BY Zenon, <1>1, <2>2, DemoteShape
    <2> QED
      BY Zenon, <2>1, <2>2
  <1>4. row' = row /\ row' \in [leader: Processes \cup {NoProcess}, left: -1..Ttl]
    BY Zenon, <1>1 DEF TypeOK
  <1>5. \A q \in Processes : Left(row, q) <= Left(row', q)
    BY <1>2, <1>4
  <1> QED
    BY Zenon, <1>3, <1>4, <1>5, GateChange

\* What a gate is before its step.
LEMMA GateFacts ==
    ASSUME IInv, NEW p \in Processes, NEW s \in Schedulers
    PROVE  /\ task[p][s] \in TaskStates
           /\ Left(row, p) \in -1..Ttl
           /\ TaskOK(Left(row, p), task[p][s])
           /\ lease[p] \in 0..Ttl
           /\ lease[p] > 0 => lease[p] <= Left(row, p) + MaxTransit
           /\ isLeader[p] \in BOOLEAN
           /\ row \in [leader: Processes \cup {NoProcess}, left: -1..Ttl]
           /\ detached \in [Processes -> SUBSET Schedulers]
           /\ orphan \in [Processes -> SUBSET Schedulers]
  BY LeftType DEF IInv, TypeOK, TasksOK, LeasesOK

\* A stopped gate has no body, no heartbeat and no call.
LEMMA StoppedFields ==
    Stopped.body = "stopped" /\ Stopped.hb = "none" /\ Stopped.call = "none"
  BY Zenon DEF Stopped, NoTask

\* A failing try_acquire keeps the lease that is still good, or demotes.
LEMMA AcquireErrorsInv ==
    ASSUME IInv, NEW p \in Processes, NEW s \in Schedulers, AcquireErrors(p, s),
           task[p][s] # Stopped, UNCHANGED <<row, phase, detached, orphan, keeper, drain>>
    PROVE  IInv'
  <1>1. CASE isLeader[p] /\ lease[p] > 0
    <2>1. SetTask(p, s, Started(lease[p])) /\ UNCHANGED <<isLeader, lease>>
      BY Zenon, <1>1 DEF AcquireErrors
    <2>2. lease[p] \in 1..Ttl
      BY <1>1, GateFacts
    <2>3. Started(lease[p]) \in TaskStates /\ TaskOK(Left(row, p), Started(lease[p]))
      BY Zenon, <1>1, <2>2, GateFacts, StartedOK
    <2> QED
      BY Zenon, <2>1, <2>3, GateFacts, LocalChange
  <1>2. CASE ~(isLeader[p] /\ lease[p] > 0)
    <2>1. SetTask(p, s, NoTask) /\ Demote(p)
      BY Zenon, <1>2 DEF AcquireErrors
    <2> QED
      BY Zenon, <2>1, FixedTasks, FixedOK, GateFacts, LocalChange
  <1> QED
    BY Zenon, <1>1, <1>2

\* A failing renewal keeps the larger of the two known deadlines, or gives up.
LEMMA RenewErrorsInv ==
    ASSUME IInv, NEW p \in Processes, NEW s \in Schedulers, RenewErrors(p, s),
           task[p][s].hb = "renew", UNCHANGED <<row, phase, detached, orphan, keeper, drain>>
    PROVE  IInv'
  <1> DEFINE t == task[p][s]
             d == Larger(t.deadline, lease[p])
             patient == t.errors + 1 < MaxErrors /\ t.deadline > 0
             fresher == isLeader[p] /\ lease[p] > t.deadline
  <1>1. t # Stopped
    BY Zenon, StoppedFields
  <1>2. t.deadline \in 0..Ttl /\ t.deadline <= Left(row, p) + MaxTransit /\ t.errors \in 0..MaxErrors
    BY Zenon, GateFacts DEF TaskOK, TaskStates
  <1>3. CASE patient
    <2>1. SetTask(p, s, Sleep(t, d, t.errors + 1)) /\ UNCHANGED <<isLeader, lease>>
      BY Zenon, <1>3 DEF RenewErrors
    <2>2. d \in 1..Ttl /\ d <= Left(row, p) + MaxTransit /\ t.errors + 1 \in 0..MaxErrors
      BY <1>2, <1>3, GateFacts, LeaderAssumption DEF Larger
    <2>3. Sleep(t, d, t.errors + 1) \in TaskStates /\ TaskOK(Left(row, p), Sleep(t, d, t.errors + 1))
      BY Zenon, <2>2, GateFacts, SleepOK
    <2> QED
      BY Zenon, <1>1, <2>1, <2>3, GateFacts, LocalChange
  <1>4. CASE ~patient /\ fresher
    <2>1. SetTask(p, s, Sleep(t, lease[p], 0)) /\ UNCHANGED <<isLeader, lease>>
      BY Zenon, <1>4 DEF RenewErrors
    <2>2. lease[p] \in 1..Ttl /\ lease[p] <= Left(row, p) + MaxTransit /\ 0 \in 0..MaxErrors
      BY <1>2, <1>4, GateFacts, LeaderAssumption
    <2>3. Sleep(t, lease[p], 0) \in TaskStates /\ TaskOK(Left(row, p), Sleep(t, lease[p], 0))
      BY Zenon, <2>2, GateFacts, SleepOK
    <2> QED
      BY Zenon, <1>1, <2>1, <2>3, GateFacts, LocalChange
  <1>5. CASE ~patient /\ ~fresher
    <2>1. SetTask(p, s, Lost(t)) /\ Demote(p)
      BY Zenon, <1>5 DEF RenewErrors
    <2> QED
      BY Zenon, <1>1, <2>1, GateFacts, LostOK, LocalChange
  <1> QED
    BY Zenon, <1>3, <1>4, <1>5

\* Every step of one run_if_leader gate keeps the invariant.
LEMMA GateStepInv ==
    ASSUME IInv, NEW p \in Processes, NEW s \in Schedulers, GateStep(p, s)
    PROVE  IInv'
  <1> DEFINE t == task[p][s]
             l == Left(row, p)
  <1>0. /\ t \in TaskStates /\ l \in -1..Ttl /\ TaskOK(l, t)
        /\ t.age \in 0..MaxTransit /\ t.deadline \in 0..Ttl /\ t.errors \in 0..MaxErrors
    BY Zenon, GateFacts DEF TaskStates
  <1>1. CASE TryAcquire(p, s)
    <2> DEFINE new == [NoTask EXCEPT !.hb = "acquire", !.call = "sent"]
    <2>1. new \in TaskStates /\ TaskOK(l, new)
      BY Zenon, <1>0, AskingOK
    <2>2. t # Stopped
      BY <1>1, StoppedFields DEF TryAcquire, NoTask
    <2>3. SetTask(p, s, new) /\ UNCHANGED <<row, phase, isLeader, lease, detached, orphan, keeper, drain>>
      BY Zenon, <1>1 DEF TryAcquire
    <2> QED
      BY Zenon, <2>1, <2>2, <2>3, GateFacts, LocalChange
  <1>2. CASE Execute(p, s)
    <2> DEFINE ours == IF t.hb = "acquire" THEN CanAcquire(p) ELSE CanRenew(p)
               new == [t EXCEPT !.call = IF ours THEN "ours" ELSE "lost", !.age = 0]
    <2>1. /\ t.call = "sent" /\ SetTask(p, s, new)
          /\ row' = IF ours THEN Granted(p) ELSE row
          /\ UNCHANGED <<phase, isLeader, lease, detached, orphan, keeper, drain>>
      BY Zenon, <1>2 DEF Execute
    <2>2. t # Stopped /\ t.hb \in {"acquire", "renew"}
      BY Zenon, <1>0, <2>1, StoppedFields DEF TaskOK
    <2>3. new \in TaskStates
      BY Zenon, <1>0, Zeros DEF TaskStates, CallStages
    <2>4. CASE ours
      <3>1. /\ row' \in [leader: Processes \cup {NoProcess}, left: -1..Ttl]
            /\ Left(row', p) = Ttl
            /\ \A q \in Processes : Left(row, q) <= Left(row', q)
        BY Zenon, <2>1, <2>4, GateFacts, GrantGrows
      <3>2. TaskOK(Ttl, new)
        BY <1>0, <2>2, <2>4, LeaderAssumption DEF TaskOK, TaskStates
      <3> QED
        BY Zenon, <2>1, <2>2, <2>3, <3>1, <3>2, GateChange DEF IInv, TypeOK
    <2>5. CASE ~ours
      <3>1. TaskOK(l, new)
        BY Zenon, <1>0, <2>2, <2>5, LeaderAssumption DEF TaskOK, TaskStates
      <3> QED
        BY Zenon, <2>1, <2>2, <2>3, <2>5, <3>1, GateFacts, LocalChange
    <2> QED
      BY Zenon, <2>4, <2>5
  <1>3. CASE Receive(p, s)
    <2>0. UNCHANGED <<row, phase, detached, orphan, keeper, drain>>
      BY Zenon, <1>3 DEF Receive
    <2>1. CASE t.call = "lost"
      <3> DEFINE new == IF t.hb = "acquire" THEN NoTask ELSE Lost(t)
      <3>1. SetTask(p, s, new) /\ Demote(p)
        BY Zenon, <1>3, <2>1 DEF Receive
      <3>2. new \in TaskStates /\ TaskOK(l, new)
        BY Zenon, <1>0, FixedTasks, FixedOK, LostOK
      <3>3. t # Stopped
        BY Zenon, <2>1, StoppedFields
      <3> QED
        BY Zenon, <2>0, <3>1, <3>2, <3>3, GateFacts, LocalChange
    <2>2. CASE t.call = "ours"
      <3> DEFINE new == [t EXCEPT !.call = "commit", !.age = 0]
      <3>1. SetTask(p, s, new) /\ UNCHANGED <<isLeader, lease>>
        BY Zenon, <1>3, <2>2 DEF Receive
      <3>2. new \in TaskStates
        BY Zenon, <1>0, Zeros DEF TaskStates, CallStages
      <3>3. Ttl - t.age <= l /\ t.hb \in {"acquire", "renew"}
        BY Zenon, <1>0, <2>2 DEF TaskOK
      <3>4. Ttl <= l + MaxTransit
        BY <1>0, <3>3, LeaderAssumption
      <3>5. TaskOK(l, new)
        BY <1>0, <3>3, <3>4, LeaderAssumption DEF TaskOK, TaskStates
      <3>6. t # Stopped
        BY Zenon, <2>2, StoppedFields
      <3> QED
        BY Zenon, <2>0, <3>1, <3>2, <3>5, <3>6, GateFacts, LocalChange
    <2> QED
      BY Zenon, <1>3, <2>1, <2>2 DEF Receive
  <1>4. CASE Committed(p, s)
    <2> DEFINE a == Ttl - t.age
    <2>1. /\ t.call = "commit"
          /\ lease' = [lease EXCEPT ![p] = a]
          /\ UNCHANGED <<row, phase, detached, orphan, keeper, drain>>
      BY Zenon, <1>4 DEF Committed
    <2>2. a \in 1..Ttl /\ a <= l + MaxTransit /\ t # Stopped
      BY <1>0, <2>1, LeaderAssumption, StoppedFields DEF TaskOK
    <2>3. PICK new \in TaskStates : SetTask(p, s, new) /\ TaskOK(l, new)
      <3>1. CASE t.hb = "acquire"
        <4>1. SetTask(p, s, Started(a))
          BY Zenon, <1>4, <3>1 DEF Committed
        <4> QED
          BY Zenon, <1>0, <2>2, <4>1, StartedOK
      <3>2. CASE t.hb = "renew"
        <4>1. SetTask(p, s, Sleep(t, a, 0)) /\ 0 \in 0..MaxErrors
          BY <1>4, <3>2, LeaderAssumption DEF Committed
        <4> QED
          BY Zenon, <1>0, <2>2, <4>1, SleepOK
      <3> QED
        BY Zenon, <1>4, <3>1, <3>2 DEF Committed
    <2>4. isLeader' \in [Processes -> BOOLEAN]
      BY Zenon, <1>4 DEF Committed, IInv, TypeOK
    <2> HIDE DEF a
    <2>5. /\ lease' \in [Processes -> 0..Ttl]
          /\ \A q \in Processes : lease'[q] = IF q = p THEN a ELSE lease[q]
      BY <2>1, <2>2, LeaderAssumption DEF IInv, TypeOK
    <2>6. row' = row /\ Left(row', p) = l /\ \A q \in Processes : Left(row, q) <= Left(row', q)
      BY <2>1, LeftType DEF IInv, TypeOK
    <2> QED
      BY Zenon, <2>1, <2>2, <2>3, <2>4, <2>5, <2>6, GateFacts, GateChange
  <1>5. CASE CallFails(p, s)
    <2>1. t.call # "none" /\ UNCHANGED <<row, phase, detached, orphan, keeper, drain>>
      BY Zenon, <1>5 DEF CallFails
    <2>2. t # Stopped /\ t.hb \in {"acquire", "renew"}
      BY Zenon, <1>0, <2>1, StoppedFields DEF TaskOK
    <2>3. CASE t.hb = "acquire"
      BY Zenon, <1>5, <2>1, <2>2, <2>3, AcquireErrorsInv DEF CallFails
    <2>4. CASE t.hb = "renew"
      BY Zenon, <1>5, <2>1, <2>4, RenewErrorsInv DEF CallFails
    <2> QED
      BY Zenon, <2>2, <2>3, <2>4
  <1>6. CASE Wake(p, s)
    <2> DEFINE w == Smaller(RenewTimeout, t.deadline)
               new == [t EXCEPT !.hb = "renew", !.call = "sent", !.timer = w]
    <2>1. /\ t.hb = "sleep" /\ SetTask(p, s, IF isLeader[p] THEN new ELSE Lost(t))
          /\ UNCHANGED <<row, phase, isLeader, lease, detached, orphan, keeper, drain>>
      BY Zenon, <1>6 DEF Wake
    <2>2. w \in 0..Ttl /\ w <= t.deadline /\ t # Stopped
      BY <1>0, <2>1, Intervals, LeaderAssumption, StoppedFields DEF Smaller
    <2>3. new \in TaskStates
      BY Zenon, <1>0, <2>2 DEF TaskStates, Beats, CallStages
    <2>4. TaskOK(l, new)
      BY Zenon, <1>0, <2>1, <2>2 DEF TaskOK, TaskStates
    <2> HIDE DEF new
    <2> QED
      BY Zenon, <1>0, <2>1, <2>2, <2>3, <2>4, LostOK, GateFacts, LocalChange
  <1>7. CASE RenewTimesOut(p, s)
    BY Zenon, <1>7, RenewErrorsInv DEF RenewTimesOut
  <1>8. CASE BodyDone(p, s) \/ GraceOver(p, s)
    <2> DEFINE new == IF t.body = "closing" THEN Stopped ELSE NoTask
    <2>1. /\ SetTask(p, s, new) /\ t # Stopped
          /\ UNCHANGED <<row, phase, isLeader, lease, orphan, keeper, drain>>
      BY Zenon, <1>8, StoppedFields DEF BodyDone, GraceOver
    <2>2. detached' \in [Processes -> SUBSET Schedulers]
      BY <1>8 DEF BodyDone, GraceOver, IInv, TypeOK
    <2>3. new \in TaskStates /\ TaskOK(l, new)
      BY Zenon, <1>0, FixedTasks, FixedOK
    <2> QED
      BY Zenon, <2>1, <2>2, <2>3, GateFacts, LocalChange
  <1>9. CASE LingeringDone(p, s)
    <2>1. TypeOK'
      BY Zenon, <1>9 DEF LingeringDone, IInv, TypeOK
    <2> QED
      BY Zenon, <1>9, <2>1 DEF LingeringDone, IInv, TasksOK, LeasesOK, Quiet
  <1>10. CASE StopScheduler(p, s)
    <2> DEFINE closing == [t EXCEPT !.body = "closing", !.grace = CancelGrace]
    <2>1. closing \in TaskStates
      BY Zenon, <1>0, Zeros DEF TaskStates, Bodies
    <2>2. TaskOK(l, closing)
      BY Zenon, <1>0 DEF TaskOK, TaskStates
    <2>3. t # Stopped /\ UNCHANGED <<row, phase, isLeader, lease, detached, keeper, drain>>
      BY Zenon, <1>10, StoppedFields DEF StopScheduler
    <2>4. orphan' \in [Processes -> SUBSET Schedulers]
      BY <1>10 DEF StopScheduler, IInv, TypeOK
    <2>5. SetTask(p, s, Stopped) \/ SetTask(p, s, closing)
      BY Zenon, <1>10 DEF StopScheduler
    <2> HIDE DEF closing
    <2> QED
      BY Zenon, <1>0, <2>1, <2>2, <2>3, <2>4, <2>5, FixedTasks, FixedOK, GateFacts, LocalChange
  <1> QED
    BY Zenon, <1>1, <1>2, <1>3, <1>4, <1>5, <1>6, <1>7, <1>8, <1>9, <1>10 DEF GateStep

\* Shutdown, release and the end of a process keep the invariant.
LEMMA ProcessStepInv ==
    ASSUME IInv, NEW p \in Processes, ProcessStep(p)
    PROVE  IInv'
  <1>0. TypeOK /\ \A q \in Processes : Left(row, q) \in -1..Ttl
    BY Zenon, LeftType DEF IInv, TypeOK
  <1>1. CASE BeginShutdown(p)
    <2>1. TypeOK'
      BY <1>0, <1>1, Intervals, LeaderAssumption DEF BeginShutdown, TypeOK, Phases
    <2>2. Quiet'
      BY Zenon, <1>0, <1>1 DEF BeginShutdown, IInv, Quiet, TypeOK
    <2> QED
      BY Zenon, <1>1, <2>1, <2>2 DEF BeginShutdown, IInv, TasksOK, LeasesOK
  <1>2. CASE KeeperRenews(p)
    <2>1. UNCHANGED <<phase, isLeader, lease, task, detached, orphan, drain>>
      BY Zenon, <1>2 DEF KeeperRenews
    <2>2. /\ row' \in [leader: Processes \cup {NoProcess}, left: -1..Ttl]
          /\ \A q \in Processes : Left(row, q) <= Left(row', q)
      <3>1. CASE row' = Granted(p) /\ CanRenew(p)
        BY Zenon, <1>0, <3>1, GrantGrows DEF TypeOK
      <3>2. CASE row' = row
        BY <1>0, <3>2 DEF TypeOK
      <3> QED
        BY Zenon, <1>2, <3>1, <3>2 DEF KeeperRenews
    <2>3. keeper' \in [Processes -> -MaxTransit..RenewInterval]
      <3>1. drain[p] \in 0..DrainGrace
        BY Zenon, <1>0 DEF TypeOK
      <3>2. /\ RenewInterval \in -MaxTransit..RenewInterval
            /\ drain[p] > 0 => Smaller(RenewInterval, drain[p]) \in -MaxTransit..RenewInterval
        BY <3>1, Intervals, LeaderAssumption DEF Smaller
      <3> QED
        BY Zenon, <1>0, <1>2, <3>2 DEF KeeperRenews, TypeOK
    <2>4. TypeOK'
      BY Zenon, <1>0, <2>1, <2>2, <2>3 DEF TypeOK
    <2>5. \A q \in Processes : Left(row', q) \in -1..Ttl
      BY Zenon, <2>2, LeftType
    <2>6. TasksOK'
      <3> SUFFICES ASSUME NEW q \in Processes, NEW r \in Schedulers
                   PROVE  TaskOK(Left(row', q), task[q][r])
        BY <2>1 DEF TasksOK, TaskOK, Left
      <3> QED
        BY Zenon, <1>0, <2>2, <2>5, MoreLease DEF IInv, TypeOK, TasksOK
    <2>7. LeasesOK'
      <3> SUFFICES ASSUME NEW q \in Processes, lease[q] > 0
                   PROVE  lease[q] <= Left(row', q) + MaxTransit
        BY Zenon, <2>1 DEF LeasesOK, Left
      <3>1. lease[q] <= Left(row, q) + MaxTransit /\ lease[q] \in 0..Ttl
        BY Zenon, <1>0 DEF IInv, LeasesOK, TypeOK
      <3> QED
        BY <1>0, <2>2, <2>5, <3>1, LeaderAssumption
    <2> QED
      BY Zenon, <2>1, <2>4, <2>6, <2>7 DEF IInv, Quiet
  <1>3. CASE BeginRelease(p)
    <2>1. lease' \in [Processes -> 0..Ttl] /\ isLeader' \in [Processes -> BOOLEAN]
          /\ \A q \in Processes : lease'[q] = IF q = p THEN 0 ELSE lease[q]
      BY Zenon, <1>0, <1>3, DemoteShape DEF BeginRelease
    <2>2. 0 \in -MaxTransit..RenewInterval /\ DrainGrace \in 0..DrainGrace
      BY Intervals, LeaderAssumption
    <2>3. TypeOK'
      BY Zenon, <1>0, <1>3, <2>1, <2>2 DEF BeginRelease, TypeOK, Phases
    <2>4. TasksOK' /\ LeasesOK'
      BY <1>3, <2>1 DEF BeginRelease, IInv, TasksOK, LeasesOK
    <2>5. Quiet'
      BY Zenon, <1>0, <1>3, <2>1 DEF BeginRelease, IInv, Quiet, TypeOK
    <2> QED
      BY Zenon, <2>3, <2>4, <2>5 DEF IInv
  <1>4. CASE Release(p)
    <2>1. UNCHANGED <<isLeader, lease, task, detached, orphan>>
      BY Zenon, <1>4 DEF Release
    <2>2. lease[p] = 0 /\ \A s \in Schedulers : task[p][s] = Stopped
      BY Zenon, <1>4 DEF Release, IInv, Quiet
    <2>3. row' = row \/ (row.leader = p /\ row' = NoRow)
      BY Zenon, <1>4 DEF Release
    <2>4. /\ row' \in [leader: Processes \cup {NoProcess}, left: -1..Ttl]
          /\ \A q \in Processes : q # p => Left(row', q) = Left(row, q)
      BY <1>0, <2>3, LeaderAssumption DEF NoRow, Left, TypeOK
    <2>5. 0 \in -MaxTransit..RenewInterval /\ 0 \in 0..DrainGrace
      BY Intervals, LeaderAssumption
    <2>6. TypeOK'
      BY Zenon, <1>0, <1>4, <2>1, <2>4, <2>5 DEF Release, TypeOK, Phases
    <2>7. TasksOK'
      <3> SUFFICES ASSUME NEW q \in Processes, NEW r \in Schedulers
                   PROVE  TaskOK(Left(row', q), task[q][r])
        BY <2>1 DEF TasksOK, TaskOK, Left
      <3>1. CASE q = p
        BY Zenon, <2>2, <2>4, <3>1, LeftType, FixedOK
      <3>2. CASE q # p
        BY Zenon, <2>4, <3>2 DEF IInv, TasksOK
      <3> QED
        BY Zenon, <3>1, <3>2
    <2>8. LeasesOK'
      <3> SUFFICES ASSUME NEW q \in Processes, lease[q] > 0
                   PROVE  lease[q] <= Left(row', q) + MaxTransit
        BY Zenon, <2>1 DEF LeasesOK, Left
      <3> QED
        BY <2>2, <2>4 DEF IInv, LeasesOK
    <2>9. Quiet'
      BY <1>0, <1>4, <2>1, <2>2 DEF Release, IInv, Quiet, TypeOK
    <2> QED
      BY Zenon, <2>6, <2>7, <2>8, <2>9 DEF IInv
  <1>5. CASE ProcessEnds(p)
    <2>1. lease' \in [Processes -> 0..Ttl] /\ isLeader' \in [Processes -> BOOLEAN]
          /\ \A q \in Processes : lease'[q] = IF q = p THEN 0 ELSE lease[q]
      BY Zenon, <1>0, <1>5, DemoteShape DEF ProcessEnds
    <2>2. 0 \in -MaxTransit..RenewInterval /\ 0 \in 0..DrainGrace
      BY Intervals, LeaderAssumption
    <2>3. task' = [task EXCEPT ![p] = [s \in Schedulers |-> Stopped]] /\ row' = row
      BY Zenon, <1>5 DEF ProcessEnds
    <2>4. task' \in [Processes -> [Schedulers -> TaskStates]]
      BY Zenon, <1>0, <2>3, FixedTasks DEF TypeOK
    <2>5. TypeOK'
      BY Zenon, <1>0, <1>5, <2>1, <2>2, <2>4 DEF ProcessEnds, TypeOK, Phases
    <2>6. \A q \in Processes, r \in Schedulers : task'[q][r] = IF q = p THEN Stopped ELSE task[q][r]
      BY Zenon, <1>0, <2>3 DEF TypeOK
    <2>7. TasksOK'
      <3> SUFFICES ASSUME NEW q \in Processes, NEW r \in Schedulers
                   PROVE  TaskOK(Left(row, q), task'[q][r])
        BY <2>3 DEF TasksOK, TaskOK, Left
      <3> QED
        BY Zenon, <1>0, <2>6, FixedOK DEF IInv, TasksOK
    <2>8. LeasesOK'
      BY <2>1, <2>3 DEF IInv, LeasesOK
    <2>9. Quiet'
      BY <1>0, <1>5, <2>1, <2>6 DEF ProcessEnds, IInv, Quiet, TypeOK
    <2> QED
      BY Zenon, <2>5, <2>7, <2>8, <2>9 DEF IInv
  <1> QED
    BY Zenon, <1>1, <1>2, <1>3, <1>4, <1>5 DEF ProcessStep

\* A tick takes as much from a gate that is not due as it takes from the row.
LEMMA EarlierOK ==
    ASSUME NEW t \in TaskStates, NEW left \in -1..Ttl, TaskOK(left, t),
           NEW p \in Processes, ~TaskDue(p, t)
    PROVE  Earlier(p, t) \in TaskStates /\ TaskOK(Larger(left - 1, -1), Earlier(p, t))
  <1> DEFINE d == NotNegative(t.deadline - 1)
             w == NotNegative(t.timer - 1)
             g == NotNegative(t.grace - 1)
             a == IF t.call = "none" \/ (t.call = "sent" /\ p \in Faulty) THEN 0 ELSE t.age + 1
             less == Larger(left - 1, -1)
  <1>1. /\ t.deadline \in 0..Ttl /\ t.timer \in 0..Ttl /\ t.grace \in 0..CancelGrace
        /\ t.age \in 0..MaxTransit /\ t.call \in CallStages
    BY Zenon DEF TaskStates
  <1>2. d \in 0..Ttl /\ w \in 0..Ttl /\ g \in 0..CancelGrace
    BY <1>1, LeaderAssumption DEF NotNegative, Larger
  <1>3. a \in 0..MaxTransit
    BY <1>1, LeaderAssumption DEF TaskDue, CallStages
  <1>4. t.hb \in {"sleep", "renew"} => d <= less + MaxTransit /\ w <= d
    BY <1>1, LeaderAssumption DEF TaskOK, TaskDue, NotNegative, Larger
  <1>5. /\ t.call = "ours" => Ttl - a <= less
        /\ t.call = "commit" => Ttl - a <= less + MaxTransit
    BY <1>1, LeaderAssumption DEF TaskOK, TaskDue, Larger
  <1>6. Earlier(p, t) = [t EXCEPT !.deadline = d, !.timer = w, !.grace = g, !.age = a]
    BY Zenon DEF Earlier
  <1> HIDE DEF d, w, g, a, less
  <1>7. Earlier(p, t) \in TaskStates
    BY Zenon, <1>2, <1>3, <1>6 DEF TaskStates
  <1>8. /\ Earlier(p, t).hb = t.hb /\ Earlier(p, t).call = t.call /\ Earlier(p, t).body = t.body
        /\ Earlier(p, t).deadline = d /\ Earlier(p, t).timer = w /\ Earlier(p, t).age = a
    BY Zenon, <1>6 DEF TaskStates
  <1>9. TaskOK(less, Earlier(p, t))
    BY Zenon, <1>4, <1>5, <1>8 DEF TaskOK
  <1> QED
    BY Zenon, <1>7, <1>9 DEF less

\* Time leaves a stopped gate alone.
LEMMA StoppedEarlier ==
    ASSUME NEW p \in Processes
    PROVE  Earlier(p, Stopped) = Stopped
  <1> DEFINE stopped == [body |-> "stopped", hb |-> "none", deadline |-> 0, errors |-> 0,
                         timer |-> 0, grace |-> 0, call |-> "none", age |-> 0]
  <1>1. Stopped = stopped
    BY DEF Stopped, NoTask
  <1>2. NotNegative(0 - 1) = 0
    BY DEF NotNegative, Larger
  <1>3. Earlier(p, stopped) = [stopped EXCEPT !.deadline = 0, !.timer = 0, !.grace = 0, !.age = 0]
    BY Zenon, <1>2 DEF Earlier
  <1>4. Earlier(p, stopped) = stopped
    BY Zenon, <1>3
  <1> QED
    BY Zenon, <1>1, <1>4

\* A tick lowers the deadlines and the row together.
LEMMA TickInv ==
    ASSUME IInv, Tick
    PROVE  IInv'
  <1>0. TypeOK /\ \A q \in Processes : Left(row, q) \in -1..Ttl
    BY Zenon, LeftType DEF IInv, TypeOK
  <1>1. /\ row' \in [leader: Processes \cup {NoProcess}, left: -1..Ttl]
        /\ \A q \in Processes : Left(row', q) = Larger(Left(row, q) - 1, -1)
    <2>1. row' = [row EXCEPT !.left = Larger(row.left - 1, -1)]
      BY Zenon DEF Tick
    <2>2. row.left \in -1..Ttl /\ Larger(row.left - 1, -1) \in -1..Ttl
      BY <1>0, LeaderAssumption DEF TypeOK, Larger
    <2>3. row'.leader = row.leader /\ row'.left = Larger(row.left - 1, -1)
      BY Zenon, <1>0, <2>1 DEF TypeOK
    <2>4. row' \in [leader: Processes \cup {NoProcess}, left: -1..Ttl]
      BY Zenon, <1>0, <2>1, <2>2 DEF TypeOK
    <2> QED
      BY <2>2, <2>3, <2>4 DEF Left, Larger
  <1>2. \A q \in Processes : lease'[q] = NotNegative(lease[q] - 1) /\ lease'[q] \in 0..Ttl
    BY <1>0, LeaderAssumption DEF Tick, TypeOK, NotNegative, Larger
  <1>3. lease' \in [Processes -> 0..Ttl]
    BY Zenon, <1>2 DEF Tick
  <1>4. \A q \in Processes, r \in Schedulers :
            /\ task'[q][r] = Earlier(q, task[q][r])
            /\ Earlier(q, task[q][r]) \in TaskStates
            /\ TaskOK(Left(row', q), Earlier(q, task[q][r]))
    BY Zenon, <1>0, <1>1, EarlierOK DEF Tick, IInv, TypeOK, TasksOK
  <1>5. task' \in [Processes -> [Schedulers -> TaskStates]]
    BY Zenon, <1>4 DEF Tick
  <1>6. keeper' \in [Processes -> -MaxTransit..RenewInterval]
    <2>1. \A q \in Processes : KeeperActive(q) => keeper[q] - 1 \in -MaxTransit..RenewInterval
      BY <1>0, Intervals, LeaderAssumption DEF Tick, TypeOK
    <2> QED
      BY Zenon, <1>0, <2>1 DEF Tick, TypeOK
  <1>7. drain' \in [Processes -> 0..DrainGrace]
    <2>1. \A q \in Processes : NotNegative(drain[q] - 1) \in 0..DrainGrace
      <3> TAKE q \in Processes
      <3>1. drain[q] \in 0..DrainGrace
        BY Zenon, <1>0 DEF TypeOK
      <3> QED
        BY <3>1, LeaderAssumption DEF NotNegative, Larger
    <2> QED
      BY Zenon, <2>1 DEF Tick
  <1>8. TypeOK'
    BY Zenon, <1>0, <1>1, <1>3, <1>5, <1>6, <1>7 DEF Tick, TypeOK
  <1>9. TasksOK'
    <2> SUFFICES ASSUME NEW q \in Processes, NEW r \in Schedulers
                 PROVE  TaskOK(Left(row', q), task'[q][r])
      BY Zenon DEF TasksOK, TaskOK, Left
    <2> QED
      BY Zenon, <1>4
  <1>10. LeasesOK'
    <2> SUFFICES ASSUME NEW q \in Processes, lease'[q] > 0
                 PROVE  lease'[q] <= Left(row', q) + MaxTransit
      BY Zenon DEF LeasesOK, Left
    <2>1. lease[q] \in 0..Ttl /\ lease'[q] = lease[q] - 1 /\ lease[q] > 0
      BY <1>0, <1>2 DEF TypeOK, NotNegative, Larger
    <2>2. lease[q] <= Left(row, q) + MaxTransit
      BY Zenon, <2>1 DEF IInv, LeasesOK
    <2> QED
      BY <1>0, <1>1, <2>1, <2>2, LeaderAssumption DEF Larger
  <1>11. Quiet'
    <2> SUFFICES ASSUME NEW q \in Processes, phase[q] \in {"releasing", "released", "down"}
                 PROVE  lease'[q] = 0 /\ \A r \in Schedulers : task'[q][r] = Stopped
      BY Zenon DEF Quiet, Tick
    <2>1. lease[q] = 0 /\ \A r \in Schedulers : task[q][r] = Stopped
      BY Zenon DEF IInv, Quiet
    <2>2. Earlier(q, Stopped) = Stopped
      BY Zenon, StoppedEarlier
    <2> QED
      BY <1>2, <1>4, <2>1, <2>2 DEF NotNegative, Larger
  <1> QED
    BY Zenon, <1>8, <1>9, <1>10, <1>11 DEF IInv

\* A deployment that has just started satisfies the invariant.
LEMMA InitInv == Init => IInv
  <1> SUFFICES ASSUME Init PROVE IInv
    OBVIOUS
  <1>1. /\ NoRow \in [leader: Processes \cup {NoProcess}, left: -1..Ttl]
        /\ 0 \in -MaxTransit..RenewInterval /\ 0 \in 0..DrainGrace
        /\ \A p \in Processes : Left(NoRow, p) = -1 /\ -1 \in -1..Ttl
    BY Intervals, LeaderAssumption DEF NoRow, Left
  <1>2. TypeOK
    BY Zenon, <1>1, Zeros, FixedTasks DEF Init, TypeOK, Phases
  <1>3. TasksOK
    BY Zenon, <1>1, FixedOK DEF Init, TasksOK
  <1> QED
    BY <1>2, <1>3 DEF Init, IInv, LeasesOK, Quiet

\* Every step keeps the inductive invariant.
LEMMA NextInv == IInv /\ [Next]_vars => IInv'
  <1> SUFFICES ASSUME IInv, [Next]_vars PROVE IInv'
    OBVIOUS
  <1>1. CASE \E p \in Processes, s \in Schedulers : GateStep(p, s)
    BY Zenon, <1>1, GateStepInv
  <1>2. CASE \E p \in Processes : ProcessStep(p)
    BY Zenon, <1>2, ProcessStepInv
  <1>3. CASE Tick
    BY Zenon, <1>3, TickInv
  <1>4. CASE UNCHANGED vars
    BY Zenon, <1>4 DEF vars, IInv, TypeOK, TasksOK, LeasesOK, Quiet
  <1> QED
    BY Zenon, <1>1, <1>2, <1>3, <1>4 DEF Next

\* The inductive invariant holds throughout.
LEMMA Inductive == Spec => []IInv
  BY InitInv, NextInv, PTL DEF Spec

\* Every reachable state of the election is well typed; in particular no
\* error count, timer or deadline leaves its range.
THEOREM TypeCorrect == Spec => []TypeOK
  <1>1. IInv => TypeOK
    BY Zenon DEF IInv
  <1> QED
    BY <1>1, Inductive, PTL

\* No deadline a gated body runs under, and none it could adopt, outruns the
\* expires_at of the row by more than the travel of one database answer.
THEOREM DeadlinesWithinLease == Spec => []DeadlineWithinLease
  <1>1. IInv => DeadlineWithinLease
    BY Zenon DEF IInv, TasksOK, TaskOK, LeasesOK, DeadlineWithinLease, Beating, RowLeft, Left
  <1> QED
    BY <1>1, Inductive, PTL

\* Two replicas overlap as leaders for less than the travel of one answer; if
\* answers take no time they never overlap.
THEOREM OverlapsBounded == Spec => []OverlapBounded
  <1>1. IInv => OverlapBounded
    <2> SUFFICES ASSUME IInv, NEW p \in Processes, NEW q \in Processes,
                        NEW s \in Schedulers, NEW r \in Schedulers,
                        p # q, task[p][s].body = "run", task[q][r].body = "run"
                 PROVE  task[p][s].deadline < MaxTransit \/ task[q][r].deadline < MaxTransit
      BY Zenon DEF OverlapBounded
    <2>1. /\ task[p][s].deadline <= Left(row, p) + MaxTransit
          /\ task[q][r].deadline <= Left(row, q) + MaxTransit
      BY Zenon DEF IInv, TasksOK, TaskOK
    <2>2. task[p][s].deadline \in 0..Ttl /\ task[q][r].deadline \in 0..Ttl
      BY Zenon, GateFacts DEF TaskStates
    <2>3. Left(row, p) = -1 \/ Left(row, q) = -1
      BY Zenon DEF Left
    <2> QED
      BY <2>1, <2>2, <2>3, LeaderAssumption
  <1> QED
    BY <1>1, Inductive, PTL

-----------------------------------------------------------------------------
(* Where the database is punctual, the lease is kept.                        *)

\* How long before this stage a renewal may have begun.
Behind(call) == IF call = "sent" THEN 0 ELSE IF call = "ours" THEN MaxTransit ELSE 2 * MaxTransit

\* A heartbeat wakes up long before its deadline, and a renewal under way has
\* time left for the answers still to come.
TimedOK(t) ==
    /\ t.hb = "sleep" => t.deadline >= t.timer + (Ttl - MaxTransit - RenewInterval)
    /\ t.hb = "renew" =>
          /\ t.call \in {"sent", "ours", "commit"}
          /\ t.deadline >= t.timer + (Ttl - MaxTransit - RenewInterval - RenewTimeout)
          /\ t.timer + t.age + Behind(t.call) >= RenewTimeout

Timed == \A p \in Processes, s \in Schedulers : Punctual(p) => TimedOK(task[p][s])

\* The interval and the time-out of a renewal leave room in the lease for every
\* answer a punctual database may be late with.
LEMMA Margins ==
    ASSUME NEW p \in Processes, Punctual(p)
    PROVE  /\ Ttl \in Nat /\ MaxTransit \in Nat /\ RenewInterval \in Nat /\ RenewTimeout \in Nat
           /\ 3 * MaxTransit < RenewTimeout
           /\ RenewInterval + RenewTimeout + MaxTransit <= Ttl
           /\ RenewInterval + 7 * MaxTransit < Ttl
  <1>1. /\ Ttl \in Nat /\ Ttl > 1 /\ MaxTransit \in Nat /\ 3 * MaxTransit < RenewTimeout
        /\ p \notin Faulty
    BY Zenon, LeaderAssumption DEF Punctual
  <1>2. RenewInterval \in Nat /\ RenewTimeout \in Nat
    BY Intervals, <1>1
  <1>3. CASE Ttl < 6
    BY <1>1, <1>3 DEF RenewInterval, RenewTimeout, Larger
  <1>4. CASE Ttl >= 6
    <2>1. 3 * RenewInterval <= Ttl /\ 6 * RenewTimeout <= Ttl
      BY <1>1, <1>4 DEF RenewInterval, RenewTimeout, Larger
    <2> QED
      BY <1>1, <1>2, <2>1
  <1> QED
    BY <1>1, <1>2, <1>3, <1>4

\* The fields of a gate that the timing depends on.
LEMMA TimedFields ==
    ASSUME NEW t \in TaskStates
    PROVE  /\ t.deadline \in 0..Ttl /\ t.timer \in 0..Ttl /\ t.age \in 0..MaxTransit
           /\ t.hb \in Beats /\ t.call \in CallStages
  BY Zenon DEF TaskStates

\* A gate without a heartbeat is in time.
LEMMA UnbeatingTimed ==
    ASSUME NEW t, t.hb \in {"none", "acquire"}
    PROVE  TimedOK(t)
  BY Zenon DEF TimedOK

\* A gate that lost its lease beats no more.
LEMMA LostTimed ==
    ASSUME NEW t \in TaskStates
    PROVE  Lost(t).hb = "none" /\ TimedOK(Lost(t))
  <1>1. Lost(t).hb = "none"
    BY Zenon DEF Lost, NoTask
  <1> QED
    BY <1>1, UnbeatingTimed

\* A renewal that was granted starts a sleep that ends in time.
LEMMA SleepTimed ==
    ASSUME NEW p \in Processes, Punctual(p), NEW t, NEW e, NEW a \in 0..MaxTransit
    PROVE  TimedOK(Sleep(t, Ttl - a, e))
  <1> DEFINE n == Sleep(t, Ttl - a, e)
  <1>1. /\ n.hb = "sleep" /\ n.deadline = Ttl - a
        /\ n.timer = Smaller(RenewInterval, NotNegative(Ttl - a - RenewTimeout))
    BY Zenon DEF Sleep
  <1> HIDE DEF n
  <1>2. n.timer <= RenewInterval /\ n.timer \in Nat
    BY <1>1, Margins DEF Smaller, NotNegative, Larger
  <1>3. n.deadline >= n.timer + (Ttl - MaxTransit - RenewInterval)
    BY <1>1, <1>2, Margins
  <1>4. TimedOK(n)
    BY Zenon, <1>1, <1>3 DEF TimedOK
  <1> QED
    BY Zenon, <1>4 DEF n

\* A renewal that is waited for has not timed out, and the row is still ours.
LEMMA RenewalLives ==
    ASSUME NEW p \in Processes, Punctual(p), NEW t \in TaskStates, TimedOK(t),
           NEW left \in -1..Ttl, TaskOK(left, t), t.hb = "renew"
    PROVE  t.timer > 0 /\ left > 2 * MaxTransit
  <1>1. /\ t.deadline \in 0..Ttl /\ t.timer \in 0..Ttl /\ t.age \in 0..MaxTransit
        /\ t.deadline >= t.timer + (Ttl - MaxTransit - RenewInterval - RenewTimeout)
        /\ t.timer + t.age + Behind(t.call) >= RenewTimeout
        /\ t.deadline <= left + MaxTransit
    BY Zenon, TimedFields DEF TimedOK, TaskOK
  <1>2. Behind(t.call) \in Nat /\ Behind(t.call) <= 2 * MaxTransit
    BY Margins DEF Behind
  <1> QED
    BY <1>1, <1>2, Margins

\* So has a heartbeat that sleeps.
LEMMA BeatingHasRow ==
    ASSUME NEW p \in Processes, Punctual(p), NEW t \in TaskStates, TimedOK(t),
           NEW left \in -1..Ttl, TaskOK(left, t), t.hb \in {"sleep", "renew"}
    PROVE  left > 2 * MaxTransit
  <1>1. CASE t.hb = "sleep"
    <2>1. /\ t.deadline \in 0..Ttl /\ t.timer \in 0..Ttl
          /\ t.deadline >= t.timer + (Ttl - MaxTransit - RenewInterval)
          /\ t.deadline <= left + MaxTransit
      BY Zenon, <1>1, TimedFields DEF TimedOK, TaskOK
    <2> QED
      BY <2>1, Margins
  <1>2. CASE t.hb = "renew"
    BY Zenon, <1>2, RenewalLives
  <1> QED
    BY Zenon, <1>1, <1>2

\* What one gate does where the database is punctual: its renewals stay in time,
\* it is cancelled only without the flag, and it clears the flag only on the
\* answer to its own try_acquire.
LEMMA GateTimed ==
    ASSUME IInv, NEW p \in Processes, NEW s \in Schedulers, Punctual(p),
           TimedOK(task[p][s]), GateStep(p, s)
    PROVE  /\ TimedOK(task'[p][s])
           /\ task[p][s].body = "run" /\ task'[p][s].body = "cancelled" => ~isLeader[p]
           /\ isLeader[p] /\ ~isLeader'[p] =>
                task[p][s].hb = "acquire" /\ task[p][s].call = "lost"
  <1> DEFINE t == task[p][s]
             n == task'[p][s]
             Good == /\ TimedOK(n)
                     /\ t.body = "run" /\ n.body = "cancelled" => ~isLeader[p]
                     /\ isLeader[p] /\ ~isLeader'[p] => t.hb = "acquire" /\ t.call = "lost"
  <1> SUFFICES Good
    OBVIOUS
  <1>0. /\ t \in TaskStates /\ Left(row, p) \in -1..Ttl /\ TaskOK(Left(row, p), t)
        /\ TimedOK(t) /\ isLeader \in [Processes -> BOOLEAN]
    BY Zenon, GateFacts DEF IInv, TypeOK
  <1>a. \A m : SetTask(p, s, m) => n = m
    BY DEF IInv, TypeOK, SetTask
  <1>b. p \notin Faulty
    BY Zenon DEF Punctual
  <1>c. NoTask.hb = "none" /\ NoTask.body = "none" /\ Stopped.hb = "none" /\ Stopped.body = "stopped"
    BY Zenon, StoppedFields DEF NoTask
  <1>d. ASSUME n = NoTask \/ n = Stopped, isLeader' = isLeader
        PROVE  Good
    BY <1>c, <1>d, UnbeatingTimed
  <1> HIDE DEF n, Good
  <1>1. CASE TryAcquire(p, s)
    <2>1. n = [NoTask EXCEPT !.hb = "acquire", !.call = "sent"] /\ isLeader' = isLeader
      BY Zenon, <1>1, <1>a DEF TryAcquire
    <2>2. n.hb = "acquire" /\ n.body = "none"
      BY Zenon, <2>1 DEF NoTask
    <2>3. TimedOK(n)
      BY <2>2, UnbeatingTimed
    <2> QED
      BY Zenon, <2>1, <2>2, <2>3 DEF Good
  <1>2. CASE Execute(p, s)
    <2> DEFINE ours == IF t.hb = "acquire" THEN CanAcquire(p) ELSE CanRenew(p)
               c == IF ours THEN "ours" ELSE "lost"
    <2>1. t.call = "sent" /\ n = [t EXCEPT !.call = c, !.age = 0] /\ isLeader' = isLeader
      BY Zenon, <1>2, <1>a DEF Execute
    <2> HIDE DEF c
    <2>2. /\ n.hb = t.hb /\ n.call = c /\ n.age = 0 /\ n.body = t.body
          /\ n.timer = t.timer /\ n.deadline = t.deadline
      BY Zenon, <1>0, <2>1 DEF TaskStates
    <2>3. CASE t.hb = "renew"
      <3>1. Left(row, p) > 2 * MaxTransit
        BY Zenon, <1>0, <2>3, RenewalLives
      <3>2. CanRenew(p)
        BY <1>0, <3>1, Margins DEF CanRenew, Left
      <3>3. c = "ours"
        BY Zenon, <2>3, <3>2 DEF c
      <3>4. /\ t.timer \in 0..Ttl /\ t.age \in 0..MaxTransit
            /\ t.timer + t.age + 0 >= RenewTimeout
            /\ t.deadline >= t.timer + (Ttl - MaxTransit - RenewInterval - RenewTimeout)
        BY Zenon, <1>0, <2>1, <2>3, TimedFields DEF TimedOK, Behind
      <3>5. t.timer + 0 + MaxTransit >= RenewTimeout
        BY <3>4, Margins
      <3>6. TimedOK(n)
        BY Zenon, <2>2, <2>3, <3>3, <3>4, <3>5 DEF TimedOK, Behind
      <3> QED
        BY Zenon, <2>1, <2>2, <3>6 DEF Good
    <2>4. CASE t.hb # "renew"
      <3>1. t.hb = "acquire"
        BY Zenon, <1>0, <2>1, <2>4 DEF TaskOK
      <3>2. TimedOK(n)
        BY <2>2, <3>1, UnbeatingTimed
      <3> QED
        BY Zenon, <2>1, <2>2, <3>2 DEF Good
    <2> QED
      BY Zenon, <2>3, <2>4
  <1>3. CASE Receive(p, s)
    <2>1. CASE t.call = "lost"
      <3>1. t.hb = "acquire"
        BY Zenon, <1>0, <2>1 DEF TaskOK, TimedOK
      <3>2. n = NoTask
        BY Zenon, <1>3, <1>a, <2>1, <3>1 DEF Receive
      <3> QED
        BY <2>1, <3>1, <3>2, <1>c, UnbeatingTimed DEF Good
    <2>2. CASE t.call = "ours"
      <3>1. n = [t EXCEPT !.call = "commit", !.age = 0] /\ isLeader' = isLeader
        BY Zenon, <1>3, <1>a, <2>2 DEF Receive
      <3>2. /\ n.hb = t.hb /\ n.call = "commit" /\ n.age = 0 /\ n.body = t.body
            /\ n.timer = t.timer /\ n.deadline = t.deadline
        BY Zenon, <1>0, <3>1 DEF TaskStates
      <3>3. CASE t.hb = "renew"
        <4>1. /\ t.timer \in 0..Ttl /\ t.age \in 0..MaxTransit
              /\ t.timer + t.age + MaxTransit >= RenewTimeout
              /\ t.deadline >= t.timer + (Ttl - MaxTransit - RenewInterval - RenewTimeout)
          BY Zenon, <1>0, <2>2, <3>3, TimedFields DEF TimedOK, Behind
        <4>2. t.timer + 0 + 2 * MaxTransit >= RenewTimeout
          BY <4>1, Margins
        <4>3. TimedOK(n)
          BY Zenon, <3>2, <3>3, <4>1, <4>2 DEF TimedOK, Behind
        <4> QED
          BY Zenon, <3>1, <3>2, <4>3 DEF Good
      <3>4. CASE t.hb # "renew"
        <4>1. t.hb = "acquire"
          BY Zenon, <1>0, <2>2, <3>4 DEF TaskOK
        <4>2. TimedOK(n)
          BY <3>2, <4>1, UnbeatingTimed
        <4> QED
          BY Zenon, <3>1, <3>2, <4>2 DEF Good
      <3> QED
        BY Zenon, <3>3, <3>4
    <2> QED
      BY Zenon, <1>3, <2>1, <2>2 DEF Receive
  <1>4. CASE Committed(p, s)
    <2>1. t.age \in 0..MaxTransit
      BY Zenon, <1>0, TimedFields
    <2>2. CASE t.hb = "acquire"
      <3>1. /\ n = Sleep([NoTask EXCEPT !.body = "run"], Ttl - t.age, 0)
            /\ isLeader' = [isLeader EXCEPT ![p] = TRUE]
        BY Zenon, <1>4, <1>a, <2>2 DEF Committed, Started
      <3>2. TimedOK(n)
        BY Zenon, <2>1, <3>1, SleepTimed
      <3>3. n.body = "run" /\ isLeader'[p]
        BY Zenon, <1>0, <3>1 DEF Sleep, NoTask
      <3> QED
        BY Zenon, <3>2, <3>3 DEF Good
    <2>3. CASE t.hb = "renew"
      <3>1. n = Sleep(t, Ttl - t.age, 0) /\ isLeader' = isLeader
        BY Zenon, <1>4, <1>a, <2>3 DEF Committed
      <3>2. TimedOK(n)
        BY Zenon, <2>1, <3>1, SleepTimed
      <3>3. n.body = t.body
        BY Zenon, <3>1 DEF Sleep
      <3> QED
        BY Zenon, <3>1, <3>2, <3>3 DEF Good
    <2> QED
      BY Zenon, <1>4, <2>2, <2>3 DEF Committed
  <1>5. CASE CallFails(p, s)
    BY Zenon, <1>5, <1>b DEF CallFails
  <1>6. CASE Wake(p, s)
    <2>1. t.hb = "sleep" /\ t.timer = 0 /\ isLeader' = isLeader
      BY Zenon, <1>6 DEF Wake
    <2>2. CASE isLeader[p]
      <3>1. n = [t EXCEPT !.hb = "renew", !.call = "sent", !.timer = Smaller(RenewTimeout, t.deadline)]
        BY Zenon, <1>6, <1>a, <2>2 DEF Wake
      <3>2. /\ t.deadline \in 0..Ttl /\ t.age \in 0..MaxTransit
            /\ t.deadline >= Ttl - MaxTransit - RenewInterval
        BY <1>0, <2>1, TimedFields, Margins DEF TimedOK
      <3>3. Smaller(RenewTimeout, t.deadline) = RenewTimeout
        BY <3>2, Margins DEF Smaller
      <3>4. /\ n.hb = "renew" /\ n.call = "sent" /\ n.age = t.age /\ n.body = t.body
            /\ n.timer = RenewTimeout /\ n.deadline = t.deadline
        BY Zenon, <1>0, <3>1, <3>3 DEF TaskStates
      <3>5. /\ n.deadline >= n.timer + (Ttl - MaxTransit - RenewInterval - RenewTimeout)
            /\ n.timer + n.age + 0 >= RenewTimeout
        BY <3>2, <3>4, Margins
      <3>6. TimedOK(n)
        BY Zenon, <3>4, <3>5 DEF TimedOK, Behind
      <3> QED
        BY Zenon, <2>1, <3>4, <3>6 DEF Good
    <2>3. CASE ~isLeader[p]
      <3>1. n = Lost(t)
        BY Zenon, <1>6, <1>a, <2>3 DEF Wake
      <3> QED
        BY Zenon, <1>0, <2>3, <3>1, LostTimed DEF Good
    <2> QED
      BY Zenon, <2>2, <2>3
  <1>7. CASE RenewTimesOut(p, s)
    <2>1. task[p][s].hb = "renew" /\ task[p][s].timer = 0
      BY Zenon, <1>7 DEF RenewTimesOut
    <2>2. task[p][s].timer > 0
      BY Zenon, <1>0, <2>1, RenewalLives
    <2> QED
      BY <2>1, <2>2
  <1>8. CASE BodyDone(p, s)
    BY Zenon, <1>8, <1>a, <1>d DEF BodyDone
  <1>9. CASE GraceOver(p, s)
    BY Zenon, <1>9, <1>a, <1>d DEF GraceOver
  <1>10. CASE LingeringDone(p, s)
    <2>1. n = t /\ isLeader' = isLeader
      BY Zenon, <1>10 DEF LingeringDone, n
    <2> QED
      BY Zenon, <1>0, <2>1 DEF Good
  <1>11. CASE StopScheduler(p, s)
    <2>1. isLeader' = isLeader
      BY Zenon, <1>11 DEF StopScheduler
    <2>2. CASE n = Stopped
      BY Zenon, <1>d, <2>1, <2>2
    <2>3. CASE n = [t EXCEPT !.body = "closing", !.grace = CancelGrace]
      <3>1. /\ n.hb = t.hb /\ n.call = t.call /\ n.age = t.age /\ n.body = "closing"
            /\ n.timer = t.timer /\ n.deadline = t.deadline
        BY Zenon, <1>0, <2>3 DEF TaskStates
      <3>2. TimedOK(n)
        BY Zenon, <1>0, <3>1 DEF TimedOK
      <3> QED
        BY Zenon, <2>1, <3>1, <3>2 DEF Good
    <2> QED
      BY Zenon, <1>11, <1>a, <2>2, <2>3 DEF StopScheduler
  <1> QED
    BY Zenon, <1>1, <1>2, <1>3, <1>4, <1>5, <1>6, <1>7, <1>8, <1>9, <1>10, <1>11 DEF GateStep

\* A gate leaves the other gates, the other processes' flags and the shutdowns
\* alone.
LEMMA GateOthers ==
    ASSUME IInv, NEW p \in Processes, NEW s \in Schedulers, GateStep(p, s)
    PROVE  /\ UNCHANGED <<phase, keeper, drain>>
           /\ \A q \in Processes, r \in Schedulers : q # p \/ r # s => task'[q][r] = task[q][r]
           /\ \A q \in Processes : q # p => isLeader'[q] = isLeader[q]
  <1>1. task \in [Processes -> [Schedulers -> TaskStates]] /\ isLeader \in [Processes -> BOOLEAN]
    BY Zenon DEF IInv, TypeOK
  <1>2. UNCHANGED <<phase, keeper, drain>>
    BY Zenon DEF GateStep, TryAcquire, Execute, Receive, Committed, CallFails, Wake, RenewTimesOut,
           BodyDone, GraceOver, LingeringDone, StopScheduler
  <1>3. task' = task \/ \E n : SetTask(p, s, n)
    BY Zenon DEF GateStep, TryAcquire, Execute, Receive, Committed, CallFails, Wake, RenewTimesOut,
           BodyDone, GraceOver, LingeringDone, StopScheduler, AcquireErrors, RenewErrors
  <1>4. \/ isLeader' = isLeader
        \/ Demote(p)
        \/ isLeader' = [isLeader EXCEPT ![p] = TRUE]
    BY Zenon DEF GateStep, TryAcquire, Execute, Receive, Committed, CallFails, Wake, RenewTimesOut,
           BodyDone, GraceOver, LingeringDone, StopScheduler, AcquireErrors, RenewErrors
  <1>5. \A q \in Processes, r \in Schedulers : q # p \/ r # s => task'[q][r] = task[q][r]
    BY <1>1, <1>3 DEF SetTask
  <1>6. \A q \in Processes : q # p => isLeader'[q] = isLeader[q]
    BY Zenon, <1>1, <1>4 DEF Demote
  <1> QED
    BY Zenon, <1>2, <1>5, <1>6

\* Time passes for the heartbeat and for its deadline alike.
LEMMA TickTimed ==
    ASSUME NEW p \in Processes, Punctual(p), NEW t \in TaskStates, TimedOK(t), ~TaskDue(p, t)
    PROVE  TimedOK(Earlier(p, t))
  <1> DEFINE n == Earlier(p, t)
  <1>1. /\ n.hb = t.hb /\ n.call = t.call
        /\ n.deadline = NotNegative(t.deadline - 1)
        /\ n.timer = NotNegative(t.timer - 1)
        /\ n.age = IF t.call = "none" \/ (t.call = "sent" /\ p \in Faulty) THEN 0 ELSE t.age + 1
    BY Zenon DEF Earlier, TaskStates
  <1>2. t.deadline \in 0..Ttl /\ t.timer \in 0..Ttl /\ t.age \in 0..MaxTransit
    BY Zenon, TimedFields
  <1> HIDE DEF n
  <1>3. CASE t.hb = "sleep"
    <2>1. t.timer # 0 /\ t.deadline >= t.timer + (Ttl - MaxTransit - RenewInterval)
      BY Zenon, <1>3 DEF TimedOK, TaskDue
    <2>2. n.timer = t.timer - 1 /\ n.deadline = t.deadline - 1
      BY <1>1, <1>2, <2>1, Margins DEF NotNegative, Larger
    <2>3. n.deadline >= n.timer + (Ttl - MaxTransit - RenewInterval)
      BY <1>2, <2>1, <2>2, Margins
    <2>4. TimedOK(n)
      BY Zenon, <1>1, <1>3, <2>3 DEF TimedOK
    <2> QED
      BY Zenon, <2>4 DEF n
  <1>4. CASE t.hb = "renew"
    <2>1. /\ t.timer # 0 /\ t.call \in {"sent", "ours", "commit"}
          /\ t.deadline >= t.timer + (Ttl - MaxTransit - RenewInterval - RenewTimeout)
          /\ t.timer + t.age + Behind(t.call) >= RenewTimeout
      BY Zenon, <1>4 DEF TimedOK, TaskDue
    <2>2. n.timer = t.timer - 1 /\ n.deadline = t.deadline - 1 /\ n.age = t.age + 1
      BY <1>1, <1>2, <2>1, Margins DEF NotNegative, Larger, Punctual
    <2>3. Behind(t.call) \in Nat
      BY Margins DEF Behind
    <2>4. /\ n.deadline >= n.timer + (Ttl - MaxTransit - RenewInterval - RenewTimeout)
          /\ n.timer + n.age + Behind(t.call) >= RenewTimeout
      BY <1>2, <2>1, <2>2, <2>3, Margins
    <2>5. TimedOK(n)
      BY Zenon, <1>1, <1>4, <2>1, <2>4 DEF TimedOK
    <2> QED
      BY Zenon, <2>5 DEF n
  <1>5. CASE t.hb \notin {"sleep", "renew"}
    <2>1. TimedOK(n)
      BY Zenon, <1>1, <1>5 DEF TimedOK
    <2> QED
      BY Zenon, <2>1 DEF n
  <1> QED
    BY Zenon, <1>3, <1>4, <1>5

\* A process step changes gates only when the process is gone.
LEMMA ProcessGates ==
    ASSUME IInv, NEW p \in Processes, ProcessStep(p)
    PROVE  /\ \A q \in Processes, s \in Schedulers :
                  task'[q][s] = task[q][s] \/ task'[q][s] = Stopped
           /\ \A q \in Processes, s \in Schedulers :
                  task[q][s].body = "run" /\ isLeader[q] /\ ~isLeader'[q] => phase'[q] = "down"
  <1>1. /\ task \in [Processes -> [Schedulers -> TaskStates]]
        /\ isLeader \in [Processes -> BOOLEAN]
        /\ phase \in [Processes -> Phases]
    BY Zenon DEF IInv, TypeOK
  <1>2. CASE ProcessEnds(p)
    BY Zenon, <1>1, <1>2 DEF ProcessEnds, Demote
  <1>3. CASE BeginRelease(p)
    <2>1. /\ task' = task /\ isLeader' = [isLeader EXCEPT ![p] = FALSE]
          /\ \A s \in Schedulers : task[p][s].body = "stopped"
      BY Zenon, <1>3, StoppedFields DEF BeginRelease, Demote
    <2> QED
      BY Zenon, <1>1, <2>1
  <1>4. CASE BeginShutdown(p) \/ KeeperRenews(p) \/ Release(p)
    BY Zenon, <1>1, <1>4 DEF BeginShutdown, KeeperRenews, Release
  <1> QED
    BY Zenon, <1>2, <1>3, <1>4 DEF ProcessStep

\* Renewals stay in time.
LEMMA TimedStep ==
    ASSUME IInv, Timed, [Next]_vars
    PROVE  Timed'
  <1> SUFFICES ASSUME NEW q \in Processes, NEW r \in Schedulers, Punctual(q)
               PROVE  TimedOK(task'[q][r])
    BY Zenon DEF Timed, TimedOK, Punctual
  <1>0. TimedOK(task[q][r]) /\ task[q][r] \in TaskStates
    BY DEF Timed, IInv, TypeOK
  <1>1. ASSUME NEW p \in Processes, NEW s \in Schedulers, GateStep(p, s)
        PROVE  TimedOK(task'[q][r])
    <2>1. CASE q = p /\ r = s
      BY Zenon, <1>0, <1>1, <2>1, GateTimed
    <2>2. CASE q # p \/ r # s
      BY Zenon, <1>0, <1>1, <2>2, GateOthers
    <2> QED
      BY Zenon, <2>1, <2>2
  <1>2. ASSUME NEW p \in Processes, ProcessStep(p)
        PROVE  TimedOK(task'[q][r])
    <2>1. task'[q][r] = task[q][r] \/ task'[q][r] = Stopped
      BY Zenon, <1>2, ProcessGates
    <2>2. TimedOK(Stopped)
      BY StoppedFields, UnbeatingTimed
    <2> QED
      BY Zenon, <1>0, <2>1, <2>2
  <1>3. CASE Tick
    <2>1. task'[q][r] = Earlier(q, task[q][r]) /\ ~TaskDue(q, task[q][r])
      BY Zenon, <1>3 DEF Tick
    <2> QED
      BY Zenon, <1>0, <2>1, TickTimed
  <1>4. CASE UNCHANGED vars
    BY Zenon, <1>0, <1>4 DEF vars
  <1> QED
    BY Zenon, <1>1, <1>2, <1>3, <1>4 DEF Next

\* What running work depends on: one step.
LEMMA StableStep ==
    ASSUME IInv, Timed, [Next]_vars, NEW q \in Processes, NEW r \in Schedulers,
           Punctual(q), task[q][r].body = "run"
    PROVE  /\ task'[q][r].body = "cancelled" => ~isLeader[q]
           /\ isLeader[q] /\ ~isLeader'[q] /\ phase'[q] # "down" =>
                \E s \in Schedulers : task[q][s].hb = "acquire" /\ task[q][s].call = "lost"
  <1>1. ASSUME NEW p \in Processes, NEW s \in Schedulers, GateStep(p, s)
        PROVE  /\ task'[q][r].body = "cancelled" => ~isLeader[q]
               /\ isLeader[q] /\ ~isLeader'[q] =>
                    \E m \in Schedulers : task[q][m].hb = "acquire" /\ task[q][m].call = "lost"
    <2>1. CASE q # p
      BY Zenon, <1>1, <2>1, GateOthers
    <2>2. CASE q = p
      <3>1. /\ task[p][s].body = "run" /\ task'[p][s].body = "cancelled" => ~isLeader[p]
            /\ isLeader[p] /\ ~isLeader'[p] =>
                 task[p][s].hb = "acquire" /\ task[p][s].call = "lost"
        BY Zenon, <1>1, <2>2, GateTimed DEF Timed
      <3>2. r # s => task'[q][r] = task[q][r]
        BY Zenon, <1>1, GateOthers
      <3> QED
        BY Zenon, <2>2, <3>1, <3>2
    <2> QED
      BY Zenon, <2>1, <2>2
  <1>2. ASSUME NEW p \in Processes, ProcessStep(p)
        PROVE  /\ task'[q][r].body # "cancelled"
               /\ isLeader[q] /\ ~isLeader'[q] => phase'[q] = "down"
    BY Zenon, <1>2, ProcessGates, StoppedFields
  <1>3. CASE Tick
    <2>1. task'[q][r] = Earlier(q, task[q][r]) /\ isLeader' = isLeader
      BY Zenon, <1>3 DEF Tick
    <2>2. Earlier(q, task[q][r]).body = task[q][r].body
      BY DEF Earlier, IInv, TypeOK, TaskStates
    <2> QED
      BY Zenon, <2>1, <2>2
  <1>4. CASE UNCHANGED vars
    BY Zenon, <1>4 DEF vars
  <1> QED
    BY Zenon, <1>1, <1>2, <1>3, <1>4 DEF Next

\* The numbers of a shutdown.
LEMMA KeeperNumbers ==
    ASSUME IInv, NEW p \in Processes, Punctual(p)
    PROVE  /\ row.left \in -1..Ttl /\ keeper[p] \in -MaxTransit..RenewInterval
           /\ drain[p] \in 0..DrainGrace /\ phase[p] \in Phases
           /\ MaxTransit \in Nat /\ Ttl \in Nat
           /\ RenewInterval \in Nat /\ RenewInterval + 2 * MaxTransit < Ttl
  <1>1. /\ row.left \in -1..Ttl /\ keeper[p] \in -MaxTransit..RenewInterval
        /\ drain[p] \in 0..DrainGrace /\ phase[p] \in Phases
    BY Zenon DEF IInv, TypeOK
  <1> QED
    BY <1>1, Margins

\* A row that was just granted covers every renewal of the keeper.
LEMMA GrantCovers ==
    ASSUME NEW p \in Processes, Punctual(p), row' = Granted(p),
           keeper'[p] \in -MaxTransit..RenewInterval
    PROVE  Covered(p)'
  <1>1. row'.leader = p /\ row'.left = Ttl
    BY Zenon DEF Granted
  <1>2. /\ Ttl > keeper'[p] + 2 * MaxTransit
        /\ Ttl > keeper'[p] + MaxTransit
    BY Margins
  <1> QED
    BY Zenon, <1>1, <1>2 DEF Covered

\* A gate of another process does not get at a row that is covered.
LEMMA GateCovers ==
    ASSUME IInv, NEW p \in Processes, Punctual(p), Covered(p),
           NEW q \in Processes, NEW s \in Schedulers, GateStep(q, s)
    PROVE  Covered(p)'
  <1>1. UNCHANGED <<phase, keeper, drain>>
    BY Zenon, GateOthers
  <1>2. row.leader = p /\ row.left > 0
    BY KeeperNumbers DEF Covered
  <1>3. CASE Execute(q, s)
    <2>1. CASE row' = row
      BY Zenon, <1>1, <2>1 DEF Covered
    <2>2. CASE row' = Granted(q) /\ (CanAcquire(q) \/ CanRenew(q))
      <3>1. q = p
        BY <1>2, <2>2, KeeperNumbers DEF CanAcquire, CanRenew
      <3> QED
        BY Zenon, <1>1, <2>2, <3>1, GrantCovers, KeeperNumbers
    <2> QED
      BY Zenon, <1>3, <2>1, <2>2 DEF Execute
  <1>4. CASE ~Execute(q, s)
    <2>1. row' = row
      BY Zenon, <1>4 DEF GateStep, TryAcquire, Receive, Committed, CallFails, Wake, RenewTimesOut,
                  BodyDone, GraceOver, LingeringDone, StopScheduler
    <2> QED
      BY Zenon, <1>1, <2>1 DEF Covered
  <1> QED
    BY Zenon, <1>3, <1>4

\* A shutdown keeps the row it covers, from one renewal to the next and into the
\* drain of release.
LEMMA ProcessCovers ==
    ASSUME IInv, NEW p \in Processes, Punctual(p), KeeperActive(p), KeeperActive(p)',
           Covered(p), NEW q \in Processes, ProcessStep(q)
    PROVE  Covered(p)'
  <1>0. /\ phase \in [Processes -> Phases]
        /\ keeper \in [Processes -> -MaxTransit..RenewInterval]
        /\ row.leader = p /\ row.left > 0 /\ row.left > keeper[p] + MaxTransit
        /\ phase[p] = "stopping" => row.left > keeper[p] + 2 * MaxTransit
    BY KeeperNumbers DEF IInv, TypeOK, Covered
  <1>1. CASE q # p
    <2>1. phase'[p] = phase[p] /\ keeper'[p] = keeper[p]
      BY Zenon, <1>0, <1>1 DEF ProcessStep, BeginShutdown, KeeperRenews, BeginRelease, Release, ProcessEnds
    <2>2. row' = row
      BY Zenon, <1>0, <1>1 DEF ProcessStep, BeginShutdown, KeeperRenews, BeginRelease, Release,
                        ProcessEnds, CanRenew
    <2> QED
      BY Zenon, <2>1, <2>2 DEF Covered
  <1>2. CASE q = p
    <2>1. CASE BeginShutdown(p)
      BY Zenon, <2>1 DEF BeginShutdown, KeeperActive
    <2>2. CASE KeeperRenews(p)
      <3>1. row' = Granted(p)
        BY Zenon, <1>0, <2>2 DEF KeeperRenews, CanRenew, Punctual
      <3>2. keeper'[p] \in -MaxTransit..RenewInterval
        <4>1. keeper'[p] = RenewInterval \/ keeper'[p] = Smaller(RenewInterval, drain[p])
          BY Zenon, <1>0, <2>2 DEF KeeperRenews
        <4> QED
          BY <4>1, KeeperNumbers, LeaderAssumption DEF Smaller
      <3> QED
        BY Zenon, <3>1, <3>2, GrantCovers
    <2>3. CASE BeginRelease(p)
      <3>1. row' = row /\ keeper'[p] = 0 /\ phase'[p] = "releasing" /\ phase[p] = "stopping"
        BY Zenon, <1>0, <2>3 DEF BeginRelease
      <3>2. row.left > 0 + MaxTransit
        BY <1>0, <3>1, KeeperNumbers
      <3> QED
        BY Zenon, <1>0, <3>1, <3>2 DEF Covered
    <2>4. CASE Release(p)
      BY Zenon, <1>0, <2>4 DEF Release, KeeperActive
    <2>5. CASE ProcessEnds(p)
      BY Zenon, <1>0, <2>5 DEF ProcessEnds, KeeperActive
    <2> QED
      BY Zenon, <1>2, <2>1, <2>2, <2>3, <2>4, <2>5 DEF ProcessStep
  <1> QED
    BY Zenon, <1>1, <1>2

\* Time brings the expiry of the row and the next renewal nearer alike.
LEMMA TickCovers ==
    ASSUME IInv, NEW p \in Processes, Punctual(p), KeeperActive(p), Covered(p), Tick
    PROVE  Covered(p)'
  <1>1. /\ row' = [row EXCEPT !.left = Larger(row.left - 1, -1)]
        /\ keeper'[p] = keeper[p] - 1 /\ phase'[p] = phase[p]
    BY Zenon DEF Tick
  <1>2. row'.leader = row.leader /\ row'.left = Larger(row.left - 1, -1)
    BY Zenon, <1>1 DEF IInv, TypeOK
  <1>3. row.left > 0 /\ row'.left = row.left - 1
    BY <1>2, KeeperNumbers DEF Covered, Larger
  <1> QED
    BY <1>1, <1>2, <1>3, KeeperNumbers DEF Covered

\* What a shutdown depends on: one step.
LEMMA CoverStep ==
    ASSUME IInv, Timed, [Next]_vars, NEW p \in Processes, Punctual(p), KeeperActive(p)',
           \/ BeginShutdown(p) /\ \E s \in Schedulers : Beating(p, s)
           \/ KeeperRenews(p) /\ CanRenew(p)
           \/ KeeperActive(p) /\ Covered(p)
    PROVE  Covered(p)'
  <1>1. CASE BeginShutdown(p) /\ \E s \in Schedulers : Beating(p, s)
    <2>1. PICK s \in Schedulers : Beating(p, s)
      BY Zenon, <1>1
    <2>2. Left(row, p) > 2 * MaxTransit
      BY Zenon, <2>1, GateFacts, BeatingHasRow DEF Timed, Beating
    <2>3. row' = row /\ keeper'[p] = 0 /\ phase'[p] = "stopping"
      BY Zenon, <1>1 DEF BeginShutdown, IInv, TypeOK
    <2>4. row.leader = p /\ row.left > 0 + 2 * MaxTransit
      BY <2>2, KeeperNumbers DEF Left
    <2> QED
      BY Zenon, <2>3, <2>4 DEF Covered
  <1>2. CASE KeeperRenews(p) /\ CanRenew(p)
    <2>1. row' = Granted(p)
      BY Zenon, <1>2 DEF KeeperRenews, Punctual
    <2>2. keeper'[p] \in -MaxTransit..RenewInterval
      <3>1. keeper'[p] = RenewInterval \/ keeper'[p] = Smaller(RenewInterval, drain[p])
        BY Zenon, <1>2 DEF KeeperRenews, IInv, TypeOK
      <3> QED
        BY <3>1, KeeperNumbers, LeaderAssumption DEF Smaller
    <2> QED
      BY Zenon, <2>1, <2>2, GrantCovers
  <1>3. CASE KeeperActive(p) /\ Covered(p)
    <2>1. CASE Tick
      BY Zenon, <1>3, <2>1, TickCovers
    <2>2. CASE UNCHANGED vars
      BY Zenon, <1>3, <2>2 DEF vars, Covered
    <2>3. CASE \E q \in Processes, s \in Schedulers : GateStep(q, s)
      BY Zenon, <1>3, <2>3, GateCovers
    <2>4. CASE \E q \in Processes : ProcessStep(q)
      BY Zenon, <1>3, <2>4, ProcessCovers
    <2> QED
      BY Zenon, <2>1, <2>2, <2>3, <2>4 DEF Next
  <1> QED
    BY Zenon, <1>1, <1>2, <1>3

\* Initially nothing beats.
LEMMA InitTimed == Init => Timed
  <1>1. NoTask.hb = "none"
    BY Zenon DEF NoTask
  <1>2. TimedOK(NoTask)
    BY <1>1, UnbeatingTimed
  <1> QED
    BY <1>2 DEF Init, Timed

\* For any number of replicas and schedulers, any TTL and every travel time of
\* which three fit in a renewal's time-out: a replica whose database calls are
\* punctual cancels gated work only after its flag was cleared under the work,
\* which only the late answer to a sibling's try_acquire does; and a shutdown
\* that begins under a heartbeat, or whose keeper finds the row, keeps the lease
\* until its drain gives up (run_if_leader, start_release_keeper, release).
THEOREM LeaseKeptInTime == Spec => TimelyLeaseKept
  <1>1. ASSUME IInv, Timed, [Next]_vars
        PROVE  [\A p \in Processes, s \in Schedulers : Punctual(p) /\ task[p][s].body = "run" =>
                  /\ task'[p][s].body = "cancelled" => ~isLeader[p]
                  /\ isLeader[p] /\ ~isLeader'[p] /\ phase'[p] # "down" =>
                       \E r \in Schedulers : task[p][r].hb = "acquire" /\ task[p][r].call = "lost"]_vars
    BY <1>1, StableStep, Zenon
  <1>2. ASSUME IInv, Timed, [Next]_vars
        PROVE  [\A p \in Processes :
                  /\ Punctual(p) /\ KeeperActive(p)'
                  /\ \/ BeginShutdown(p) /\ \E s \in Schedulers : Beating(p, s)
                     \/ KeeperRenews(p) /\ CanRenew(p)
                     \/ KeeperActive(p) /\ Covered(p)
                  => Covered(p)']_vars
    BY <1>2, CoverStep, Zenon
  <1> QED
    BY <1>1, <1>2, InitTimed, TimedStep, InitInv, NextInv, PTL
    DEF Spec, TimelyLeaseKept, LeadershipStable, ShutdownKeepsLease

=============================================================================
