--------------------------- MODULE LeaderElection ---------------------------
(***************************************************************************)
(* The scheduler leader lease (core/scheduling/leader_election.py): one    *)
(* database row that every replica's schedulers contend for, the shared    *)
(* leadership flag and locally tracked deadline of each process, one       *)
(* run_if_leader gate per scheduler with its heartbeat, and the shutdown   *)
(* that hands the lease over (start_release_keeper, release, main.py).     *)
(*                                                                         *)
(* Time is a count of ticks.  Every instant the code stores is kept as the *)
(* time left until it, so a tick lowers all of them at once.  A database   *)
(* statement and its commit take effect in one step, because the statement *)
(* holds the row until it commits and a rollback undoes it; its answer     *)
(* travels for at most MaxTransit ticks, and so does the answer to the     *)
(* commit.  Event loops are timely: a timer that is due fires before the   *)
(* next tick.                                                              *)
(***************************************************************************)
EXTENDS Integers

CONSTANTS
    Processes,      \* replicas; a restarted replica has a fresh leader_id
    NoProcess,
    Schedulers,     \* singleton schedulers that share a process's election
    Ttl,            \* leader_election_ttl_seconds, in ticks
    MaxTransit,     \* longest travel of a database answer, in ticks
    CancelGrace,    \* _CANCEL_GRACE_SECONDS
    DrainGrace,     \* _RELEASE_DRAIN_GRACE_SECONDS
    MaxErrors,      \* _MAX_CONSECUTIVE_RENEW_ERRORS
    Faulty,         \* processes whose database calls may fail
    Mortal          \* processes that may crash or be shut down

ASSUME LeaderAssumption ==
    /\ NoProcess \notin Processes
    /\ Ttl \in Nat \ {0}
    /\ MaxTransit \in Nat
    /\ MaxTransit < Ttl
    /\ CancelGrace \in Nat
    /\ DrainGrace \in Nat
    /\ MaxErrors \in Nat \ {0}
    /\ Faulty \subseteq Processes
    /\ Mortal \subseteq Processes

VARIABLES
    row,       \* scheduler_leader: who holds it and the time to expires_at
    phase,     \* the life of each process
    isLeader,  \* _is_leader
    lease,     \* time to _lease_deadline; 0 once it passed or is None
    task,      \* the run_if_leader call of each scheduler
    detached,  \* schedulers with bodies in _detached_bodies
    orphan,    \* schedulers with bodies that run on though nothing tracks them
    keeper,    \* time to the next renewal of the keeper or the release drain
    drain      \* time left of the release drain

vars == <<row, phase, isLeader, lease, task, detached, orphan, keeper, drain>>

Larger(m, n) == IF m >= n THEN m ELSE n
Smaller(m, n) == IF m <= n THEN m ELSE n
NotNegative(n) == Larger(n, 0)

RenewInterval == Larger(1, Ttl \div 3)
RenewTimeout == Larger(1, Ttl \div 6)

Phases == {"up", "stopping", "releasing", "released", "down"}
Bodies == {"none", "run", "cancelled", "closing", "stopped"}
Beats == {"none", "acquire", "sleep", "renew"}
CallStages == {"none", "sent", "ours", "lost", "commit"}

TaskStates ==
    [body: Bodies, hb: Beats, deadline: 0..Ttl, errors: 0..MaxErrors,
     timer: 0..Ttl, grace: 0..CancelGrace, call: CallStages, age: 0..MaxTransit]

\* Type correctness: deadlines and timers stay within their settings, and the
\* heartbeat gives up before _MAX_CONSECUTIVE_RENEW_ERRORS is passed.
TypeOK ==
    /\ row \in [leader: Processes \cup {NoProcess}, left: -1..Ttl]
    /\ phase \in [Processes -> Phases]
    /\ isLeader \in [Processes -> BOOLEAN]
    /\ lease \in [Processes -> 0..Ttl]
    /\ task \in [Processes -> [Schedulers -> TaskStates]]
    /\ detached \in [Processes -> SUBSET Schedulers]
    /\ orphan \in [Processes -> SUBSET Schedulers]
    /\ keeper \in [Processes -> -MaxTransit..RenewInterval]
    /\ drain \in [Processes -> 0..DrainGrace]

NoRow == [leader |-> NoProcess, left |-> -1]
NoTask == [body |-> "none", hb |-> "none", deadline |-> 0, errors |-> 0,
           timer |-> 0, grace |-> 0, call |-> "none", age |-> 0]

Stopped == [NoTask EXCEPT !.body = "stopped"]

Init ==
    /\ row = NoRow
    /\ phase = [p \in Processes |-> "up"]
    /\ isLeader = [p \in Processes |-> FALSE]
    /\ lease = [p \in Processes |-> 0]
    /\ task = [p \in Processes |-> [s \in Schedulers |-> NoTask]]
    /\ detached = [p \in Processes |-> {}]
    /\ orphan = [p \in Processes |-> {}]
    /\ keeper = [p \in Processes |-> 0]
    /\ drain = [p \in Processes |-> 0]

-----------------------------------------------------------------------------
(* The two guarded statements on the row.                                    *)

CanAcquireFreeRow(p) == row.leader \in {p, NoProcess}

\* expires_at < now OR leader_id = :leader_id; a missing row is free too.
CanAcquire(p) == row.left < 0 \/ row.leader = p

\* leader_id = :leader_id AND expires_at > now.
CanRenew(p) == row.leader = p /\ row.left > 0

Granted(p) == [leader |-> p, left |-> Ttl]

-----------------------------------------------------------------------------
(* What the heartbeat does with a run_if_leader call t.                      *)

\* The heartbeat returned with lease_lost: the gate cancels the body, unless
\* a shutdown already does.
Lost(t) ==
    IF t.body = "run" THEN [NoTask EXCEPT !.body = "cancelled", !.grace = CancelGrace]
    ELSE [NoTask EXCEPT !.body = t.body, !.grace = t.grace]

SleepWholeLease(t, d, errors) ==
    [body |-> t.body, hb |-> "sleep", deadline |-> d, errors |-> errors,
     timer |-> d, grace |-> t.grace, call |-> "none", age |-> 0]

\* The top of the heartbeat loop with working deadline d, which is not over.
Sleep(t, d, errors) ==
    [body |-> t.body, hb |-> "sleep", deadline |-> d, errors |-> errors,
     timer |-> Smaller(RenewInterval, NotNegative(d - RenewTimeout)),
     grace |-> t.grace, call |-> "none", age |-> 0]

\* The gate starts the body and its heartbeat under deadline d.
Started(d) == Sleep([NoTask EXCEPT !.body = "run"], d, 0)

SetTask(p, s, t) == task' = [task EXCEPT ![p] = [task[p] EXCEPT ![s] = t]]

Demote(p) ==
    /\ isLeader' = [isLeader EXCEPT ![p] = FALSE]
    /\ lease' = [lease EXCEPT ![p] = 0]

AcquireErrorsRegranting(p, s) ==
    \/ /\ isLeader[p] /\ lease[p] > 0
       /\ SetTask(p, s, Started(Ttl))
       /\ UNCHANGED <<isLeader, lease>>
    \/ /\ ~(isLeader[p] /\ lease[p] > 0)
       /\ SetTask(p, s, NoTask)
       /\ Demote(p)

\* try_acquire raised: leadership that is still valid is preserved and the
\* gate opens under the deadline already known.
AcquireErrors(p, s) ==
    \/ /\ isLeader[p] /\ lease[p] > 0
       /\ SetTask(p, s, Started(lease[p]))
       /\ UNCHANGED <<isLeader, lease>>
    \/ /\ ~(isLeader[p] /\ lease[p] > 0)
       /\ SetTask(p, s, NoTask)
       /\ Demote(p)

\* A renewal raised or timed out.
RenewErrors(p, s) ==
    LET t == task[p][s]
        patient == t.errors + 1 < MaxErrors /\ t.deadline > 0
        fresher == isLeader[p] /\ lease[p] > t.deadline
    IN \/ /\ patient
          /\ SetTask(p, s, Sleep(t, Larger(t.deadline, lease[p]), t.errors + 1))
          /\ UNCHANGED <<isLeader, lease>>
       \/ /\ ~patient /\ fresher
          /\ SetTask(p, s, Sleep(t, lease[p], 0))
          /\ UNCHANGED <<isLeader, lease>>
       \/ /\ ~patient /\ ~fresher
          /\ SetTask(p, s, Lost(t))
          /\ Demote(p)

-----------------------------------------------------------------------------
(* run_if_leader, try_acquire and renew.                                     *)

TryAcquire(p, s) ==
    /\ phase[p] \in {"up", "stopping"}
    /\ task[p][s] = NoTask
    /\ SetTask(p, s, [NoTask EXCEPT !.hb = "acquire", !.call = "sent"])
    /\ UNCHANGED <<row, phase, isLeader, lease, detached, orphan, keeper, drain>>

\* The database executes the statement of a call, and commits it.
Execute(p, s) ==
    LET t == task[p][s]
        ours == IF t.hb = "acquire" THEN CanAcquire(p) ELSE CanRenew(p)
    IN /\ t.call = "sent"
       /\ row' = IF ours THEN Granted(p) ELSE row
       /\ SetTask(p, s, [t EXCEPT !.call = IF ours THEN "ours" ELSE "lost", !.age = 0])
       /\ UNCHANGED <<phase, isLeader, lease, detached, orphan, keeper, drain>>

\* The answer of the statement arrives.  No row demotes at once; a row starts
\* the count of the deadline, which is adopted when the commit has returned.
Receive(p, s) ==
    LET t == task[p][s]
    IN /\ \/ /\ t.call = "lost"
             /\ Demote(p)
             /\ SetTask(p, s, IF t.hb = "acquire" THEN NoTask ELSE Lost(t))
          \/ /\ t.call = "ours"
             /\ SetTask(p, s, [t EXCEPT !.call = "commit", !.age = 0])
             /\ UNCHANGED <<isLeader, lease>>
       /\ UNCHANGED <<row, phase, detached, orphan, keeper, drain>>

Committed(p, s) ==
    LET t == task[p][s]
        anchored == Ttl - t.age
    IN /\ t.call = "commit"
       /\ lease' = [lease EXCEPT ![p] = anchored]
       /\ \/ /\ t.hb = "acquire"
             /\ isLeader' = [isLeader EXCEPT ![p] = TRUE]
             /\ SetTask(p, s, Started(anchored))
          \/ /\ t.hb = "renew"
             /\ SetTask(p, s, Sleep(t, anchored, 0))
             /\ UNCHANGED isLeader
       /\ UNCHANGED <<row, phase, detached, orphan, keeper, drain>>

\* A connection error, before or after the statement took effect.  Once the
\* answer says the row is not ours an error changes nothing any more.
CallFails(p, s) ==
    /\ p \in Faulty
    /\ task[p][s].call # "none"
    /\ IF task[p][s].hb = "acquire" THEN AcquireErrors(p, s) ELSE RenewErrors(p, s)
    /\ UNCHANGED <<row, phase, detached, orphan, keeper, drain>>

\* The heartbeat wakes up and calls renew, which asks the flag first.
Wake(p, s) ==
    LET t == task[p][s]
    IN /\ t.hb = "sleep" /\ t.timer = 0
       /\ SetTask(p, s, IF isLeader[p]
                        THEN [t EXCEPT !.hb = "renew", !.call = "sent",
                                       !.timer = Smaller(RenewTimeout, t.deadline)]
                        ELSE Lost(t))
       /\ UNCHANGED <<row, phase, isLeader, lease, detached, orphan, keeper, drain>>

RenewTimesOut(p, s) ==
    /\ task[p][s].hb = "renew" /\ task[p][s].timer = 0
    /\ RenewErrors(p, s)
    /\ UNCHANGED <<row, phase, detached, orphan, keeper, drain>>

BodyDone(p, s) ==
    /\ task[p][s].body \in {"run", "cancelled", "closing"}
    /\ SetTask(p, s, IF task[p][s].body = "closing" THEN Stopped ELSE NoTask)
    /\ UNCHANGED <<row, phase, isLeader, lease, detached, orphan, keeper, drain>>

\* _cancel_within_grace gives up waiting; the heartbeat of a body that a
\* shutdown cancelled is stopped only now.
GraceOver(p, s) ==
    /\ task[p][s].body \in {"cancelled", "closing"}
    /\ task[p][s].grace = 0
    /\ SetTask(p, s, IF task[p][s].body = "closing" THEN Stopped ELSE NoTask)
    /\ detached' = [detached EXCEPT ![p] = detached[p] \cup {s}]
    /\ UNCHANGED <<row, phase, isLeader, lease, orphan, keeper, drain>>

LingeringDone(p, s) ==
    /\ s \in detached[p] \cup orphan[p]
    /\ detached' = [detached EXCEPT ![p] = detached[p] \ {s}]
    /\ orphan' = [orphan EXCEPT ![p] = orphan[p] \ {s}]
    /\ UNCHANGED <<row, phase, isLeader, lease, task, keeper, drain>>

-----------------------------------------------------------------------------
(* Shutdown: keeper, scheduler stops one after the other, release.           *)

BeginShutdown(p) ==
    /\ p \in Mortal
    /\ phase[p] = "up"
    /\ phase' = [phase EXCEPT ![p] = "stopping"]
    /\ keeper' = [keeper EXCEPT ![p] = 0]
    /\ UNCHANGED <<row, isLeader, lease, task, detached, orphan, drain>>

\* A scheduler's stop() cancels run_if_leader.  A body whose lease was lost is
\* then no longer waited for, and nothing has recorded it.
StopScheduler(p, s) ==
    LET t == task[p][s]
    IN /\ phase[p] = "stopping"
       /\ \A r \in Schedulers : task[p][r].body # "closing"
       /\ \/ /\ t.body = "none"
             /\ SetTask(p, s, Stopped)
             /\ UNCHANGED orphan
          \/ /\ t.body = "run"
             /\ SetTask(p, s, [t EXCEPT !.body = "closing", !.grace = CancelGrace])
             /\ UNCHANGED orphan
          \/ /\ t.body = "cancelled"
             /\ SetTask(p, s, Stopped)
             /\ orphan' = [orphan EXCEPT ![p] = orphan[p] \cup {s}]
       /\ UNCHANGED <<row, phase, isLeader, lease, detached, keeper, drain>>

\* _renew_lease_row, from the keeper or from the drain of release.
KeeperRenews(p) ==
    /\ \/ phase[p] = "stopping"
       \/ phase[p] = "releasing" /\ detached[p] # {} /\ drain[p] > 0
    /\ keeper[p] <= 0
    /\ \/ row' = IF CanRenew(p) THEN Granted(p) ELSE row
       \/ p \in Faulty /\ UNCHANGED row
    /\ keeper' = [keeper EXCEPT ![p] =
                     IF phase[p] = "stopping" THEN RenewInterval
                     ELSE Smaller(RenewInterval, drain[p])]
    /\ UNCHANGED <<phase, isLeader, lease, task, detached, orphan, drain>>

BeginRelease(p) ==
    /\ phase[p] = "stopping"
    /\ \A s \in Schedulers : task[p][s] = Stopped
    /\ phase' = [phase EXCEPT ![p] = "releasing"]
    /\ Demote(p)
    /\ keeper' = [keeper EXCEPT ![p] = 0]
    /\ drain' = [drain EXCEPT ![p] = DrainGrace]
    /\ UNCHANGED <<row, task, detached, orphan>>

\* release deletes the row if it is ours, or leaves it to expire because a
\* detached body is still running, the delete failed or took too long.
Release(p) ==
    /\ phase[p] = "releasing"
    /\ \/ /\ detached[p] = {}
          /\ row' = IF row.leader = p THEN NoRow ELSE row
       \/ /\ detached[p] = {}
          /\ p \in Faulty
          /\ UNCHANGED row
       \/ /\ detached[p] # {} /\ drain[p] = 0
          /\ UNCHANGED row
    /\ phase' = [phase EXCEPT ![p] = "released"]
    /\ keeper' = [keeper EXCEPT ![p] = 0]
    /\ drain' = [drain EXCEPT ![p] = 0]
    /\ UNCHANGED <<isLeader, lease, task, detached, orphan>>

\* The process exits after its shutdown, or crashes.
ProcessEnds(p) ==
    /\ p \in Mortal
    /\ phase[p] # "down"
    /\ phase' = [phase EXCEPT ![p] = "down"]
    /\ Demote(p)
    /\ task' = [task EXCEPT ![p] = [s \in Schedulers |-> Stopped]]
    /\ detached' = [detached EXCEPT ![p] = {}]
    /\ orphan' = [orphan EXCEPT ![p] = {}]
    /\ keeper' = [keeper EXCEPT ![p] = 0]
    /\ drain' = [drain EXCEPT ![p] = 0]
    /\ UNCHANGED row

-----------------------------------------------------------------------------
(* Time.                                                                     *)

TaskDue(p, t) ==
    \/ t.hb \in {"sleep", "renew"} /\ t.timer = 0
    \/ t.body \in {"cancelled", "closing"} /\ t.grace = 0
    \/ t.call \in {"ours", "lost", "commit"} /\ t.age = MaxTransit
    \/ t.call = "sent" /\ p \notin Faulty /\ t.age = MaxTransit

KeeperActive(p) == phase[p] = "stopping" \/ (phase[p] = "releasing" /\ detached[p] # {})

Earlier(p, t) ==
    [t EXCEPT !.deadline = NotNegative(t.deadline - 1),
              !.timer = NotNegative(t.timer - 1),
              !.grace = NotNegative(t.grace - 1),
              !.age = IF t.call = "none" \/ (t.call = "sent" /\ p \in Faulty)
                      THEN 0 ELSE t.age + 1]

Tick ==
    /\ \A p \in Processes, s \in Schedulers : ~TaskDue(p, task[p][s])
    /\ \A p \in Processes : KeeperActive(p) => keeper[p] > -MaxTransit
    /\ row' = [row EXCEPT !.left = Larger(row.left - 1, -1)]
    /\ lease' = [p \in Processes |-> NotNegative(lease[p] - 1)]
    /\ task' = [p \in Processes |-> [s \in Schedulers |-> Earlier(p, task[p][s])]]
    /\ keeper' = [p \in Processes |-> IF KeeperActive(p) THEN keeper[p] - 1 ELSE keeper[p]]
    /\ drain' = [p \in Processes |-> NotNegative(drain[p] - 1)]
    /\ UNCHANGED <<phase, isLeader, detached, orphan>>

GateStep(p, s) ==
    \/ TryAcquire(p, s) \/ Execute(p, s) \/ Receive(p, s) \/ Committed(p, s)
    \/ CallFails(p, s) \/ Wake(p, s) \/ RenewTimesOut(p, s)
    \/ BodyDone(p, s) \/ GraceOver(p, s) \/ LingeringDone(p, s)
    \/ StopScheduler(p, s)

ProcessStep(p) ==
    \/ BeginShutdown(p) \/ KeeperRenews(p) \/ BeginRelease(p) \/ Release(p)
    \/ ProcessEnds(p)

Next ==
    \/ \E p \in Processes, s \in Schedulers : GateStep(p, s)
    \/ \E p \in Processes : ProcessStep(p)
    \/ Tick

Spec == Init /\ [][Next]_vars

\* Time passes, schedulers keep ticking, a due timer fires, an answer arrives,
\* the database does not refuse every statement for ever, and shutdown code
\* runs on.  Bodies need never finish.
Fairness ==
    /\ SF_vars(Tick)
    /\ \A p \in Processes :
          /\ WF_vars(KeeperRenews(p))
          /\ WF_vars(BeginRelease(p))
          /\ WF_vars(Release(p))
          /\ \A s \in Schedulers :
                /\ WF_vars(TryAcquire(p, s))
                /\ SF_vars(Execute(p, s))
                /\ WF_vars(Receive(p, s) \/ Committed(p, s))
                /\ WF_vars(Wake(p, s) \/ RenewTimesOut(p, s) \/ GraceOver(p, s))
                /\ WF_vars(StopScheduler(p, s))

FairSpec == Spec /\ Fairness

-----------------------------------------------------------------------------
(* Properties.                                                               *)

RowLeft(p) == IF row.leader = p THEN row.left ELSE -1

Beating(p, s) == task[p][s].hb \in {"sleep", "renew"}

\* The deadline a heartbeat works with, and the shared one it may adopt, never
\* outrun the expiry of the row by more than the travel of one answer, however
\* long the statement waited and whichever sibling renewed last.
DeadlineWithinLease ==
    \A p \in Processes :
        /\ lease[p] > 0 => lease[p] <= RowLeft(p) + MaxTransit
        /\ \A s \in Schedulers :
              Beating(p, s) => task[p][s].deadline <= RowLeft(p) + MaxTransit

\* Two replicas run uncancelled gated bodies at once only while one of them
\* has less than an answer's travel left before its heartbeat cancels it: with
\* no travel time there is a single leader.
OverlapBounded ==
    \A p, q \in Processes : \A s, r \in Schedulers :
        p # q /\ task[p][s].body = "run" /\ task[q][r].body = "run"
            => \/ task[p][s].deadline < MaxTransit
               \/ task[q][r].deadline < MaxTransit

\* The database answers p, and the three answers of a renewal are back before it
\* is given up.
Punctual(p) == p \notin Faulty /\ Ttl > 1 /\ 3 * MaxTransit < RenewTimeout

\* Where the database is punctual, gated work is cancelled for a lost lease only
\* after the flag was cleared under it; and nothing clears the flag under running
\* work but a late answer to a sibling's try_acquire, saying that another replica
\* had the row when the statement was executed.
LeadershipStable ==
    [][\A p \in Processes, s \in Schedulers : Punctual(p) /\ task[p][s].body = "run" =>
         /\ task'[p][s].body = "cancelled" => ~isLeader[p]
         /\ isLeader[p] /\ ~isLeader'[p] /\ phase'[p] # "down" =>
              \E r \in Schedulers : task[p][r].hb = "acquire" /\ task[p][r].call = "lost"]_vars

\* The row outlives the next renewal of the keeper, however late its answer, and
\* before release also the first one of the drain.
Covered(p) ==
    /\ row.leader = p
    /\ row.left > keeper[p] + (IF phase[p] = "stopping" THEN 2 * MaxTransit ELSE MaxTransit)

\* Where the database is punctual, a shutdown that begins under a heartbeat, or
\* whose keeper finds the row, keeps the lease for the bodies it detaches, until
\* the drain gives up: the keeper covers the gap between heartbeats and release.
ShutdownKeepsLease ==
    [][\A p \in Processes :
         /\ Punctual(p) /\ KeeperActive(p)'
         /\ \/ BeginShutdown(p) /\ \E s \in Schedulers : Beating(p, s)
            \/ KeeperRenews(p) /\ CanRenew(p)
            \/ KeeperActive(p) /\ Covered(p)
         => Covered(p)']_vars

\* Where the database is punctual, running work and a shutdown keep their lease.
TimelyLeaseKept == LeadershipStable /\ ShutdownKeepsLease

\* A lease left behind by a process that is gone does not block the others: a
\* live replica takes the row once it has expired.
FailoverHappens ==
    \A p \in Processes :
        phase[p] = "down" /\ row.leader = p
            ~> row.leader # p \/ \A q \in Processes : phase[q] = "down"

\* A shutdown always gets past the lease, even when gated bodies never finish
\* and the database fails.
ShutdownEnds ==
    \A p \in Processes : phase[p] = "stopping" ~> phase[p] \in {"released", "down"}

=============================================================================
