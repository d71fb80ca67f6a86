---------------------------- MODULE Automations ----------------------------
(***************************************************************************)
(* One automation cycle: a job's pings of a set of accounts, dispatched    *)
(* either by the daily schedule or by run-now.                             *)
(*                                                                         *)
(* The cycle row, its account rows and one run row per account live in the *)
(* database.  A worker is a replica: its scheduler tick reads a snapshot   *)
(* of those rows at the instant now_utc, decides for every due account     *)
(* what to do, and then works the list off; every claim is a conditional   *)
(* insert or a compare-and-set on started_at.  A claim whose executor died *)
(* is taken over once it is older than the claim timeout, which is the     *)
(* budget of a single ping plus a slack.                                   *)
(*                                                                         *)
(* Time is relative: due[a] is the time left until scheduled_for (negative *)
(* once it has passed), run[a].age the time since started_at, task[w].lag  *)
(* the time since the now_utc of w's tick.  Only a ping that hangs takes   *)
(* time; every other step is instantaneous.  started_at is compared only   *)
(* for equality and against scheduled_for, so run[a].claims, the number of *)
(* times it was set, stands for its value: 0 is a placeholder, which no    *)
(* worker has claimed (started_at <= scheduled_for).                       *)
(***************************************************************************)
EXTENDS Integers, Sequences, FiniteSets, SequencesExt

CONSTANTS
  Accounts,        \* the accounts of the job, numbered in its order
  Workers,         \* replicas that run the scheduler or serve run-now
  Threshold,       \* schedule_threshold_minutes, in ticks
  Budget,          \* compact_request_budget_seconds: how long a ping hangs
  Slack,           \* what the claim timeout adds to the budget
  LeadersOverlap,  \* a new leader may tick while the former one still works
  MaxHangs,        \* bound: pings that hang
  MaxCrashes,      \* bound: ticks cut short by a crash or a shutdown
  MaxFlips         \* bound: accounts that become ineligible or eligible

VARIABLES
  trigger,   \* "scheduled" or "manual"
  eligible,  \* the accounts _is_account_eligible_for_automation accepts
  cycle,     \* [made, accounts]: the cycle row and its account rows
  due,       \* cycle account -> time left until scheduled_for
  run,       \* slot -> run row
  task,      \* worker -> its tick
  hangs, crashes, flips

vars == <<trigger, eligible, cycle, due, run, task, hangs, crashes, flips>>

EmptyCycle == 0     \* the slot of a cycle without accounts

Slots == Accounts \cup {EmptyCycle}

Timeout == Budget + Slack

MaxLag == MaxHangs * Budget

MaxAge == Timeout + MaxLag + 1

Lesser(m, n) == IF m < n THEN m ELSE n

NoRun == [status |-> "none", claims |-> 0, age |-> 0]

Idle == [pc |-> "idle", lag |-> 0, plan |-> <<>>, slot |-> EmptyCycle, left |-> <<>>,
         tries |-> 0, hang |-> 0]

Init ==
  /\ trigger \in {"scheduled", "manual"}
  /\ eligible \in SUBSET Accounts
  /\ cycle = [made |-> FALSE, accounts |-> {}]
  /\ due = [a \in {} |-> 0]
  /\ run = [s \in Slots |-> NoRun]
  /\ task = [w \in Workers |-> Idle]
  /\ hangs = 0
  /\ crashes = 0
  /\ flips = 0

Running(s) == run[s].status = "running"

(* A running row nobody has claimed yet. *)
Placeholder(s) == Running(s) /\ run[s].claims = 0

(* Mutant: a claimed run is never taken over. *)
StaleUnclaimed(s) == Placeholder(s)

(* A running row whose claim is older than the claim timeout, or absent. *)
Stale(s) == Running(s) /\ (run[s].claims = 0 \/ run[s].age > Timeout)

Ordered(S) == SetToSortSeq(S, <)

-----------------------------------------------------------------------------
(* Creating the cycle *)

(* One account is dispatched at the slot itself, the others at random      *)
(* offsets of the window, distinct while there are enough of them.         *)
Offsets(A) ==
  { f \in [A -> 0 .. Threshold] :
      IF Threshold = 0 \/ Cardinality(A) < 2 THEN \A a \in A : f[a] = 0
      ELSE /\ Cardinality({a \in A : f[a] = 0}) = 1
           /\ Cardinality(A) <= Threshold + 1 => Cardinality({f[a] : a \in A}) = Cardinality(A) }

-----------------------------------------------------------------------------
(* What a tick decides, from the rows it reads *)

Item(s, do) == [slot |-> s, do |-> do, claims |-> run[s].claims]

DueNow(A) == { a \in A : due[a] <= 0 }

(* The decision of a scheduled tick about one due account. *)
Decision(a) ==
  IF run[a].status = "none" THEN IF a \in eligible THEN "insert" ELSE "drop"
  ELSE IF Stale(a) THEN IF a \in eligible THEN "reclaim" ELSE "fail"
  ELSE "leave"

(* The runs a scheduled cycle without account rows may show as its latest. *)
Latest ==
  LET had == { s \in Slots : run[s].status # "none" }
  IN  { s \in had : \A q \in had : run[s].age <= run[q].age }

ScheduledPlans ==
  IF cycle.accounts # {}
  THEN LET picked == { a \in DueNow(cycle.accounts) : Decision(a) # "leave" }
       IN  { [i \in 1 .. Cardinality(picked) |->
                Item(Ordered(picked)[i], Decision(Ordered(picked)[i]))] }
  ELSE IF Latest = {} THEN { <<Item(EmptyCycle, "insert")>> }
  ELSE { IF Stale(s) THEN <<Item(s, "fail")>> ELSE <<>> : s \in Latest }

(* The due manual runs, by scheduled_for and then by position. *)
ManualPlan ==
  LET listed == { a \in DueNow(DOMAIN due) : Stale(a) }
      before(a, b) == due[a] < due[b] \/ (due[a] = due[b] /\ a < b)
      order == SetToSortSeq(listed, before)
  IN  [i \in 1 .. Len(order) |-> Item(order[i], "manual")]

-----------------------------------------------------------------------------
(* Working the list off *)

Put(w, t) == task' = [task EXCEPT ![w] = t]

(* w's tick without the item or the run it has just dealt with. *)
Onward(w, plan) == IF plan = <<>> THEN Idle ELSE [Idle EXCEPT !.pc = "plan", !.lag = task[w].lag,
                                                             !.plan = plan]

(* The accounts a run tries: its own first, while the cycle still has it. *)
ToTry(s) ==
  LET others == Ordered(cycle.accounts \ {s})
  IN  IF s \in cycle.accounts THEN <<s>> \o others ELSE others

Executing(w, s, left, plan) ==
  [Idle EXCEPT !.pc = "ping", !.lag = task[w].lag, !.slot = s, !.left = left, !.plan = plan]

NoFault == UNCHANGED <<hangs, crashes, flips>>

(* The daily slot is due and nobody has stored its cycle. *)
CreateScheduled ==
  /\ trigger = "scheduled"
  /\ ~cycle.made
  /\ \E f \in Offsets(eligible) : due' = f
  /\ cycle' = [made |-> TRUE, accounts |-> eligible]
  /\ NoFault
  /\ UNCHANGED <<trigger, eligible, run, task>>

(* run_now stores the cycle with a placeholder for every account; without  *)
(* accounts it executes the one run it stored, without a claim.            *)
RunNow(w) ==
  /\ trigger = "manual"
  /\ ~cycle.made
  /\ \E f \in Offsets(eligible) : due' = f
  /\ cycle' = [made |-> TRUE, accounts |-> eligible]
  /\ run' = [s \in Slots |->
               IF s \in eligible \/ (eligible = {} /\ s = EmptyCycle)
               THEN [NoRun EXCEPT !.status = "running"] ELSE NoRun]
  /\ task' = IF eligible = {} THEN [task EXCEPT ![w] = Executing(w, EmptyCycle, <<>>, <<>>)]
             ELSE task
  /\ NoFault
  /\ UNCHANGED <<trigger, eligible>>

(* A tick, or the rest of run_now, reads the rows and decides. *)
Begin(w) ==
  /\ cycle.made
  /\ task[w] = Idle
  /\ trigger = "manual" \/ LeadersOverlap \/ \A v \in Workers : task[v] = Idle
  /\ \E p \in IF trigger = "manual" THEN {ManualPlan} ELSE ScheduledPlans :
       /\ p # <<>>
       /\ Put(w, [Idle EXCEPT !.pc = "plan", !.plan = p])
  /\ NoFault
  /\ UNCHANGED <<trigger, eligible, cycle, due, run>>

Doing(w, do) == task[w].pc = "plan" /\ Head(task[w].plan).do = do

(* delete_run_cycle_account: an account that stopped being eligible before *)
(* it had a run leaves the cycle.                                          *)
Drop(w) ==
  /\ Doing(w, "drop")
  /\ cycle' = [cycle EXCEPT !.accounts = @ \ {Head(task[w].plan).slot}]
  /\ Put(w, Onward(w, Tail(task[w].plan)))
  /\ NoFault
  /\ UNCHANGED <<trigger, eligible, due, run>>

(* The insert finds the account still in the cycle and its slot free. *)
Insertable(s) == run[s].status = "none" /\ (s = EmptyCycle \/ s \in cycle.accounts)

(* A scheduled run is created claimed, started when the tick began. *)
Insert(w) ==
  LET s == Head(task[w].plan).slot
      rest == Tail(task[w].plan)
      since == IF s = EmptyCycle THEN task[w].lag ELSE Lesser(task[w].lag, -due[s])
  IN  /\ Doing(w, "insert")
      /\ IF Insertable(s)
         THEN /\ run' = [run EXCEPT ![s] = [status |-> "running", claims |-> 1, age |-> since]]
              /\ Put(w, Executing(w, s, ToTry(s), rest))
         ELSE Put(w, Onward(w, rest)) /\ UNCHANGED run
      /\ NoFault
      /\ UNCHANGED <<trigger, eligible, cycle, due>>

(* The compare-and-set of a claim: the row still runs, has the started_at  *)
(* the tick read, and that is stale by the tick's clock.                   *)
Claimable(w, s) ==
  /\ Running(s)
  /\ run[s].claims = Head(task[w].plan).claims
  /\ run[s].claims = 0 \/ run[s].age > Timeout + task[w].lag

(* claim_scheduled_cycle_run_execution: started_at becomes the tick's now. *)
(* A run whose account is not eligible any more is only failed.            *)
Reclaim(w) ==
  LET s == Head(task[w].plan).slot
      rest == Tail(task[w].plan)
  IN  /\ Doing(w, "reclaim") \/ Doing(w, "fail")
      /\ IF Claimable(w, s)
         THEN /\ run' = [run EXCEPT ![s].claims = @ + 1, ![s].age = task[w].lag]
              /\ Put(w, Executing(w, s, IF Doing(w, "fail") THEN <<>> ELSE ToTry(s), rest))
         ELSE Put(w, Onward(w, rest)) /\ UNCHANGED run
      /\ NoFault
      /\ UNCHANGED <<trigger, eligible, cycle, due>>

(* A manual run of an eligible account is claimed at the present time. *)
ClaimManual(w) ==
  LET s == Head(task[w].plan).slot
      rest == Tail(task[w].plan)
  IN  /\ Doing(w, "manual")
      /\ s \in eligible
      /\ IF Claimable(w, s)
         THEN /\ run' = [run EXCEPT ![s].claims = @ + 1, ![s].age = 0]
              /\ Put(w, Executing(w, s, ToTry(s), rest))
         ELSE Put(w, Onward(w, rest)) /\ UNCHANGED run
      /\ NoFault
      /\ UNCHANGED <<trigger, eligible, cycle, due>>

(* The row was, and still is, a placeholder. *)
Skippable(w, s) == Head(task[w].plan).claims = 0 /\ Placeholder(s)

(* skip_unclaimed_manual_run_placeholder: the account stopped being        *)
(* eligible.  A run some worker had claimed is left as it is.              *)
SkipManual(w) ==
  LET s == Head(task[w].plan).slot
  IN  /\ Doing(w, "manual")
      /\ s \notin eligible
      /\ IF Skippable(w, s)
         THEN /\ run' = [run EXCEPT ![s].status = "partial"]
              /\ cycle' = [cycle EXCEPT !.accounts = @ \ {s}]
         ELSE UNCHANGED <<run, cycle>>
      /\ Put(w, Onward(w, Tail(task[w].plan)))
      /\ NoFault
      /\ UNCHANGED <<trigger, eligible, due>>

-----------------------------------------------------------------------------
(* Executing a claimed run *)

Pinging(w) == task[w].pc = "ping"

(* complete_run writes the result whatever the row says now. *)
Complete(w, status) ==
  /\ run' = [run EXCEPT ![task[w].slot].status = status]
  /\ Put(w, Onward(w, task[w].plan))

Attempts(w) == Lesser(task[w].tries + 1, 2)

(* Nothing is left to try. *)
Exhausted(w) ==
  /\ Pinging(w)
  /\ task[w].left = <<>>
  /\ Complete(w, "failed")
  /\ NoFault
  /\ UNCHANGED <<trigger, eligible, cycle, due>>

(* An ineligible account is passed over without an attempt. *)
PassOver(w) ==
  /\ Pinging(w)
  /\ task[w].left # <<>>
  /\ Head(task[w].left) \notin eligible
  /\ Put(w, [task[w] EXCEPT !.left = Tail(@)])
  /\ NoFault
  /\ UNCHANGED <<trigger, eligible, cycle, due, run>>

MayPing(w) == Pinging(w) /\ task[w].left # <<>> /\ Head(task[w].left) \in eligible

PingSucceeds(w) ==
  /\ MayPing(w)
  /\ Complete(w, IF Attempts(w) > 1 THEN "partial" ELSE "success")
  /\ NoFault
  /\ UNCHANGED <<trigger, eligible, cycle, due>>

(* An error that another account would not cure ends the run. *)
PingRefused(w) ==
  /\ MayPing(w)
  /\ Complete(w, "failed")
  /\ NoFault
  /\ UNCHANGED <<trigger, eligible, cycle, due>>

(* An error of this account: the next one is tried.  A permanent failure   *)
(* is written to the account.                                              *)
PingFails(w) ==
  /\ MayPing(w)
  /\ eligible' \in {eligible, eligible \ {Head(task[w].left)}}
  /\ Put(w, [task[w] EXCEPT !.left = Tail(@), !.tries = Attempts(w)])
  /\ NoFault
  /\ UNCHANGED <<trigger, cycle, due, run>>

PingHangs(w) ==
  /\ MayPing(w)
  /\ hangs < MaxHangs
  /\ hangs' = hangs + 1
  /\ Put(w, [task[w] EXCEPT !.pc = "hang", !.hang = Budget])
  /\ UNCHANGED <<trigger, eligible, cycle, due, run, crashes, flips>>

(* wait_for gives up on the ping: as any other exception, next account. *)
PingTimesOut(w) ==
  /\ task[w].pc = "hang"
  /\ task[w].hang = 0
  /\ Put(w, [task[w] EXCEPT !.pc = "ping", !.left = Tail(@), !.tries = Attempts(w)])
  /\ NoFault
  /\ UNCHANGED <<trigger, eligible, cycle, due, run>>

-----------------------------------------------------------------------------
(* The surroundings *)

(* The tick is cut short: the replica stops, or a statement of it fails. *)
Crash(w) ==
  /\ task[w] # Idle
  /\ crashes < MaxCrashes
  /\ crashes' = crashes + 1
  /\ Put(w, Idle)
  /\ UNCHANGED <<trigger, eligible, cycle, due, run, hangs, flips>>

(* An account is paused, limited, deactivated, deleted, or comes back. *)
Flip(a) ==
  /\ flips < MaxFlips
  /\ flips' = flips + 1
  /\ eligible' = IF a \in eligible THEN eligible \ {a} ELSE eligible \cup {a}
  /\ UNCHANGED <<trigger, cycle, due, run, task, hangs, crashes>>

(* Time passes only while no worker has anything to do but wait. *)
Tick ==
  /\ cycle.made
  /\ \A w \in Workers : task[w] = Idle \/ (task[w].pc = "hang" /\ task[w].hang > 0)
  /\ due' = [a \in DOMAIN due |-> IF due[a] > -MaxLag THEN due[a] - 1 ELSE due[a]]
  /\ run' = [s \in Slots |-> IF Running(s) THEN [run[s] EXCEPT !.age = Lesser(@ + 1, MaxAge)]
                             ELSE run[s]]
  /\ task' = [w \in Workers |-> IF task[w] = Idle THEN Idle
                                ELSE [task[w] EXCEPT !.hang = @ - 1, !.lag = Lesser(@ + 1, MaxLag)]]
  /\ NoFault
  /\ UNCHANGED <<trigger, eligible, cycle>>

Step(w) ==
  \/ Drop(w) \/ Insert(w) \/ Reclaim(w) \/ ClaimManual(w) \/ SkipManual(w)
  \/ Exhausted(w) \/ PassOver(w) \/ PingSucceeds(w) \/ PingRefused(w) \/ PingFails(w)
  \/ PingTimesOut(w)

Next ==
  \/ CreateScheduled
  \/ Tick
  \/ \E a \in Accounts : Flip(a)
  \/ \E w \in Workers : RunNow(w) \/ Begin(w) \/ Step(w) \/ PingHangs(w) \/ Crash(w)

Spec == Init /\ [][Next]_vars

(* The scheduler loop of the leader keeps ticking, every await of a tick   *)
(* returns, and time passes: the loop waits interval_seconds between two   *)
(* ticks, so a tick that finds nothing it can do does not hold time up     *)
(* (strong fairness).                                                      *)
FairSpec ==
  /\ Spec
  /\ WF_vars(CreateScheduled)
  /\ SF_vars(Tick)
  /\ WF_vars(\E w \in Workers : Begin(w))
  /\ \A w \in Workers : WF_vars(Step(w))

-----------------------------------------------------------------------------
(* Properties *)

(* Rows and ticks have their shape: offsets stay in the dispatch window,   *)
(* and a worker that executes a run works on a row that exists and on      *)
(* accounts of the job.                                                    *)
AutomationTypeOK ==
  /\ eligible \subseteq Accounts
  /\ cycle.accounts \subseteq DOMAIN due /\ DOMAIN due \subseteq Accounts
  /\ \A a \in DOMAIN due : due[a] \in -MaxLag .. Threshold
  /\ \A s \in Slots :
       /\ run[s].status \in {"none", "running", "success", "partial", "failed"}
       /\ run[s].age \in 0 .. MaxAge
       /\ run[s].claims <= 1 + MaxCrashes + MaxHangs
  /\ \A w \in Workers :
       /\ task[w].pc \in {"idle", "plan", "ping", "hang"}
       /\ task[w].pc = "idle" <=> task[w] = Idle
       /\ task[w].pc \in {"ping", "hang"} => run[task[w].slot].status # "none"

Executes(w, s) == task[w].pc \in {"ping", "hang"} /\ task[w].slot = s

(* A slot has at most one worker executing it, whatever two ticks read     *)
(* before either claimed: the claims of claim_scheduled_cycle_account_run, *)
(* claim_scheduled_cycle_run_execution and claim_manual_run_execution, and *)
(* the claim timeout, keep a run that still executes from being taken.     *)
OneExecutor ==
  \A s \in Slots, v, w \in Workers : Executes(v, s) /\ Executes(w, s) => v = w

(* What the scheduler cannot finish: a claimed manual run of a dead worker *)
(* whose account is not eligible, and the run of a manual cycle without    *)
(* accounts.                                                               *)
Abandoned(s) == trigger = "manual" /\ s \notin eligible

(* Every run of a cycle ends: each account of the plan gets a result or    *)
(* leaves the cycle, in spite of crashed ticks and hanging pings, unless   *)
(* it is a manual run abandoned with an ineligible account.                *)
CycleEnds ==
  cycle.made ~> \A s \in DOMAIN due \cup {EmptyCycle} :
                  /\ Running(s) => Abandoned(s)
                  /\ s \in cycle.accounts => run[s].status # "none"
=============================================================================
