------------------------------ MODULE CapPartition ------------------------------
(***************************************************************************)
(* Bridge-ring membership and the partition of the per-account concurrency *)
(* caps over its members (proxy/ring_membership.py, cap_partitioning.py,   *)
(* the registration and heartbeat tasks of main.py).  A replica refreshes  *)
(* its row in the ring every heartbeat, then reads the rows that are not   *)
(* stale and derives its share of each cap from how many members there are *)
(* and where its own id sorts.  A change that would grow its share waits   *)
(* until it has been read without a gap for the stability window.          *)
(*                                                                         *)
(* The unit of time is the heartbeat interval, ten seconds.                *)
(***************************************************************************)
EXTENDS Integers, FiniteSets, FiniteSetsExt

CONSTANTS
    Replicas,       \* instance ids, as numbers in the order they sort
    StartupCaps,    \* the caps of the settings file
    DashboardCaps,  \* the values an operator may give them
    StaleAfter,     \* RING_STALE_THRESHOLD_SECONDS
    MarkedAge,      \* the age mark_stale gives a row
    Window,         \* proxy_account_cap_partition_scale_down_seconds
    SettingsMayFail,\* whether the dashboard settings may be unreadable
    MaxFaults,      \* bound on failed heartbeats, reads and registrations
    MaxStops,       \* bound on crashes and shutdowns
    MaxEdits        \* bound on changes of the caps

VARIABLES
    row,      \* replica -> the age of its row's last_heartbeat_at
    phase,    \* replica -> down, registering, or what its heartbeat task does next
    adopted,  \* replica -> the partition it enforces
    pending,  \* replica -> the share-growing partition it waits to adopt, or none
    since,    \* replica -> how long it has been pending
    caps,     \* the caps in effect
    faults, stops, edits

vars == <<row, phase, adopted, pending, since, caps, faults, stops, edits>>

Whole == [count |-> 1, rank |-> 0]
NotPending == [count |-> 0, rank |-> 0]
Absent == -1                          \* the age of a row that does not exist
Oldest == StaleAfter + Window + 1

Init ==
    /\ row = [r \in Replicas |-> Absent]
    /\ phase = [r \in Replicas |-> "down"]
    /\ adopted = [r \in Replicas |-> Whole]
    /\ pending = [r \in Replicas |-> NotPending]
    /\ since = [r \in Replicas |-> 0]
    /\ caps = StartupCaps
    /\ faults = 0 /\ stops = 0 /\ edits = 0

Running == {r \in Replicas : phase[r] \notin {"down", "registering"}}

\* A step that may fail within the bound.
Fault == faults < MaxFaults /\ faults' = faults + 1

--------------------------------------------------------------------------------
\* Shares.

\* Mutant: the remainder goes to one rank too many.
ShareOneMore(cap, p) ==
    IF cap <= 0 THEN 0
    ELSE IF p.count <= 1 THEN cap
    ELSE Max({1, cap \div p.count + (IF p.rank <= cap % p.count THEN 1 ELSE 0)})

\* partition_cap
Share(cap, p) ==
    IF cap <= 0 THEN 0
    ELSE IF p.count <= 1 THEN cap
    ELSE Max({1, cap \div p.count + (IF p.rank < cap % p.count THEN 1 ELSE 0)})

\* list_active: a row that does not exist is not active.
Active == {r \in Replicas : row[r] # Absent /\ row[r] <= StaleAfter}

\* The observing replica counts itself, whatever its row says.
Observed(r) ==
    LET members == Active \union {r}
    IN  [count |-> Cardinality(members), rank |-> Cardinality({m \in members : m < r})]

\* _could_grow_share, for the caps cs.
CouldGrow(r, p, cs) == \E c \in cs : Share(c, p) > Share(c, adopted[r])

ClearPending(r) ==
    /\ pending' = [pending EXCEPT ![r] = NotPending]
    /\ since' = [since EXCEPT ![r] = 0]

\* observe_members
ObserveMembers(r, cs) ==
    LET seen == Observed(r)
    IN  \/ /\ seen = adopted[r]
           /\ ClearPending(r)
           /\ UNCHANGED adopted
        \/ /\ seen # adopted[r]
           /\ ~CouldGrow(r, seen, cs) \/ (seen = pending[r] /\ since[r] >= Window)
           /\ adopted' = [adopted EXCEPT ![r] = seen]
           /\ ClearPending(r)
        \/ /\ seen # adopted[r] /\ CouldGrow(r, seen, cs)
           /\ seen # pending[r]
           /\ pending' = [pending EXCEPT ![r] = seen]
           /\ since' = [since EXCEPT ![r] = 0]
           /\ UNCHANGED adopted
        \/ /\ seen # adopted[r] /\ CouldGrow(r, seen, cs)
           /\ seen = pending[r] /\ since[r] < Window
           /\ UNCHANGED <<adopted, pending, since>>

--------------------------------------------------------------------------------
\* The life of a replica.

\* A new process, under the same instance id: it holds the whole of every cap
\* until its first read of the ring.
Start(r) ==
    /\ phase[r] = "down"
    /\ phase' = [phase EXCEPT ![r] = "registering"]
    /\ adopted' = [adopted EXCEPT ![r] = Whole]
    /\ ClearPending(r)
    /\ UNCHANGED <<row, caps, faults, stops, edits>>

\* register upserts the row; a failed registration is tried again.
Register(r) ==
    /\ phase[r] = "registering"
    /\ row' = [row EXCEPT ![r] = 0]
    /\ phase' = [phase EXCEPT ![r] = "refresh"]
    /\ UNCHANGED <<adopted, pending, since, caps, faults, stops, edits>>

\* heartbeat upserts the row; a failure is logged and the task goes on.
Heartbeat(r) ==
    /\ phase[r] = "beat"
    /\ \/ row' = [row EXCEPT ![r] = 0] /\ UNCHANGED faults
       \/ Fault /\ UNCHANGED row
    /\ phase' = [phase EXCEPT ![r] = "refresh"]
    /\ UNCHANGED <<adopted, pending, since, caps, stops, edits>>

\* note_failed_read
NoteFailedRead(r) == ClearPending(r)

\* refresh_cap_partition.  The growth decision uses the caps in effect, or those
\* of the settings file when the dashboard's cannot be read.
RefreshCapPartition(r) ==
    /\ phase[r] = "refresh"
    /\ phase' = [phase EXCEPT ![r] = "asleep"]
    /\ \/ ObserveMembers(r, caps) /\ UNCHANGED faults
       \/ SettingsMayFail /\ Fault /\ ObserveMembers(r, StartupCaps)
       \/ Fault /\ NoteFailedRead(r) /\ UNCHANGED adopted
    /\ UNCHANGED <<row, caps, stops, edits>>

\* The lifespan ends: the heartbeat is cancelled and the row aged near expiry,
\* which may fail, as after a crash.
Stop(r) ==
    /\ phase[r] # "down" /\ stops < MaxStops
    /\ stops' = stops + 1
    /\ phase' = [phase EXCEPT ![r] = "down"]
    /\ row' \in {row} \union (IF row[r] # Absent THEN {[row EXCEPT ![r] = MarkedAge]} ELSE {})
    /\ UNCHANGED <<adopted, pending, since, caps, faults, edits>>

\* purge_stale_before deletes rows that are long dead.
Purge ==
    /\ \E r \in Replicas : row[r] = Oldest
    /\ row' = [r \in Replicas |-> IF row[r] = Oldest THEN Absent ELSE row[r]]
    /\ UNCHANGED <<phase, adopted, pending, since, caps, faults, stops, edits>>

\* An operator changes the caps.
SetCaps(cs) ==
    /\ cs # caps /\ edits < MaxEdits
    /\ caps' = cs
    /\ edits' = edits + 1
    /\ UNCHANGED <<row, phase, adopted, pending, since, faults, stops>>

\* An interval passes, once every heartbeat task has done its work of this one.
Tick ==
    /\ Running # {}
    /\ \A r \in Running : phase[r] = "asleep"
    /\ phase' = [r \in Replicas |-> IF phase[r] = "asleep" THEN "beat" ELSE phase[r]]
    /\ row' = [r \in Replicas |->
                  IF row[r] = Absent \/ row[r] = Oldest THEN row[r] ELSE row[r] + 1]
    /\ since' = [r \in Replicas |->
                    IF pending[r] = NotPending \/ since[r] = Window THEN since[r] ELSE since[r] + 1]
    /\ UNCHANGED <<adopted, pending, caps, faults, stops, edits>>

Next ==
    \/ \E r \in Replicas :
          Start(r) \/ Register(r) \/ Heartbeat(r) \/ RefreshCapPartition(r) \/ Stop(r)
    \/ Purge
    \/ \E cs \in DashboardCaps : SetCaps(cs)
    \/ Tick

Spec == Init /\ [][Next]_vars

\* The tasks of a live replica go on, and so does time; a replica that is down
\* need not come back.
FairSpec ==
    /\ Spec
    /\ \A r \in Replicas : WF_vars(Register(r)) /\ WF_vars(Heartbeat(r))
                           /\ WF_vars(RefreshCapPartition(r))
    /\ WF_vars(Tick)

--------------------------------------------------------------------------------
\* Rows, partitions and windows stay in range: an adopted partition is one of a
\* ring that could exist, with this replica in it.
CapTypeOK ==
    /\ row \in [Replicas -> 0..Oldest \union {Absent}]
    /\ phase \in [Replicas -> {"down", "registering", "beat", "refresh", "asleep"}]
    /\ \A r \in Replicas :
          /\ adopted[r].rank \in 0..(adopted[r].count - 1)
          /\ adopted[r].count <= Cardinality(Replicas)
          /\ pending[r] = NotPending \/ pending[r].rank \in 0..(pending[r].count - 1)
          /\ since[r] \in 0..Window
    /\ caps \in DashboardCaps \union {StartupCaps}

\* Once faults, restarts and edits stop, the live replicas come to split every
\* cap exactly: their shares add up to the cap, or to one slot each when there are
\* more replicas than slots; growth is only deferred, never lost.
SharesExact ==
    \A c \in caps :
        c > 0 /\ Running # {} =>
            MapThenSumSet(LAMBDA r : Share(c, adopted[r]), Running)
                = Max({c, Cardinality(Running)})

SharesSettle == <>[]SharesExact

================================================================================
