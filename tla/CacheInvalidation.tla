-------------------------- MODULE CacheInvalidation --------------------------
(***************************************************************************)
(* The cross-replica cache-invalidation bus (app/core/cache/invalidation.  *)
(* py) and the process-local caches that hang on it.                       *)
(*                                                                         *)
(* A mutation commits its rows, drops or marks the local cache, and bumps  *)
(* the version of its namespace in the shared table.  Every replica polls  *)
(* the table, runs the namespace's callback for a version it has not seen  *)
(* and acknowledges the version when the callback succeeded.  Namespaces   *)
(* share nothing but the poll task, so the model follows one of them;      *)
(* `kind`, drawn once, says which:                                         *)
(*   api_key            read-through cache, durable bump;                  *)
(*   account_selection  read-through cache, coalesced bump;                *)
(*   account_routing    snapshot with local marks, coalesced bump that     *)
(*                      endpoint paths follow with a durable one;          *)
(*   reset_credits      store refilled by the refresh tick, durable bump   *)
(*                      that the source acknowledges itself.               *)
(* What the caches hold is abstracted to the number of the committed       *)
(* change it reflects.  Pausing and reactivating an account alternate (each*)
(* is a compare-and-set on the status), so for account_routing the parity  *)
(* of that number is the account's status: odd is routing-unavailable.     *)
(***************************************************************************)
EXTENDS Integers, Sequences, FiniteSets

CONSTANTS
  Nodes,
  Kinds,         \* namespaces the behaviours may be about
  Nothing,       \* no model of this value: an empty cache, no reader
  MaxWrites,     \* committed changes in a behaviour
  MaxFaults,     \* failed reads, bumps and refreshes in a behaviour
  MaxLosses,     \* replicas lost in a behaviour
  PrimeMayFail   \* whether the baseline read at startup may fail

ASSUME CacheAssumption == MaxWrites \in Nat

VARIABLES
  kind,      \* the namespace followed
  written,   \* how many changes are committed
  bumpedAt,  \* for every version of the row, what was committed at its bump
  phase,     \* what the lifespan and poll task of a replica is doing
  rows,      \* the version its last poll read
  known,     \* _known_versions, 0 when absent
  primed,    \* _poll_initialized
  seeded,    \* the baseline was seeded before the caches were loaded
  pending,   \* _pending_bumps
  cached,    \* the change the cache or snapshot reflects, or Nothing
  mark,      \* the account is in _local_marks
  refresh,   \* a running refresh_from_db
  reader,    \* a running read-through fill
  writer,    \* a running mutation
  faults, losses

cacheVars == <<kind, written, bumpedAt, phase, rows, known, primed, seeded,
               pending, cached, mark, refresh, reader, writer, faults, losses>>

version == Len(bumpedAt)

Routing == kind = "account_routing"

Unavailable(n) == n % 2 = 1

MaxOf(m, n) == IF m > n THEN m ELSE n

NoRefresh == [value |-> Nothing, marked |-> FALSE, on |-> FALSE]
NoReader == [value |-> Nothing, valid |-> FALSE, on |-> FALSE]
NoWriter == [change |-> 0, at |-> "none"]

CacheInit ==
  /\ kind \in Kinds
  /\ written = 0
  /\ bumpedAt = <<>>
  /\ phase = [r \in Nodes |-> "off"]
  /\ rows = [r \in Nodes |-> 0]
  /\ known = [r \in Nodes |-> 0]
  /\ primed = [r \in Nodes |-> FALSE]
  /\ seeded = [r \in Nodes |-> FALSE]
  /\ pending = [r \in Nodes |-> FALSE]
  /\ cached = [r \in Nodes |-> Nothing]
  /\ mark = [r \in Nodes |-> FALSE]
  /\ refresh = [r \in Nodes |-> NoRefresh]
  /\ reader = [r \in Nodes |-> NoReader]
  /\ writer = [r \in Nodes |-> NoWriter]
  /\ faults = 0
  /\ losses = 0

Fault == faults < MaxFaults /\ faults' = faults + 1

(***************************************************************************)
(* The caches.                                                             *)
(***************************************************************************)
Serving(r) == phase[r] \in {"idle", "flush", "flushed", "read", "rows"}

(* clear, invalidate, invalidate_all: the entries go and the version of the *)
(* cache moves on, so a fill that has begun no longer finds its own.        *)
Drop(r) ==
  /\ cached' = [cached EXCEPT ![r] = Nothing]
  /\ reader' = [reader EXCEPT ![r].valid = FALSE]

(* What routing is told of the account on replica r. *)
IsUnavailable(r) ==
  mark[r] \/ (cached[r] # Nothing /\ Unavailable(cached[r]))

(* A miss remembers the version of the cache and goes to the database.  The *)
(* refresh tick of the reset-credits store fetches whatever is cached.     *)
ReadMiss(r) ==
  /\ ~Routing /\ Serving(r) /\ ~reader[r].on
  /\ cached[r] = Nothing \/ kind = "reset_credits"
  /\ reader' = [reader EXCEPT ![r] = [value |-> Nothing, valid |-> TRUE, on |-> TRUE]]
  /\ UNCHANGED <<kind, written, bumpedAt, phase, rows, known, primed, seeded, pending,
                 cached, mark, refresh, writer, faults, losses>>

ReadRow(r) ==
  /\ reader[r].on /\ reader[r].value = Nothing
  /\ reader' = [reader EXCEPT ![r].value = written]
  /\ UNCHANGED <<kind, written, bumpedAt, phase, rows, known, primed, seeded, pending,
                 cached, mark, refresh, writer, faults, losses>>

MayFillAlways(r) == reader[r].on

(* set(if_version) and set_if_generation: a fill that an invalidation      *)
(* overtook is dropped.                                                    *)
MayFill(r) == reader[r].valid

Fill(r) ==
  /\ reader[r].on /\ reader[r].value # Nothing
  /\ reader' = [reader EXCEPT ![r] = NoReader]
  /\ cached' = IF MayFill(r) THEN [cached EXCEPT ![r] = reader[r].value] ELSE cached
  /\ UNCHANGED <<kind, written, bumpedAt, phase, rows, known, primed, seeded, pending,
                 mark, refresh, writer, faults, losses>>

(* The time to live of a read-through entry runs out. *)
ExpireEntry(r) ==
  /\ kind \in {"api_key", "account_selection"}
  /\ cached[r] # Nothing
  /\ cached' = [cached EXCEPT ![r] = Nothing]
  /\ UNCHANGED <<kind, written, bumpedAt, phase, rows, known, primed, seeded, pending,
                 mark, refresh, reader, writer, faults, losses>>

(***************************************************************************)
(* Bumps.                                                                  *)
(***************************************************************************)
(* _bump_once: one upsert that adds one to the version. *)
BumpOnce == bumpedAt' = Append(bumpedAt, written)

(* bump: retried, and given up with the row written or not. *)
BumpFails == Fault /\ (bumpedAt' = bumpedAt \/ BumpOnce)

BumpSucceeds == BumpOnce /\ UNCHANGED faults

(***************************************************************************)
(* Mutations.                                                              *)
(***************************************************************************)
Commit(r) ==
  /\ Serving(r) /\ writer[r].at = "none"
  /\ written < MaxWrites
  /\ written' = written + 1
  /\ writer' = [writer EXCEPT ![r] = [change |-> written + 1, at |-> "committed"]]
  /\ UNCHANGED <<kind, bumpedAt, phase, rows, known, primed, seeded, pending, cached,
                 mark, refresh, reader, faults, losses>>

(* mark_unavailable and clear_unavailable. *)
MarkOrClear(r, n) ==
  IF Unavailable(n)
  THEN /\ mark' = [mark EXCEPT ![r] = TRUE]
       /\ UNCHANGED cached
  ELSE /\ mark' = [mark EXCEPT ![r] = FALSE]
       /\ cached' = IF cached[r] = Nothing THEN cached
                    ELSE [cached EXCEPT ![r] = n]

(* What the mutation does to its own process when the commit returns.  Only *)
(* the endpoint paths of account_routing go on to a durable bump.          *)
Apply(r) ==
  /\ writer[r].at = "committed"
  /\ IF Routing
     THEN MarkOrClear(r, writer[r].change) /\ UNCHANGED reader
     ELSE Drop(r) /\ UNCHANGED mark
  /\ pending' = IF kind \in {"account_routing", "account_selection"}
                THEN [pending EXCEPT ![r] = TRUE] ELSE pending
  /\ \E next \in CASE kind = "account_selection" -> {"none"}
                   [] Routing -> {"none", "bump"}
                   [] OTHER -> {"bump"} :
       writer' = [writer EXCEPT ![r].at = next]
  /\ UNCHANGED <<kind, written, bumpedAt, phase, rows, known, primed, seeded, refresh,
                 faults, losses>>

(* The durable bump; bump_local goes on to acknowledge its own version. *)
DurableBump(r) ==
  /\ writer[r].at = "bump"
  /\ \/ /\ BumpSucceeds
        /\ writer' = [writer EXCEPT
             ![r].at = IF kind = "reset_credits" THEN "ack" ELSE "none"]
     \/ BumpFails /\ writer' = [writer EXCEPT ![r].at = "none"]
  /\ UNCHANGED <<kind, written, phase, rows, known, primed, seeded, pending, cached,
                 mark, refresh, reader, losses>>

(* An acknowledged version only ever rises. *)
Acknowledge(r, v) == [known EXCEPT ![r] = MaxOf(@, v)]

AckLocal(r) ==
  /\ writer[r].at = "ack"
  /\ writer' = [writer EXCEPT ![r].at = "none"]
  /\ \/ known' = Acknowledge(r, version) /\ UNCHANGED faults
     \/ Fault /\ UNCHANGED known
  /\ UNCHANGED <<kind, written, bumpedAt, phase, rows, primed, seeded, pending, cached,
                 mark, refresh, reader, losses>>

(***************************************************************************)
(* Startup: install the poller, seed the baseline, load the snapshot.      *)
(***************************************************************************)
Boot(r) ==
  /\ phase[r] = "off"
  /\ phase' = [phase EXCEPT ![r] = "prime"]
  /\ UNCHANGED <<kind, written, bumpedAt, rows, known, primed, seeded, pending, cached,
                 mark, refresh, reader, writer, faults, losses>>

Prime(r) ==
  /\ phase[r] = "prime"
  /\ phase' = [phase EXCEPT ![r] = "load"]
  /\ \/ /\ known' = Acknowledge(r, version)
        /\ primed' = [primed EXCEPT ![r] = TRUE]
        /\ seeded' = [seeded EXCEPT ![r] = TRUE]
     \/ PrimeMayFail /\ UNCHANGED <<known, primed, seeded>>
  /\ refresh' = [refresh EXCEPT ![r].on = Routing, ![r].marked = mark[r]]
  /\ UNCHANGED <<kind, written, bumpedAt, rows, pending, cached, mark,
                 reader, writer, faults, losses>>

Start(r) ==
  /\ phase[r] = "load" /\ ~refresh[r].on
  /\ phase' = [phase EXCEPT ![r] = "idle"]
  /\ UNCHANGED <<kind, written, bumpedAt, rows, known, primed, seeded, pending, cached,
                 mark, refresh, reader, writer, faults, losses>>

(***************************************************************************)
(* refresh_from_db.                                                        *)
(***************************************************************************)
RefreshRead(r) ==
  /\ refresh[r].on /\ refresh[r].value = Nothing
  /\ refresh' = [refresh EXCEPT ![r].value = written]
  /\ UNCHANGED <<kind, written, bumpedAt, phase, rows, known, primed, seeded, pending,
                 cached, mark, reader, writer, faults, losses>>

(* Only a mark that was there when the refresh began may be dropped. *)
KeptMark(r) ==
  mark[r] /\ (~refresh[r].marked \/ Unavailable(refresh[r].value))

(* As a callback the refresh ends the poll of the row, acknowledged. *)
RefreshDone(r) ==
  /\ refresh[r].on /\ refresh[r].value # Nothing
  /\ refresh' = [refresh EXCEPT ![r] = NoRefresh]
  /\ cached' = [cached EXCEPT ![r] = refresh[r].value]
  /\ mark' = [mark EXCEPT ![r] = KeptMark(r)]
  /\ IF phase[r] = "rows"
     THEN /\ known' = Acknowledge(r, rows[r])
          /\ phase' = [phase EXCEPT ![r] = "idle"]
     ELSE UNCHANGED <<known, phase>>
  /\ UNCHANGED <<kind, written, bumpedAt, rows, primed, seeded, pending, reader,
                 writer, faults, losses>>

(* The read fails: the version stays unacknowledged, the snapshot as it was. *)
RefreshFails(r) ==
  /\ refresh[r].on /\ refresh[r].value = Nothing /\ Fault
  /\ refresh' = [refresh EXCEPT ![r] = NoRefresh]
  /\ phase' = IF phase[r] = "rows" THEN [phase EXCEPT ![r] = "idle"] ELSE phase
  /\ UNCHANGED <<kind, written, bumpedAt, rows, known, primed, seeded, pending, cached,
                 mark, reader, writer, losses>>

(***************************************************************************)
(* The poll.                                                               *)
(***************************************************************************)
(* _flush_pending_bumps takes the request before it awaits the bump. *)
PollBegins(r) ==
  /\ phase[r] = "idle"
  /\ pending' = [pending EXCEPT ![r] = FALSE]
  /\ phase' = [phase EXCEPT ![r] = IF pending[r] THEN "flush" ELSE "read"]
  /\ UNCHANGED <<kind, written, bumpedAt, rows, known, primed, seeded, cached,
                 mark, refresh, reader, writer, faults, losses>>

FlushBump(r) ==
  /\ phase[r] = "flush"
  /\ BumpOnce
  /\ phase' = [phase EXCEPT ![r] = "flushed"]
  /\ UNCHANGED <<kind, written, rows, known, primed, seeded, pending, cached,
                 mark, refresh, reader, writer, faults, losses>>

(* bump returns; False, with the row written or not, keeps the request. *)
FlushEnds(r) ==
  /\ \/ phase[r] = "flushed" /\ UNCHANGED <<pending, faults>>
     \/ /\ phase[r] \in {"flush", "flushed"} /\ Fault
        /\ pending' = [pending EXCEPT ![r] = TRUE]
  /\ phase' = [phase EXCEPT ![r] = "read"]
  /\ UNCHANGED <<kind, written, bumpedAt, rows, known, primed, seeded, cached,
                 mark, refresh, reader, writer, losses>>

PollRead(r) ==
  /\ phase[r] = "read"
  /\ \/ /\ rows' = [rows EXCEPT ![r] = version]
        /\ phase' = [phase EXCEPT ![r] = "rows"]
        /\ UNCHANGED faults
     \/ /\ Fault
        /\ phase' = [phase EXCEPT ![r] = "idle"]
        /\ UNCHANGED rows
  /\ UNCHANGED <<kind, written, bumpedAt, known, primed, seeded, pending, cached,
                 mark, refresh, reader, writer, losses>>

ChangedOnceKnown(r) == rows[r] > known[r] /\ known[r] > 0

Changed(r) == rows[r] > known[r] /\ (known[r] > 0 \/ primed[r])

(* The row is compared with what is acknowledged now, not with what was when *)
(* it was read.                                                            *)
PollRow(r) ==
  /\ phase[r] = "rows" /\ ~refresh[r].on
  /\ primed' = [primed EXCEPT ![r] = TRUE]
  /\ IF Changed(r) /\ Routing
     THEN /\ refresh' = [refresh EXCEPT ![r].on = TRUE, ![r].marked = mark[r]]
          /\ UNCHANGED <<known, phase, cached, reader>>
     ELSE /\ known' = Acknowledge(r, rows[r])
          /\ phase' = [phase EXCEPT ![r] = "idle"]
          /\ IF Changed(r) THEN Drop(r) ELSE UNCHANGED <<cached, reader>>
          /\ UNCHANGED refresh
  /\ UNCHANGED <<kind, written, bumpedAt, rows, seeded, pending, mark, writer,
                 faults, losses>>

(* A replica dies, or stops with its requests for a bump unflushed. *)
Lose(r) ==
  /\ phase[r] # "off" /\ losses < MaxLosses
  /\ losses' = losses + 1
  /\ phase' = [phase EXCEPT ![r] = "off"]
  /\ rows' = [rows EXCEPT ![r] = 0]
  /\ known' = [known EXCEPT ![r] = 0]
  /\ primed' = [primed EXCEPT ![r] = FALSE]
  /\ seeded' = [seeded EXCEPT ![r] = FALSE]
  /\ pending' = [pending EXCEPT ![r] = FALSE]
  /\ cached' = [cached EXCEPT ![r] = Nothing]
  /\ mark' = [mark EXCEPT ![r] = FALSE]
  /\ refresh' = [refresh EXCEPT ![r] = NoRefresh]
  /\ reader' = [reader EXCEPT ![r] = NoReader]
  /\ writer' = [writer EXCEPT ![r] = NoWriter]
  /\ UNCHANGED <<kind, written, bumpedAt, faults>>

(* What the poll and lifespan tasks of a replica do without a user. *)
Task(r) ==
  \/ Boot(r) \/ Prime(r) \/ Start(r)
  \/ RefreshRead(r) \/ RefreshDone(r)
  \/ PollBegins(r) \/ FlushBump(r) \/ FlushEnds(r) \/ PollRead(r) \/ PollRow(r)

Mutation(r) == Apply(r) \/ DurableBump(r) \/ AckLocal(r)

CacheNext ==
  \E r \in Nodes :
    \/ Task(r) \/ RefreshFails(r) \/ Lose(r)
    \/ Commit(r) \/ Mutation(r)
    \/ ReadMiss(r) \/ ReadRow(r) \/ Fill(r) \/ ExpireEntry(r)

CacheSpec == CacheInit /\ [][CacheNext]_cacheVars

(* The lifespan and poll tasks keep running, a mutation runs to its end, and *)
(* the refresh tick of the reset-credits store comes round.                *)
Fairness ==
  \A r \in Nodes :
    /\ WF_cacheVars(Task(r)) /\ WF_cacheVars(Mutation(r))
    /\ WF_cacheVars(ReadRow(r) \/ Fill(r))
    /\ WF_cacheVars(kind = "reset_credits" /\ ReadMiss(r))

FairSpec == CacheSpec /\ Fairness

(***************************************************************************)
(* Properties.                                                             *)
(***************************************************************************)
Changes == 0 .. MaxWrites

(* Types, and that a reader, a refresh and a poll only run in the phases the *)
(* code starts them in.                                                    *)
CacheTypeOK ==
  /\ kind \in Kinds
  /\ written \in Changes
  /\ bumpedAt \in Seq(Changes)
  /\ \A r \in Nodes :
       /\ phase[r] \in {"off", "prime", "load", "idle", "flush",
                        "flushed", "read", "rows"}
       /\ rows[r] \in 0 .. version /\ known[r] \in 0 .. version
       /\ primed[r] \in BOOLEAN /\ pending[r] \in BOOLEAN /\ mark[r] \in BOOLEAN
       /\ cached[r] \in Changes \cup {Nothing}
       /\ refresh[r].on => Routing /\ phase[r] \in {"load", "rows"}
       /\ reader[r].on => ~Routing /\ Serving(r)
       /\ writer[r].at \in {"none", "committed", "bump", "ack"}
       /\ writer[r].at # "none" => Serving(r)

(* A replica that acknowledged a version holds nothing older than what was  *)
(* committed when that version was bumped: neither a fill in flight across *)
(* the callback, nor a refresh that read too early, nor a baseline seeded   *)
(* late leaves a stale entry behind an acknowledged version.  The snapshot  *)
(* that a clear of this replica overwrote is the exception, and a bump of   *)
(* its own that will reload it is then on its way.  (reset_credits gives    *)
(* the guarantee up by acknowledging its own bump.)                         *)
AcknowledgedIsReflected ==
  \A r \in Nodes :
    kind # "reset_credits" /\ seeded[r] /\ cached[r] # Nothing /\ known[r] > 0 =>
      \/ cached[r] >= bumpedAt[known[r]]
      \/ Routing /\ \/ pending[r] \/ phase[r] = "flush"
                    \/ known[r] < version

(* The account is served as what is committed: reads find nothing older. *)
Agrees(r) ==
  IF Routing THEN IsUnavailable(r) = Unavailable(written)
  ELSE cached[r] \in {Nothing, written}

(* Once the changes stop every seeded replica comes to agree with what is  *)
(* committed, for good, through the bus alone and however bumps, polls and  *)
(* refreshes failed on the way.  A durable bump of api_key that failed for  *)
(* good is not repeated: then only the time to live helps.                 *)
Converges ==
  \A r \in Nodes :
    <>[](\/ ~Serving(r) \/ ~seeded[r] \/ Agrees(r)
         \/ Routing /\ cached[r] = Nothing
         \/ kind = "api_key" /\ faults > 0)
=============================================================================
