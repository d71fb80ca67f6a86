--------------------------- MODULE DurableBridge ---------------------------
(***************************************************************************)
(* The durable row of one HTTP bridge key                                  *)
(* (proxy/durable_bridge_repository.py) and the sessions of the replicas   *)
(* that claim, renew, release and lose it (http_bridge/mixin.py and        *)
(* helpers.py).  The row names its owner, an epoch and a lease; the        *)
(* continuity aliases (turn states, response ids) point to the row.        *)
(*                                                                         *)
(* A step is one database transaction on PostgreSQL, where claim_session   *)
(* locks the row it read (FOR UPDATE).  What is not one transaction in the *)
(* code is several steps here: a claim and the refresh that reads the row  *)
(* back, the SELECT and the UPDATE of mark_owner_draining, and the two     *)
(* DELETEs of a purge, which READ COMMITTED lets other commits fall        *)
(* between.                                                                *)
(***************************************************************************)
EXTENDS Integers

CONSTANTS
    Instances,      \* replicas (instance_id)
    NoInstance,
    NoSession,
    Sessions,       \* _HTTPBridgeSession objects for the key, over all replicas
    Home,           \* the replica of each session
    AccountIds,
    NoAccount,
    Aliases,        \* turn states and response ids
    Ttl,            \* lease_ttl_seconds, in ticks
    IdleTtl,        \* idle_ttl_seconds: how long a session stays reusable
    ClosedAge,      \* retention of CLOSED rows
    AbandonedAge,   \* _abandoned_bridge_retention_seconds
    Drainers,       \* replicas that are drained or shut down
    Mortal,         \* replicas that may crash
    MaxEpoch,       \* bound on the epochs of a row
    MaxRows         \* bound on the rows the key has over time

\* _abandoned_bridge_retention_seconds is the maximum of the settings that bound
\* how long a session stays reusable.
ASSUME BridgeAssumption ==
    /\ Home \in [Sessions -> Instances]
    /\ NoInstance \notin Instances
    /\ Ttl \in Nat /\ IdleTtl \in Nat /\ ClosedAge \in Nat /\ AbandonedAge \in Nat
    /\ IdleTtl <= AbandonedAge
    /\ MaxEpoch \in Nat \ {0} /\ MaxRows \in Nat

VARIABLES
    row,       \* the http_bridge_sessions row of the key
    rows,      \* how many rows the key has had: the id of the latest one
    alias,     \* http_bridge_session_aliases: the row id each alias points to
    session,   \* what a replica knows of each session
    creator,   \* the session whose in-flight marker is in the replica's registry
    draining,  \* shutdown_state.is_bridge_drain_active() of each replica
    marking,   \* the row id mark_owner_draining selected, 0 for none
    purging    \* the filter and row id of a purge that deleted the aliases

vars == <<row, rows, alias, session, creator, draining, marking, purging>>

Max(m, n) == IF m >= n THEN m ELSE n
Older(n, cap) == IF n < cap THEN n + 1 ELSE n

RowStates == {"ACTIVE", "DRAINING", "CLOSED"}
Filters == {"none", "closed", "abandoned"}
Owners == Instances \cup {NoInstance}
Bindings == AccountIds \cup {NoAccount}

\* last_seen_at is kept as an age, up to the longest retention.
Rows == [id: 0..MaxRows, owner: Owners, epoch: 0..MaxEpoch, lease: 0..Ttl,
         state: RowStates, account: Bindings, seen: 0..Max(ClosedAge, AbandonedAge)]

Stages == {"unused", "claim", "readback", "header", "live", "closing", "gone"}

SessionStates ==
    [stage: Stages, account: Bindings, takeover: BOOLEAN, force: BOOLEAN,
     attempt: 0..1, id: 0..MaxRows, epoch: 0..MaxEpoch, idle: 0..IdleTtl,
     missed: BOOLEAN]

NoRow == [id |-> 0, owner |-> NoInstance, epoch |-> 0, lease |-> 0,
          state |-> "CLOSED", account |-> NoAccount, seen |-> 0]

NewSession == [stage |-> "unused", account |-> NoAccount, takeover |-> FALSE,
               force |-> FALSE, attempt |-> 0, id |-> 0, epoch |-> 0, idle |-> 0,
               missed |-> FALSE]

Gone == [NewSession EXCEPT !.stage = "gone"]

\* Type correctness: an alias and a session name only rows that existed.
BridgeTypeOK ==
    /\ row \in Rows
    /\ rows \in 0..MaxRows
    /\ row.id \in {0, rows}
    /\ alias \in [Aliases -> [id: 0..rows, account: Bindings]]
    /\ session \in [Sessions -> SessionStates]
    /\ creator \in [Instances -> Sessions \cup {NoSession}]
    /\ draining \in [Instances -> BOOLEAN]
    /\ marking \in [Instances -> 0..rows]
    /\ purging \in [filter: Filters, id: 0..rows]

NoAlias == [id |-> 0, account |-> NoAccount]
NoPurge == [filter |-> "none", id |-> 0]

Init ==
    /\ row = NoRow
    /\ rows = 0
    /\ alias = [a \in Aliases |-> NoAlias]
    /\ session = [s \in Sessions |-> NewSession]
    /\ creator = [i \in Instances |-> NoSession]
    /\ draining = [i \in Instances |-> FALSE]
    /\ marking = [i \in Instances |-> 0]
    /\ purging = NoPurge

-----------------------------------------------------------------------------
(* What the statements do to the row and the aliases.                        *)

Exists == row.id # 0

\* _clear_aliases_for_session, and the cascade when a row is deleted.
WithoutAliasesOf(id) == [a \in Aliases |-> IF alias[a].id = id THEN NoAlias ELSE alias[a]]

\* The fence of _execute_fenced_session_update and register_owned_alias:
\* id, owner and epoch must still be the caller's.
Owns(s) ==
    /\ Exists
    /\ row.id = session[s].id
    /\ row.owner = Home[s]
    /\ row.epoch = session[s].epoch

NextEpochKeepingLapsed(s, force) ==
    IF (row.owner # Home[s] /\ row.lease > 0) \/ row.account # session[s].account \/ force
    THEN row.epoch + 1
    ELSE row.epoch

\* owner_epoch after a claim: it advances with the owner, with the account the
\* row is bound to, and when the caller insists.
NextEpoch(s, force) ==
    IF row.owner # Home[s] \/ row.account # session[s].account \/ force
    THEN row.epoch + 1
    ELSE row.epoch

ClaimRefusedWhileHeld(s) ==
    /\ Exists
    /\ row.owner \notin {Home[s], NoInstance}
    /\ ~session[s].takeover
    /\ row.lease > 1

\* The claim is refused while another replica holds an ACTIVE row under an
\* unexpired lease and the caller may not take it over.
ClaimRefused(s) ==
    /\ Exists
    /\ row.owner # Home[s]
    /\ ~session[s].takeover
    /\ row.lease > 0
    /\ row.state = "ACTIVE"

SetSession(s, t) == session' = [session EXCEPT ![s] = t]
Stage(s, st) == SetSession(s, [session[s] EXCEPT !.stage = st])

\* The row as session s leaves it, freshly leased.
Leased(s, id, epoch) ==
    [id |-> id, owner |-> Home[s], epoch |-> epoch, lease |-> Ttl,
     state |-> "ACTIVE", account |-> session[s].account, seen |-> 0]

Renewed == [row EXCEPT !.lease = Ttl, !.seen = 0]

-----------------------------------------------------------------------------
(* A session is created and claims the row.                                  *)

\* A request publishes its in-flight marker and creates a session bound to
\* account a.  It detaches the registered session if there is one, and then
\* takes over with a new epoch; otherwise the row looked up earlier decides.
Create(s, a, takeover, force) ==
    LET replaced == {t \in Sessions : Home[t] = Home[s] /\ session[t].stage = "live"}
    IN  /\ session[s].stage = "unused"
        /\ creator[Home[s]] = NoSession
        /\ force => takeover
        /\ replaced # {} => force
        /\ creator' = [creator EXCEPT ![Home[s]] = s]
        /\ session' = [t \in Sessions |->
              IF t = s THEN [NewSession EXCEPT !.stage = "claim", !.account = a,
                                               !.takeover = takeover, !.force = force]
              ELSE IF t \in replaced THEN [session[t] EXCEPT !.stage = "closing"]
              ELSE session[t]]
        /\ UNCHANGED <<row, rows, alias, draining, marking, purging>>

\* A waiter that timed out evicts the marker; the creation goes on without it.
EvictMarker(i) ==
    /\ creator[i] # NoSession
    /\ creator' = [creator EXCEPT ![i] = NoSession]
    /\ UNCHANGED <<row, rows, alias, session, draining, marking, purging>>

\* The creation of s ends and takes its marker along, if it is still there.
DropMarker(s) ==
    creator' = [creator EXCEPT ![Home[s]] = IF @ = s THEN NoSession ELSE @]

\* claim_session finds no row and inserts one with epoch 1.  A concurrent
\* insert makes it start over and find that row.
ClaimInsert(s) ==
    /\ session[s].stage = "claim"
    /\ ~Exists
    /\ rows < MaxRows
    /\ rows' = rows + 1
    /\ row' = Leased(s, rows + 1, 1)
    /\ SetSession(s, [session[s] EXCEPT !.stage = "readback", !.id = rows + 1])
    /\ UNCHANGED <<alias, creator, draining, marking, purging>>

\* claim_session takes the row, or renews it for its owner; a change of
\* account also drops the aliases.
ClaimUpdate(s) ==
    LET epoch == NextEpoch(s, session[s].force \/ session[s].attempt > 0)
    IN  /\ session[s].stage = "claim"
        /\ Exists
        /\ ~ClaimRefused(s)
        /\ epoch <= MaxEpoch
        /\ row' = Leased(s, row.id, epoch)
        /\ alias' = IF row.account # session[s].account THEN WithoutAliasesOf(row.id) ELSE alias
        /\ SetSession(s, [session[s] EXCEPT !.stage = "readback", !.id = row.id])
        /\ UNCHANGED <<rows, creator, draining, marking, purging>>

\* A refused claim ends the request with bridge_instance_mismatch, and so does
\* a claim that raises, before or after its commit: the session is closed
\* without a durable id, so nothing is released.
ClaimFails(s) ==
    /\ session[s].stage \in {"claim", "readback"}
    /\ SetSession(s, Gone)
    /\ DropMarker(s)
    /\ UNCHANGED <<row, rows, alias, draining, marking, purging>>

\* The refresh after the commit reads the row as it is by then.  If it names
\* this replica the session adopts the epoch read; otherwise a takeover tries
\* once more and insists on a new epoch.
ClaimReadBack(s) ==
    /\ session[s].stage = "readback"
    /\ row.id = session[s].id
    /\ \/ /\ row.owner = Home[s]
          /\ SetSession(s, [session[s] EXCEPT !.stage = "header", !.epoch = row.epoch,
                                              !.takeover = FALSE, !.force = FALSE, !.attempt = 0])
       \/ /\ row.owner # Home[s]
          /\ session[s].takeover /\ session[s].attempt = 0
          /\ SetSession(s, [session[s] EXCEPT !.stage = "claim", !.attempt = 1])
    /\ UNCHANGED <<row, rows, alias, creator, draining, marking, purging>>

\* register_session_header adds an alias of the key itself, without a fence, and
\* fails when the row is gone.  The session is registered only if its marker is
\* still in the registry, and closed otherwise.
Register(s) ==
    /\ session[s].stage = "header"
    /\ Stage(s, IF row.id = session[s].id /\ creator[Home[s]] = s THEN "live" ELSE "closing")
    /\ DropMarker(s)
    /\ UNCHANGED <<row, rows, alias, draining, marking, purging>>

-----------------------------------------------------------------------------
(* A live session.                                                           *)

\* _renew_durable_http_bridge_lease when a request reuses the session: a
\* fenced-out session is evicted; a session whose row is gone is kept.
Renew(s) ==
    /\ session[s].stage = "live"
    /\ session[s].idle < IdleTtl
    /\ row' = IF Owns(s) THEN Renewed ELSE row
    /\ SetSession(s, [session[s] EXCEPT
            !.idle = 0,
            !.missed = FALSE,
            !.stage = IF Owns(s) \/ row.id # session[s].id THEN "live" ELSE "closing"])
    /\ UNCHANGED <<rows, alias, creator, draining, marking, purging>>

\* The renewal raises: the request goes on with the session as it is.
RenewFails(s) ==
    /\ session[s].stage = "live"
    /\ session[s].idle < IdleTtl
    /\ SetSession(s, [session[s] EXCEPT !.idle = 0, !.missed = TRUE])
    /\ UNCHANGED <<row, rows, alias, creator, draining, marking, purging>>

\* register_turn_state and register_previous_response_id: one fenced update
\* and the alias in the same transaction; a fenced-out session is evicted.
RegisterAlias(s, a) ==
    /\ session[s].stage = "live"
    /\ IF Owns(s)
       THEN /\ row' = Renewed
            /\ alias' = [alias EXCEPT ![a] = [id |-> row.id, account |-> session[s].account]]
            /\ SetSession(s, [session[s] EXCEPT !.missed = FALSE])
       ELSE /\ Stage(s, "closing")
            /\ UNCHANGED <<row, alias>>
    /\ UNCHANGED <<rows, creator, draining, marking, purging>>

ReconcileLeased(s) ==
    /\ session[s].stage = "live"
    /\ session[s].idle >= Ttl
    /\ Exists /\ row.id = session[s].id /\ row.owner # NoInstance
    /\ row.lease > 0
    /\ ~Owns(s)
    /\ Stage(s, "closing")
    /\ UNCHANGED <<row, rows, alias, creator, draining, marking, purging>>

\* _reconcile_durable_http_bridge_ownership on the heartbeat: a session that
\* was idle for a whole lease and whose row names another owner or epoch.
Reconcile(s) ==
    /\ session[s].stage = "live"
    /\ session[s].idle >= Ttl
    /\ Exists /\ row.id = session[s].id /\ row.owner # NoInstance
    /\ ~Owns(s)
    /\ Stage(s, "closing")
    /\ UNCHANGED <<row, rows, alias, creator, draining, marking, purging>>

\* The registry lets go of the session: idle, evicted for capacity, its account
\* gone, or the replica shut down.
Detach(s) ==
    /\ session[s].stage = "live"
    /\ Stage(s, "closing")
    /\ UNCHANGED <<row, rows, alias, creator, draining, marking, purging>>

\* release_session from _close_http_bridge_session.
Release(s) ==
    /\ session[s].stage = "closing"
    /\ row' = IF Owns(s)
              THEN [row EXCEPT !.owner = NoInstance, !.lease = 0, !.seen = 0,
                               !.state = IF draining[Home[s]] THEN "DRAINING" ELSE "CLOSED"]
              ELSE row
    /\ SetSession(s, Gone)
    /\ UNCHANGED <<rows, alias, creator, draining, marking, purging>>

\* The release raises, or its bounded close times out.
ReleaseFails(s) ==
    /\ session[s].stage = "closing"
    /\ SetSession(s, Gone)
    /\ UNCHANGED <<row, rows, alias, creator, draining, marking, purging>>

-----------------------------------------------------------------------------
(* Whole replicas, administration, cleanup and time.                         *)

\* The process dies: its sessions release nothing.
Crash(i) ==
    /\ i \in Mortal
    /\ session' = [s \in Sessions |->
                     IF Home[s] = i /\ session[s].stage # "unused" THEN Gone ELSE session[s]]
    /\ creator' = [creator EXCEPT ![i] = NoSession]
    /\ draining' = [draining EXCEPT ![i] = FALSE]
    /\ marking' = [marking EXCEPT ![i] = 0]
    /\ UNCHANGED <<row, rows, alias, purging>>

\* The drain flag goes up and mark_owner_draining selects its rows.
DrainSelect(i) ==
    /\ i \in Drainers
    /\ marking[i] = 0
    /\ draining' = [draining EXCEPT ![i] = TRUE]
    /\ marking' = [marking EXCEPT ![i] =
                     IF Exists /\ row.owner = i /\ row.state = "ACTIVE" THEN row.id ELSE 0]
    /\ UNCHANGED <<row, rows, alias, session, creator, purging>>

\* Its commit updates the selected row by primary key, whoever owns it now;
\* a row that was deleted makes it fail, which is logged.
DrainUpdate(i) ==
    /\ marking[i] # 0
    /\ marking' = [marking EXCEPT ![i] = 0]
    /\ row' = IF row.id = marking[i]
              THEN [row EXCEPT !.state = "DRAINING", !.seen = 0] ELSE row
    /\ UNCHANGED <<rows, alias, session, creator, draining, purging>>

\* POST /internal/drain/stop.
DrainStop(i) ==
    /\ draining[i]
    /\ draining' = [draining EXCEPT ![i] = FALSE]
    /\ UNCHANGED <<row, rows, alias, session, creator, marking, purging>>

\* _close_http_bridge_sessions_for_account: the account became unusable.
CloseForAccount(a) ==
    /\ Exists /\ row.account = a
    /\ row' = [row EXCEPT !.account = NoAccount, !.state = "CLOSED",
                          !.owner = NoInstance, !.lease = 0]
    /\ alias' = WithoutAliasesOf(row.id)
    /\ UNCHANGED <<rows, session, creator, draining, marking, purging>>

\* The filters of purge_closed_before and purge_abandoned_before.
Purgeable(filter) ==
    /\ Exists
    /\ \/ filter = "closed" /\ row.state = "CLOSED" /\ row.seen >= ClosedAge
       \/ /\ filter = "abandoned"
          /\ row.state \in {"ACTIVE", "DRAINING"}
          /\ row.lease = 0
          /\ row.seen >= AbandonedAge

\* A purge deletes the aliases of the rows that match its filter, ...
PurgeAliases(filter) ==
    /\ purging = NoPurge
    /\ Purgeable(filter)
    /\ purging' = [filter |-> filter, id |-> row.id]
    /\ alias' = WithoutAliasesOf(row.id)
    /\ UNCHANGED <<row, rows, session, creator, draining, marking>>

\* ... then the rows, if they still match.
PurgeRow ==
    /\ purging # NoPurge
    /\ purging' = NoPurge
    /\ IF row.id = purging.id /\ Purgeable(purging.filter)
       THEN row' = NoRow /\ alias' = WithoutAliasesOf(row.id)
       ELSE UNCHANGED <<row, alias>>
    /\ UNCHANGED <<rows, session, creator, draining, marking>>

Tick ==
    /\ row' = [row EXCEPT !.lease = IF row.lease > 0 THEN row.lease - 1 ELSE 0,
                          !.seen = IF Exists THEN Older(row.seen, Max(ClosedAge, AbandonedAge)) ELSE 0]
    /\ session' = [s \in Sessions |->
                     IF session[s].stage \in {"claim", "readback", "header", "live"}
                     THEN [session[s] EXCEPT !.idle = Older(session[s].idle, IdleTtl)]
                     ELSE session[s]]
    /\ UNCHANGED <<rows, alias, creator, draining, marking, purging>>

SessionStep(s) ==
    \/ \E a \in AccountIds, takeover, force \in BOOLEAN : Create(s, a, takeover, force)
    \/ ClaimInsert(s) \/ ClaimUpdate(s) \/ ClaimFails(s) \/ ClaimReadBack(s)
    \/ Register(s)
    \/ Renew(s) \/ RenewFails(s)
    \/ \E a \in Aliases : RegisterAlias(s, a)
    \/ Reconcile(s) \/ Detach(s) \/ Release(s) \/ ReleaseFails(s)

InstanceStep(i) ==
    EvictMarker(i) \/ Crash(i) \/ DrainSelect(i) \/ DrainUpdate(i) \/ DrainStop(i)

Next ==
    \/ \E s \in Sessions : SessionStep(s)
    \/ \E i \in Instances : InstanceStep(i)
    \/ \E a \in AccountIds : CloseForAccount(a)
    \/ \E filter \in Filters : PurgeAliases(filter)
    \/ PurgeRow
    \/ Tick

Spec == Init /\ [][Next]_vars

\* Time passes, the heartbeat sweeps, and a scheduled close runs (it is bounded
\* by a timeout).
Fairness ==
    /\ WF_vars(Tick)
    /\ \A s \in Sessions : WF_vars(Reconcile(s)) /\ WF_vars(Release(s) \/ ReleaseFails(s))

FairSpec == Spec /\ Fairness

-----------------------------------------------------------------------------
(* Properties.                                                               *)

Granted(s) == session[s].stage \in {"header", "live", "closing"}

\* An epoch of a row is granted to one replica only, so that the fence on
\* (owner_instance_id, owner_epoch) tells a former owner from the present one
\* even after releases, takeovers back and forth, and late read-backs.
EpochOfOneReplica ==
    \A s, t \in Sessions :
        (/\ Granted(s) /\ Granted(t)
         /\ session[s].id = session[t].id
         /\ session[s].epoch = session[t].epoch) => Home[s] = Home[t]

Reusable(s) ==
    session[s].stage = "live" /\ Owns(s) /\ session[s].idle < IdleTtl /\ ~session[s].missed

\* While its owner can still reuse it, a session's row is not purged, as long as
\* its last renewal reached the database (cleanup_scheduler.py: retention must
\* cover the longest reuse window).
ReusableKeepsRow == [][\A s \in Sessions : Reusable(s) => row'.id = row.id]_vars

Passes == Exists /\ row'.id = row.id /\ row'.owner \notin {row.owner, NoInstance}

PassedInOrder ==
    /\ row'.epoch > row.epoch
    /\ (row.lease > 0 /\ row.state = "ACTIVE")
          => \E s \in Sessions : Home[s] = row'.owner /\ session[s].takeover

\* A row passes to another replica only with a higher epoch, and, while its
\* lease runs and it is ACTIVE, only to a session that was told to take over.
PassesFenced == [][Passes => PassedInOrder]_vars

\* The two together: what no step may do to a row.
RowGuarded == PassesFenced /\ ReusableKeepsRow

FencedOut(s) ==
    /\ session[s].stage = "live"
    /\ Exists /\ row.id = session[s].id /\ row.owner # NoInstance
    /\ ~Owns(s)

\* The heartbeat's sweep ends every session that another owner or epoch has
\* fenced out, unless the new owner lets go of the row first.
FencedOutEvicted ==
    \A s \in Sessions :
        FencedOut(s) ~> (\/ session[s].stage # "live"
                        \/ row.owner = NoInstance
                        \/ row.id # session[s].id)

=============================================================================
