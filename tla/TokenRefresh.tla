---------------------------- MODULE TokenRefresh ----------------------------
(***************************************************************************)
(* How the replicas of the proxy rotate the single-use OAuth refresh token *)
(* of one account: the in-process singleflight and the claim row that      *)
(* serialise the exchange (modules/accounts/auth_manager.py,               *)
(* refresh_claims.py), the compare-and-set writes that store the rotated   *)
(* token or flag the account (repository.py), the callers that condemn or  *)
(* rate-limit the account from a snapshot of the row (load_balancer.py),   *)
(* and the operator, who logs in again, re-imports, pauses, reactivates or *)
(* deletes the account meanwhile (accounts/service.py).                    *)
(*                                                                         *)
(* Every await is a point of interleaving; one database statement is one   *)
(* step.  A ciphertext is the pair of its plaintext and a nonce: Fernet    *)
(* encrypts the same plaintext to different bytes each time.  Waits whose  *)
(* length decides nothing but a retry (the poll of a foreign claim, the    *)
(* caller's budget, the failure cooldown) end at any moment; the waits     *)
(* that the claim's lifetime has to cover are timed.                       *)
(***************************************************************************)
EXTENDS Integers

CONSTANTS
    Procs,           \* the replicas' processes
    Callers,         \* requests and background jobs that need the account
    Home,            \* the process of each caller
    Nobody,          \* the claimant of a process that is gone
    ClaimTtl,        \* token_refresh_claim_ttl_seconds
    AdmissionWait,   \* proxy_admission_wait_timeout_seconds
    RefreshTimeout,  \* token_refresh_timeout_seconds
    RereadTime,      \* the longest re-read of the row under a new claim
    PersistTime,     \* the longest persist section
    CasAttempts,     \* _TOKEN_CAS_MAX_ATTEMPTS
    FinalAttempts,   \* _FINAL_PERSIST_MAX_ATTEMPTS
    MaxPolls,        \* polls within _TOKEN_REFRESH_CLAIM_WAIT_SECONDS
    MaxToken,        \* bound: refresh tokens ever minted
    MaxNonce,        \* bound: ciphertexts of a token told apart at a time
    MaxRefreshes,    \* bound: refresh tasks started; no caller comes after the last
    MaxUpsets        \* bound: logins, pauses, reactivations, deletions, rate
                     \*        limits, revocations, crashes and database errors

\* The TTL floor is the settings validator's; that the re-read and the persist
\* section together are shorter than the margin it leaves is assumed of the
\* database.
ASSUME RefreshAssumption ==
    /\ Home \in [Callers -> Procs]
    /\ Nobody \notin Callers \cup Procs
    /\ {ClaimTtl, AdmissionWait, RefreshTimeout, RereadTime, PersistTime} \subseteq Nat
    /\ {CasAttempts, FinalAttempts, MaxToken, MaxNonce} \subseteq Nat \ {0}
    /\ {MaxPolls, MaxRefreshes, MaxUpsets} \subseteq Nat
    /\ AdmissionWait + 2 * RefreshTimeout <= ClaimTtl
    /\ RereadTime + PersistTime < RefreshTimeout

VARIABLES
    row,       \* the account's row: ciphertext (token, nonce) and status
    claim,     \* its account_refresh_claims row: claimed_by, time to expiry
    tasks,     \* the refresh task of each process and token (_inflight)
    cooled,    \* tokens whose permanent failure a process remembers
    callers,   \* where each caller stands, with its snapshot of the row
    refreshes, \* refresh tasks started so far
    upsets,    \* disturbances so far; see MaxUpsets
    minted,    \* upstream: tokens issued so far
    parent,    \* upstream: the token each was exchanged for, 0 for a login
    used,      \* upstream: tokens already exchanged
    revoked,   \* upstream: tokens whose login was invalidated
    sent,      \* history: tokens sent upstream, and those sent again
    lost       \* history: tokens whose exchange or flag was lost; see Lose

vars == <<row, claim, tasks, cooled, callers, refreshes, upsets, minted, parent,
          used, revoked, sent, lost>>
upstream == <<minted, parent, used, revoked>>
history == <<sent, lost>>

Tokens == 1..MaxToken
Nonces == 1..MaxNonce
Keys == Procs \X Tokens
Terminal == {"reauth", "deactivated"}
Statuses == {"active", "limited", "paused"} \cup Terminal
NoRow == [token |-> 0, nonce |-> 0, status |-> "gone"]
Rows == [token: Tokens, nonce: Nonces, status: Statuses] \cup {NoRow}
NoClaim == [by |-> <<Nobody, 0>>, left |-> 0]
Cipher(r) == <<r.token, r.nonce>>

\* Program points of a task.  From "reread" to "failWrite" it is inside the
\* section the claim protects; from "write" on it has the outcome of its
\* exchange, and has not stored it yet.
Persisting == {"write", "check", "flag", "flagWrite", "fail", "failWrite"}
Protected == {"reread", "admit", "exchange"} \cup Persisting
Points == {"idle", "claim", "peek", "release"} \cup Protected
Outcomes == {"none", "fresh", "permanent", "transient"}

TaskStates == [pc: Points, seen: Rows, new: 0..MaxToken, newNonce: 0..MaxNonce, tries: Nat,
               clock: Nat, out: Outcomes]
CallerStates == [pc: {"idle", "ready", "waiting", "condemn"}, snap: Rows]
IdleTask == [pc |-> "idle", seen |-> NoRow, new |-> 0, newNonce |-> 0, tries |-> 0,
             clock |-> 0, out |-> "none"]
IdleCaller == [pc |-> "idle", snap |-> NoRow]

\* Type correctness: in particular a waiter on a foreign claim never polls
\* beyond its budget, and the stored row is whole.
TypeOK ==
    /\ row \in Rows
    /\ claim \in [by: Keys \cup {<<Nobody, 0>>}, left: 0..ClaimTtl]
    /\ tasks \in [Keys -> TaskStates]
    /\ cooled \in [Procs -> SUBSET Tokens]
    /\ callers \in [Callers -> CallerStates]
    /\ refreshes \in 0..MaxRefreshes
    /\ upsets \in 0..MaxUpsets
    /\ minted \in 0..MaxToken
    /\ parent \in [Tokens -> 0..MaxToken]
    /\ used \subseteq Tokens /\ revoked \subseteq Tokens
    /\ sent \in [once: SUBSET Tokens, again: SUBSET Tokens]
    /\ lost \subseteq Tokens

Init ==
    /\ row = [token |-> 1, nonce |-> 1, status |-> "active"]
    /\ claim = NoClaim
    /\ tasks = [t \in Keys |-> IdleTask]
    /\ cooled = [p \in Procs |-> {}]
    /\ callers = [c \in Callers |-> IdleCaller]
    /\ refreshes = 0
    /\ upsets = 0
    /\ minted = 1
    /\ parent = [k \in Tokens |-> 0]
    /\ used = {} /\ revoked = {}
    /\ sent = [once |-> {}, again |-> {}]
    /\ lost = {}

\* Encryption of k: a nonce that makes the ciphertext differ from every one of
\* k that is still stored or remembered.
FreshNonce(k) ==
    LET held == {row} \cup {callers[c].snap : c \in Callers} \cup {tasks[t].seen : t \in Keys}
        free == {n \in Nonces :
                   /\ \A r \in held : Cipher(r) # <<k, n>>
                   /\ \A t \in Keys : <<tasks[t].new, tasks[t].newNonce>> # <<k, n>>}
    IN  {n \in free : \A m \in free : n <= m}

Upset == upsets < MaxUpsets /\ upsets' = upsets + 1

-----------------------------------------------------------------------------
(* The callers.                                                            *)

\* Account selection, or a background job, reads the row and keeps it.
Select(c) ==
    /\ callers[c].pc = "idle"
    /\ row.status \in {"active", "limited"}
    /\ refreshes < MaxRefreshes
    /\ callers' = [callers EXCEPT ![c] = [pc |-> "ready", snap |-> row]]
    /\ UNCHANGED <<row, claim, tasks, cooled, refreshes, upsets, upstream, history>>

\* The request ends, or its client disconnects; the task it waits for is
\* shielded and goes on.
Leave(c) ==
    /\ callers[c].pc \in {"ready", "waiting"}
    /\ callers' = [callers EXCEPT ![c] = IdleCaller]
    /\ UNCHANGED <<row, claim, tasks, cooled, refreshes, upsets, upstream, history>>

\* _RefreshSingleflight.run: a remembered failure is raised again, a running
\* task is joined, otherwise one is started; the failures remembered of other
\* tokens are forgotten.
EnsureFresh(c) ==
    /\ callers[c].pc = "ready"
    /\ LET p == Home[c]
           k == callers[c].snap.token
       IN  /\ cooled' = [cooled EXCEPT ![p] = @ \cap {k}]
           /\ \/ /\ k \in cooled[p]
                 /\ callers' = [callers EXCEPT ![c].pc = "condemn"]
                 /\ UNCHANGED <<tasks, refreshes>>
              \/ /\ k \notin cooled[p]
                 /\ callers' = [callers EXCEPT ![c].pc = "waiting"]
                 /\ \/ /\ tasks[<<p, k>>].pc = "idle"
                       /\ refreshes < MaxRefreshes
                       /\ refreshes' = refreshes + 1
                       /\ \E polls \in 0..MaxPolls :
                             tasks' = [tasks EXCEPT ![<<p, k>>] =
                                          [IdleTask EXCEPT !.pc = "claim", !.tries = polls]]
                    \/ /\ tasks[<<p, k>>].pc # "idle"
                       /\ UNCHANGED <<tasks, refreshes>>
    /\ UNCHANGED <<row, claim, upsets, upstream, history>>

\* The upstream answers a request of an invalidated login with a permanent
\* error code.
Rejected(c) ==
    /\ callers[c].pc = "ready"
    /\ callers[c].snap.token \in revoked
    /\ callers' = [callers EXCEPT ![c].pc = "condemn"]
    /\ UNCHANGED <<row, claim, tasks, cooled, refreshes, upsets, upstream, history>>

MarkPermanentFailureUnguarded(c) ==
    /\ callers[c].pc = "condemn"
    /\ \E verdict \in Terminal :
          row' = IF row # NoRow THEN [row EXCEPT !.status = verdict] ELSE row
    /\ callers' = [callers EXCEPT ![c] = IdleCaller]
    /\ UNCHANGED <<claim, tasks, cooled, refreshes, upsets, upstream, history>>

\* LoadBalancer.mark_permanent_failure: a status compare-and-set on the
\* snapshot, its ciphertext included.  The error code decides the verdict.
MarkPermanentFailure(c) ==
    /\ callers[c].pc = "condemn"
    /\ \E verdict \in Terminal :
          row' = IF row = callers[c].snap THEN [row EXCEPT !.status = verdict] ELSE row
    /\ callers' = [callers EXCEPT ![c] = IdleCaller]
    /\ UNCHANGED <<claim, tasks, cooled, refreshes, upsets, upstream, history>>

\* LoadBalancer.mark_rate_limit and mark_quota_exceeded: the write names only
\* the account, so it also replaces a status the snapshot does not show.
MarkRateLimit(c) ==
    /\ Upset
    /\ callers[c].pc = "ready"
    /\ row' = IF row # NoRow THEN [row EXCEPT !.status = "limited"] ELSE row
    /\ lost' = IF row.status \in Terminal THEN lost \cup {row.token} ELSE lost
    /\ callers' = [callers EXCEPT ![c] = IdleCaller]
    /\ UNCHANGED <<claim, tasks, cooled, refreshes, upstream, sent>>

-----------------------------------------------------------------------------
(* The refresh task of process t[1] for token t[2].                        *)

Become(t, task) == tasks' = [tasks EXCEPT ![t] = task]
At(t, point) == [tasks[t] EXCEPT !.pc = point]
Lose(t) == lost' = lost \cup {t[2]}

\* The task's future is resolved and _complete takes it out of _inflight: its
\* waiters wake with the outcome, and a permanent failure is remembered.  (A
\* remembered failure that is not permanent changes nothing but the delay of
\* the next attempt.)
Finish(t, out) ==
    /\ Become(t, IdleTask)
    /\ callers' = [c \in Callers |->
          IF callers[c].pc = "waiting" /\ t = <<Home[c], callers[c].snap.token>>
          THEN IF out = "permanent" THEN [callers[c] EXCEPT !.pc = "condemn"] ELSE IdleCaller
          ELSE callers[c]]
    /\ cooled' = [cooled EXCEPT ![t[1]] = IF out = "permanent" THEN @ \cup {t[2]} ELSE @ \ {t[2]}]

\* The protected section ends with an outcome; the claim is released next.
EndSection(t, out) == Become(t, [At(t, "release") EXCEPT !.seen = NoRow, !.clock = 0, !.out = out])

\* RefreshClaimCoordinator.try_acquire: the upsert wins on no row, an expired row or its own.
TryAcquire(t) ==
    /\ tasks[t].pc = "claim"
    /\ IF claim.left = 0 \/ claim.by = t
       THEN /\ claim' = [by |-> t, left |-> ClaimTtl]
            /\ Become(t, [At(t, "reread") EXCEPT !.clock = RereadTime])
       ELSE /\ Become(t, At(t, "peek"))
            /\ UNCHANGED claim
    /\ UNCHANGED <<row, cooled, callers, refreshes, upsets, upstream, history>>

\* A foreign claim: adopt a rotation that landed, give up when the wait is
\* over, or sleep and try again.
Peek(t) ==
    /\ tasks[t].pc = "peek"
    /\ \/ /\ row # NoRow /\ row.token # t[2]
          /\ Finish(t, "fresh")
       \/ /\ row = NoRow \/ row.token = t[2]
          /\ tasks[t].tries = 0
          /\ Finish(t, "transient")
       \/ /\ row = NoRow \/ row.token = t[2]
          /\ tasks[t].tries > 0
          /\ Become(t, [At(t, "claim") EXCEPT !.tries = @ - 1])
          /\ UNCHANGED <<callers, cooled>>
    /\ UNCHANGED <<row, claim, refreshes, upsets, upstream, history>>

RereadTrusting(t) ==
    /\ tasks[t].pc = "reread"
    /\ \/ /\ row # NoRow /\ row.token # t[2]
          /\ EndSection(t, "fresh")
       \/ /\ row = NoRow \/ row.token = t[2]
          /\ Become(t, [At(t, "admit") EXCEPT !.clock = AdmissionWait, !.seen = row])
    /\ UNCHANGED <<row, claim, cooled, callers, refreshes, upsets, upstream, history>>

\* The fresh re-read under the claim: adopt a rotation, fail closed on a
\* terminal status of the same token, or go on to the exchange.
Reread(t) ==
    /\ tasks[t].pc = "reread"
    /\ \/ /\ row # NoRow /\ row.token # t[2]
          /\ EndSection(t, "fresh")
       \/ /\ row.token = t[2] /\ row.status \in Terminal
          /\ EndSection(t, "permanent")
       \/ /\ row = NoRow \/ (row.token = t[2] /\ row.status \notin Terminal)
          /\ Become(t, [At(t, "admit") EXCEPT !.clock = AdmissionWait, !.seen = row])
    /\ UNCHANGED <<row, claim, cooled, callers, refreshes, upsets, upstream, history>>

\* Admission, the route and the caller's budget allow the exchange, or do not.
\* A request for a deleted account goes out with the caller's own token.
SendExchange(t) ==
    /\ tasks[t].pc = "admit"
    /\ Become(t, [At(t, "exchange") EXCEPT !.clock = RefreshTimeout])
    /\ sent' = IF t[2] \in sent.once THEN [sent EXCEPT !.again = @ \cup {t[2]}]
                                     ELSE [sent EXCEPT !.once = @ \cup {t[2]}]
    /\ UNCHANGED <<row, claim, cooled, callers, refreshes, upsets, upstream, lost>>

NotAdmitted(t) ==
    /\ tasks[t].pc = "admit"
    /\ EndSection(t, "transient")
    /\ UNCHANGED <<row, claim, cooled, callers, refreshes, upsets, upstream, history>>

\* The upstream exchanges a token once, and mints its successor.
Mint(k) ==
    /\ k \notin used \cup revoked
    /\ minted < MaxToken
    /\ minted' = minted + 1
    /\ parent' = [parent EXCEPT ![minted + 1] = k]
    /\ used' = used \cup {k}

\* The rotated token arrives, is encrypted and is about to be stored.
Exchanged(t) ==
    /\ tasks[t].pc = "exchange"
    /\ Mint(t[2])
    /\ \E n \in FreshNonce(minted + 1) :
          Become(t, [At(t, "write") EXCEPT !.new = minted + 1, !.newNonce = n,
                                           !.tries = 1, !.clock = PersistTime])
    /\ UNCHANGED <<row, claim, cooled, callers, refreshes, upsets, revoked, history>>

\* A permanent error: the token was used or its login invalidated.
ExchangeRefused(t) ==
    /\ tasks[t].pc = "exchange"
    /\ t[2] \in used \cup revoked
    /\ Become(t, [At(t, "fail") EXCEPT !.tries = 0, !.clock = PersistTime])
    /\ UNCHANGED <<row, claim, cooled, callers, refreshes, upsets, upstream, history>>

\* A broken connection, a timeout or an answer without tokens: the upstream
\* has used the token, or will when the request reaches it, or never will.
ExchangeLost(t) ==
    /\ tasks[t].pc = "exchange"
    /\ EndSection(t, "transient")
    /\ used' \in {used, used \cup {t[2]}}
    /\ Lose(t)
    /\ UNCHANGED <<row, claim, cooled, callers, refreshes, upsets, minted, parent, revoked, sent>>

-----------------------------------------------------------------------------
(* Storing the outcome.                                                    *)

\* AccountsRepository.rotate_tokens and update_status_if_current: one UPDATE
\* each, conditioned on the ciphertext, and on the status, that was read.
RotateTokens(t) == row' = [row EXCEPT !.token = tasks[t].new, !.nonce = tasks[t].newNonce]
AnyCipherCurrent(t) == row # NoRow
CipherCurrent(t) == row # NoRow /\ Cipher(row) = Cipher(tasks[t].seen)
RowCurrent(t) == row # NoRow /\ row = tasks[t].seen

\* _persist_refreshed_tokens: attempts 1..CasAttempts, then the final ones.
GuardedWrite(t) ==
    /\ tasks[t].pc = "write"
    /\ IF CipherCurrent(t)
       THEN RotateTokens(t) /\ EndSection(t, "fresh")
       ELSE Become(t, At(t, "check")) /\ UNCHANGED row
    /\ UNCHANGED <<claim, cooled, callers, refreshes, upsets, upstream, history>>

CheckGivingUp(t) ==
    /\ tasks[t].pc = "check"
    /\ IF row = NoRow \/ row.token # t[2] \/ tasks[t].tries = CasAttempts
       THEN EndSection(t, "fresh")
       ELSE Become(t, [At(t, "write") EXCEPT !.seen = row, !.tries = @ + 1])
    /\ UNCHANGED <<row, claim, cooled, callers, refreshes, upsets, upstream, history>>

CheckForever(t) ==
    /\ tasks[t].pc = "check"
    /\ IF row = NoRow \/ row.token # t[2]
       THEN EndSection(t, "fresh")
       ELSE Become(t, [At(t, "write") EXCEPT !.seen = row])
    /\ UNCHANGED <<row, claim, cooled, callers, refreshes, upsets, upstream, history>>

\* After a miss: the row is gone, a peer rotated it (adopt), or the consumed
\* token was only encrypted again: try the new ciphertext.  A passed deadline
\* skips the rest of the first attempts, never the final ones.
Check(t) ==
    /\ tasks[t].pc = "check"
    /\ \/ /\ row = NoRow \/ row.token # t[2]
          /\ EndSection(t, "fresh")
       \/ /\ row.token = t[2]
          /\ tasks[t].tries < CasAttempts + FinalAttempts
          /\ \E next \in {tasks[t].tries + 1} \cup
                         (IF tasks[t].tries <= CasAttempts THEN {CasAttempts + 1} ELSE {}) :
                Become(t, [At(t, "write") EXCEPT !.seen = row, !.tries = next])
       \/ /\ row.token = t[2]
          /\ tasks[t].tries = CasAttempts + FinalAttempts
          /\ Become(t, [At(t, "flag") EXCEPT !.tries = 1])
    /\ UNCHANGED <<row, claim, cooled, callers, refreshes, upsets, upstream, history>>

\* _flag_persist_conflict_reauth: re-read, then flag the dead token.
FlagRead(t) ==
    /\ tasks[t].pc = "flag"
    /\ IF row = NoRow \/ row.token # t[2]
       THEN EndSection(t, "fresh")
       ELSE Become(t, [At(t, "flagWrite") EXCEPT !.seen = row])
    /\ UNCHANGED <<row, claim, cooled, callers, refreshes, upsets, upstream, history>>

FlagWrite(t) ==
    /\ tasks[t].pc = "flagWrite"
    /\ \/ /\ RowCurrent(t)
          /\ row' = [row EXCEPT !.status = "reauth"]
          /\ EndSection(t, "fresh")
          /\ UNCHANGED lost
       \/ /\ ~RowCurrent(t)
          /\ tasks[t].tries < FinalAttempts
          /\ Become(t, [At(t, "flag") EXCEPT !.tries = @ + 1])
          /\ UNCHANGED <<row, lost>>
       \/ /\ ~RowCurrent(t)
          /\ tasks[t].tries = FinalAttempts
          /\ EndSection(t, "transient")
          /\ Lose(t)
          /\ UNCHANGED row
    /\ UNCHANGED <<claim, cooled, callers, refreshes, upsets, upstream, sent>>

\* _handle_permanent_refresh_failure: re-read before the first status write
\* and after every miss; out of attempts or past the deadline, a conflict.
FailRead(t) ==
    /\ tasks[t].pc = "fail"
    /\ \/ /\ row = NoRow
          /\ EndSection(t, "permanent")
          /\ UNCHANGED lost
       \/ /\ row # NoRow /\ row.token # t[2]
          /\ EndSection(t, "fresh")
          /\ UNCHANGED lost
       \/ /\ row.token = t[2] /\ tasks[t].tries < CasAttempts
          /\ Become(t, [At(t, "failWrite") EXCEPT !.seen = row])
          /\ UNCHANGED lost
       \/ /\ row.token = t[2] /\ tasks[t].tries > 0
          /\ EndSection(t, "transient")
          /\ Lose(t)
    /\ UNCHANGED <<row, claim, cooled, callers, refreshes, upsets, upstream, sent>>

FailWrite(t) ==
    /\ tasks[t].pc = "failWrite"
    /\ IF RowCurrent(t)
       THEN /\ \E verdict \in Terminal : row' = [row EXCEPT !.status = verdict]
            /\ EndSection(t, "permanent")
       ELSE /\ Become(t, [At(t, "fail") EXCEPT !.tries = @ + 1])
            /\ UNCHANGED row
    /\ UNCHANGED <<claim, cooled, callers, refreshes, upsets, upstream, history>>

\* A statement raises: the exception leaves through the release of the claim.
DatabaseFails(t) ==
    /\ Upset
    /\ \/ /\ tasks[t].pc \in {"claim", "peek"}
          /\ Finish(t, "transient")
          /\ UNCHANGED lost
       \/ /\ tasks[t].pc \in {"reread"} \cup Persisting
          /\ EndSection(t, "transient")
          /\ UNCHANGED <<callers, cooled>>
          /\ IF tasks[t].pc \in Persisting THEN Lose(t) ELSE UNCHANGED lost
    /\ UNCHANGED <<row, claim, refreshes, upstream, sent>>

ReleaseAny(t) ==
    /\ tasks[t].pc = "release"
    /\ \/ claim' = NoClaim /\ UNCHANGED upsets
       \/ UNCHANGED claim /\ Upset
    /\ Finish(t, tasks[t].out)
    /\ UNCHANGED <<row, refreshes, upstream, history>>

\* _release_claim_quietly: deletes the row if it is still the task's own, or
\* fails and leaves it to expire; the outcome is the task's either way.
Release(t) ==
    /\ tasks[t].pc = "release"
    /\ \/ /\ claim' = IF claim.by = t THEN NoClaim ELSE claim
          /\ UNCHANGED upsets
       \/ /\ Upset
          /\ UNCHANGED claim
    /\ Finish(t, tasks[t].out)
    /\ UNCHANGED <<row, refreshes, upstream, history>>

CooldownEnds(p) ==
    /\ cooled[p] # {}
    /\ \E k \in cooled[p] : cooled' = [cooled EXCEPT ![p] = @ \ {k}]
    /\ UNCHANGED <<row, claim, tasks, callers, refreshes, upsets, upstream, history>>

-----------------------------------------------------------------------------
(* The operator, the upstream, time and crashes.                           *)

\* A new login, or an import of the token that is stored already: upsert
\* replaces the ciphertext and the status whatever they are.
Import(k) ==
    /\ row # NoRow
    /\ \E n \in FreshNonce(k) : row' = [token |-> k, nonce |-> n, status |-> "active"]
    /\ UNCHANGED <<claim, tasks, cooled, callers, refreshes, parent, used, revoked, sent>>

Login ==
    /\ Upset
    /\ minted < MaxToken
    /\ minted' = minted + 1
    /\ Import(minted + 1)
    /\ UNCHANGED lost

Reimport ==
    /\ Import(row.token)
    /\ lost' = IF row.status \in Terminal THEN lost \cup {row.token} ELSE lost
    /\ UNCHANGED <<upsets, minted>>

\* pause_account and reactivate_account; the latter refuses "reauth" but
\* lifts "deactivated".  The usage refresh reactivates a "limited" account.
SetStatus(status) ==
    /\ Upset
    /\ row' = [row EXCEPT !.status = status]
    /\ UNCHANGED <<claim, tasks, cooled, callers, refreshes, upstream, sent>>

Pause ==
    /\ row.status \in {"active", "limited"}
    /\ SetStatus("paused")
    /\ UNCHANGED lost

Reactivate ==
    /\ row.status \in {"limited", "paused", "deactivated"}
    /\ SetStatus("active")
    /\ lost' = IF row.status \in Terminal THEN lost \cup {row.token} ELSE lost

Delete ==
    /\ Upset
    /\ row # NoRow
    /\ row' = NoRow
    /\ UNCHANGED <<claim, tasks, cooled, callers, refreshes, upstream, history>>

\* The upstream invalidates the login that the stored token belongs to.
Revoke ==
    /\ Upset
    /\ row # NoRow
    /\ row.token \notin revoked
    /\ revoked' = revoked \cup {row.token}
    /\ UNCHANGED <<row, claim, tasks, cooled, callers, refreshes, minted, parent, used, history>>

\* A process dies.  Its successor has another claimant id, so that the claim
\* it held belongs to nobody.
Crash(p) ==
    /\ Upset
    /\ LET Busy(points) == {k \in Tokens : tasks[<<p, k>>].pc \in points}
       IN  /\ lost' = lost \cup Busy({"exchange"} \cup Persisting)
           /\ used' \in {used, used \cup Busy({"exchange"})}
    /\ tasks' = [t \in Keys |-> IF t[1] = p THEN IdleTask ELSE tasks[t]]
    /\ cooled' = [cooled EXCEPT ![p] = {}]
    /\ callers' = [c \in Callers |-> IF Home[c] = p THEN IdleCaller ELSE callers[c]]
    /\ claim' = IF claim.by[1] = p THEN [claim EXCEPT !.by = <<Nobody, 0>>] ELSE claim
    /\ UNCHANGED <<row, refreshes, minted, parent, revoked, sent>>

\* Time passes unless a protected step is due.  An expired claim row is as
\* good as none.
Tick ==
    /\ claim.left > 0 \/ \E t \in Keys : tasks[t].pc \in Protected
    /\ \A t \in Keys : tasks[t].pc \in Protected => tasks[t].clock > 0
    /\ claim' = IF claim.left > 1 THEN [claim EXCEPT !.left = @ - 1] ELSE NoClaim
    /\ tasks' = [t \in Keys |-> IF tasks[t].pc \in Protected THEN [tasks[t] EXCEPT !.clock = @ - 1]
                                                             ELSE tasks[t]]
    /\ UNCHANGED <<row, cooled, callers, refreshes, upsets, upstream, history>>

\* What a task does by itself: an event loop that runs, statements that
\* return and a request timeout that fires.
TaskStep(t) ==
    \/ TryAcquire(t) \/ Peek(t) \/ Reread(t)
    \/ SendExchange(t) \/ NotAdmitted(t)
    \/ Exchanged(t) \/ ExchangeRefused(t) \/ ExchangeLost(t)
    \/ GuardedWrite(t) \/ Check(t) \/ FlagRead(t) \/ FlagWrite(t)
    \/ FailRead(t) \/ FailWrite(t)
    \/ DatabaseFails(t) \/ Release(t)

CallerStep(c) ==
    Select(c) \/ Leave(c) \/ EnsureFresh(c) \/ Rejected(c) \/ MarkPermanentFailure(c) \/ MarkRateLimit(c)

OperatorStep == Login \/ Reimport \/ Pause \/ Reactivate \/ Delete

Next ==
    \/ \E t \in Keys : TaskStep(t)
    \/ \E c \in Callers : CallerStep(c)
    \/ OperatorStep
    \/ Revoke
    \/ \E p \in Procs : CooldownEnds(p) \/ Crash(p)
    \/ Tick

Spec == Init /\ [][Next]_vars

FairSpec ==
    /\ Spec
    /\ \A t \in Keys : WF_vars(TaskStep(t))
    /\ WF_vars(Tick)

-----------------------------------------------------------------------------
(* What the code promises.                                                 *)

\* From the moment it wins the claim to the end of its persist section, a
\* refresh task owns a claim row that has not expired.  Two tasks, of any
\* processes and for any tokens of the account, are therefore never inside
\* the section together: the refresh-token exchange is serialised.
ClaimProtects ==
    \A t \in Keys : tasks[t].pc \in Protected => claim.by = t /\ claim.left > 0

\* No token is sent upstream a second time unless the result or the terminal
\* flag of its first exchange was lost: to the network, to a crash, to a
\* failing or a contended database, or to somebody who overwrote the flag.
\* (Once the account is deleted, stale callers may send its token again.)
ResentOnlyIfLost == row = NoRow \/ sent.again \subseteq lost

\* The account is never left silently holding a consumed token: while the row
\* holds a token the upstream has already exchanged and is not flagged, the
\* task that exchanged it is still at work on it, or its result was lost.
ConsumedNeverSilent ==
    row.token \in used \ lost /\ row.status \notin Terminal =>
        \E p \in Procs : tasks[<<p, row.token>>].pc \in Persisting

\* No write drops a token for one that does not descend from it: the stored
\* token is replaced only by the token it was exchanged for, or by a login.
NoClobber ==
    [][row # NoRow /\ row' # NoRow /\ row'.token # row.token
         => parent'[row'.token] \in {row.token, 0}]_vars

\* An account is flagged for a permanent failure only while it stores a token
\* that really is dead upstream; a repaired account is not flagged by a late
\* failure of the token it had before.
FlagsOnlyDeadToken ==
    [][row.status \notin Terminal /\ row'.status \in Terminal => row.token \in used \cup revoked]_vars

\* Every refresh task ends: a waiter on a foreign claim gives up, and the
\* retries of the compare-and-set writes are bounded.
RefreshEnds == \A t \in Keys : tasks[t].pc # "idle" ~> tasks[t].pc = "idle"

\* "until the account is re-authenticated": an account that requires
\* re-authentication stays out of routing until its token is replaced.
ReauthUntilRelogin ==
    [][row.status = "reauth" /\ row' # NoRow /\ Cipher(row') = Cipher(row) => row'.status \in Terminal]_vars

=============================================================================
