---------------------------- MODULE StreamRetry ----------------------------
(***************************************************************************)
(* One streamed Responses request, from its first account selection to its *)
(* finally block: app/modules/proxy/_service/streaming/retry.py, with the  *)
(* single upstream attempt of streaming/mixin.py (_stream_once).           *)
(*                                                                         *)
(* The generator tries up to MaxAttempts accounts.  Each try takes a       *)
(* stream lease, refreshes the account's token, and streams; a failure     *)
(* before anything was shown to the client is retried on the same account, *)
(* moved to another one, or deferred until the account has capacity again. *)
(* The request may be bound to one account: by the owner of the response   *)
(* it continues, or by an uploaded file.  A continuation may leave its     *)
(* owner only as a verified fresh replay, a body without the anchor.       *)
(*                                                                         *)
(* The balancer's choice, the token refresh and the upstream are           *)
(* nondeterministic; the request budget may run out at any moment.         *)
(***************************************************************************)
EXTENDS Naturals, FiniteSets

CONSTANTS
    Pool,           \* the accounts the balancer knows
    Authorized,     \* those with security_work_authorized
    None,           \* no account
    MaxAttempts,    \* _STREAM_MAX_ACCOUNT_ATTEMPTS
    MaxTries,       \* _MAX_TRANSIENT_SAME_ACCOUNT_RETRIES
    MaxWaits        \* bound on waits that leave the attempt where it is

\* The accounts that are authorized are accounts, None is not one, and at least
\* one attempt and one try are made (the constants of retry.py are 3 and 3).
ASSUME StreamAssumption ==
    /\ None \notin Pool /\ Authorized \subseteq Pool
    /\ MaxAttempts \in Nat \ {0} /\ MaxTries \in Nat \ {0} /\ MaxWaits \in Nat

VARIABLES
    asked,    \* what the client asked for; never changes
    s,        \* the locals of the generator
    held,     \* held[a]: stream leases of account a in account_leases
    late,     \* the request budget is spent
    client    \* what the client and its API-key reservation have seen

streamVars == <<asked, s, held, late, client>>

Asked ==
    {r \in [anchor : BOOLEAN,                   \* has previous_response_id
            owner : Pool \cup {None},       \* what the owner lookup finds
            file : Pool \cup {None},        \* account of an uploaded file
            verified : BOOLEAN,                 \* a fresh replay is verified
            propagate : BOOLEAN] :              \* propagate_http_errors
       /\ ~r.anchor => r.owner = None /\ ~r.verified
       /\ r.verified => r.file = None}

StreamInit ==
    /\ asked \in Asked
    /\ s = [pc |-> "start", attempt |-> 0, tries |-> 0, account |-> None,
            leased |-> FALSE, excluded |-> {}, deferred |-> None,
            preferred |-> None, require |-> FALSE, filed |-> FALSE,
            anchored |-> asked.anchor, replay |-> asked.verified,
            secure |-> FALSE, retryable |-> FALSE, security |-> FALSE,
            transient |-> FALSE, settled |-> FALSE, waits |-> 0]
    /\ held = [a \in Pool |-> 0]
    /\ late = FALSE
    /\ client = [visible |-> FALSE, ends |-> 0, closes |-> 0, left |-> FALSE,
                 sends |-> 0]

----------------------------------------------------------------------------
(* Leaving the loop. *)

(* A terminal event is yielded, or an error raised, and the generator goes  *)
(* to its finally block.                                                    *)
End ==
    /\ s' = [s EXCEPT !.pc = "finally"]
    /\ client' = [client EXCEPT !.ends = @ + 1]
    /\ UNCHANGED <<asked, held, late>>

(* The same after _settle_stream_api_key_usage took over the reservation.   *)
SettleAndEnd ==
    /\ s' = [s EXCEPT !.pc = "finally", !.settled = TRUE]
    /\ client' = [client EXCEPT !.ends = @ + 1, !.closes = @ + 1]
    /\ UNCHANGED <<asked, held, late>>

(* Mutant: the lease a capacity deferral kept is forgotten. *)
FinallyCurrentOnly ==
    /\ s.pc = "finally"
    /\ s' = [s EXCEPT !.pc = "done"]
    /\ held' = IF s.account = None \/ ~s.leased THEN held
               ELSE [held EXCEPT ![s.account] = 0]
    /\ client' = [client EXCEPT !.closes = IF s.settled THEN @ ELSE @ + 1]
    /\ UNCHANGED <<asked, late>>

(* Every tracked lease is released; the reservation too, unless it was      *)
(* settled or handed to the settlement task.                                *)
Finally ==
    /\ s.pc = "finally"
    /\ s' = [s EXCEPT !.pc = "done"]
    /\ held' = [a \in Pool |-> 0]
    /\ client' = [client EXCEPT !.closes = IF s.settled THEN @ ELSE @ + 1]
    /\ UNCHANGED <<asked, late>>

(* The client disconnects, or the task is cancelled, at an await.           *)
Leave ==
    /\ s.pc \notin {"finally", "done"}
    /\ s' = [s EXCEPT !.pc = "finally"]
    /\ client' = [client EXCEPT !.left = TRUE]
    /\ UNCHANGED <<asked, held, late>>

----------------------------------------------------------------------------
(* Moving on to the next attempt. *)

(* range(max_attempts) has no further value.                                *)
LastAttempt == s.attempt = MaxAttempts - 1

(* _release_tracked_stream_lease: what the leases are once the current      *)
(* account's is given back.                                                 *)
Freed ==
    IF s.leased THEN [held EXCEPT ![s.account] = @ - 1] ELSE held

(* `continue` of the account loop with locals t: the next attempt, or the   *)
(* outcome for exhausted attempts.                                          *)
Continue(t, h) ==
    LET next == [t EXCEPT !.attempt = @ + 1, !.leased = FALSE]
    IN  /\ held' = h
        /\ s' = [next EXCEPT !.pc = IF LastAttempt THEN "finally"
                                                   ELSE "select"]
        /\ client' = [client EXCEPT !.ends = IF LastAttempt THEN @ + 1 ELSE @]
        /\ UNCHANGED <<asked, late>>

Excluding(t) == [t EXCEPT !.excluded = @ \cup {t.account}]

(* The verified body drops the anchor, and the owner is left for good.      *)
Fresh(t) ==
    [t EXCEPT !.anchored = FALSE, !.replay = FALSE, !.preferred = None,
              !.require = FALSE, !.excluded = @ \cup {t.preferred}]

(* Mutant: the owner's anchor moves along with the request. *)
MovedAnchored(t) ==
    IF t.require /\ t.preferred = t.account
    THEN [t EXCEPT !.preferred = None, !.require = FALSE]
    ELSE t

(* _move_verified_fresh_replay_from_owner                                   *)
Moved(t) ==
    IF t.require /\ t.preferred = t.account /\ t.replay THEN Fresh(t) ELSE t

Movable == ~s.require /\ s.preferred = None

----------------------------------------------------------------------------
(* Resolving the account the request is bound to. *)

(* The owner of the continued response, or the account of an uploaded file. *)
(* A continuation whose owner is unknown fails closed unless there is only  *)
(* one account.                                                             *)
Resolve ==
    /\ s.pc = "start"
    /\ IF asked.anchor /\ asked.owner = None /\ Cardinality(Pool) # 1
       THEN End
       ELSE LET filed == asked.owner = None /\ asked.file # None
            IN  /\ s' = [s EXCEPT
                           !.pc = "select",
                           !.preferred = IF filed THEN asked.file ELSE asked.owner,
                           !.require = asked.owner # None,
                           !.filed = filed]
                /\ UNCHANGED <<asked, held, late, client>>

----------------------------------------------------------------------------
(* Selecting an account. *)

(* What _select_account_with_budget may return: never an excluded account,  *)
(* and nothing but the file's account for a file.                           *)
Eligible ==
    {a \in Pool \ s.excluded :
        /\ s.filed => a = s.preferred
        /\ s.secure => a \in Authorized}

(* The budget ran out before or during the selection, or the selection      *)
(* failed.                                                                  *)
SelectionFails ==
    /\ s.pc = "select"
    /\ End

(* An account is selected and leased, and a deferred account is given up.   *)
(* A continuation that got another account than its owner's goes on only as *)
(* a verified fresh replay.                                                 *)
Select(a) ==
    /\ s.pc = "select"
    /\ a \in Eligible
    /\ ~late
    /\ LET t == [s EXCEPT !.account = a, !.leased = TRUE, !.deferred = None]
           stray == s.require /\ s.preferred # None /\ a # s.preferred
       IN  /\ held' = [b \in Pool |->
                         held[b] + (IF b = a THEN 1 ELSE 0)
                                 - (IF b = s.deferred THEN 1 ELSE 0)]
           /\ s' = IF stray /\ s.replay THEN [Fresh(t) EXCEPT !.pc = "fresh"]
                   ELSE [t EXCEPT !.pc = IF stray THEN "finally" ELSE "fresh"]
           /\ client' = [client EXCEPT !.ends =
                           IF stray /\ ~s.replay THEN @ + 1 ELSE @]
    /\ UNCHANGED <<asked, late>>

(* No authorized account: normal selection goes on.                         *)
NoAuthorized ==
    /\ s.pc = "select" /\ s.secure /\ ~late
    /\ s' = [s EXCEPT !.secure = FALSE]
    /\ UNCHANGED <<asked, held, late, client>>

(* Nobody else can take it: the request waits for the account it deferred,  *)
(* whose lease it still has.                                                *)
Resume ==
    /\ s.pc = "select" /\ s.deferred # None
    /\ IF late THEN End
       ELSE /\ s' = [s EXCEPT !.pc = "fresh", !.account = s.deferred,
                              !.leased = TRUE, !.deferred = None,
                              !.excluded = @ \ {s.deferred}]
            /\ UNCHANGED <<asked, held, late, client>>

(* The selection reports a cap, or a hint when to come back: wait, and      *)
(* select again in the same attempt.                                        *)
WaitForCapacity(capped) ==
    /\ s.pc = "select" /\ s.deferred = None /\ ~late
    /\ ~capped => /\ ~(asked.propagate /\ s.transient)
                  /\ ~s.retryable /\ ~s.security
    /\ s.waits < MaxWaits
    /\ s' = [s EXCEPT !.waits = @ + 1]
    /\ UNCHANGED <<asked, held, late, client>>

(* No account and nothing to wait for.  An owner that is gone is left as a  *)
(* verified fresh replay, which costs an attempt; a cap, an owner-bound     *)
(* request and an ordinary one end.                                         *)
NoneSelected(capped) ==
    /\ s.pc = "select" /\ s.deferred = None
    /\ IF ~capped /\ s.require /\ s.preferred # None /\ s.replay
       THEN Continue(Fresh(s), held)
       ELSE End

----------------------------------------------------------------------------
(* The token is fresh, or made fresh: before the attempt, and again, by     *)
(* force, after an upstream 401.                                            *)

Refreshing == s.pc \in {"fresh", "force"}

(* The upstream attempt begins.                                             *)
Refreshed ==
    /\ Refreshing
    /\ IF late THEN End
       ELSE /\ s' = [s EXCEPT !.pc = IF @ = "fresh" THEN "stream" ELSE "again",
                              !.tries = 0]
            /\ client' = [client EXCEPT !.sends = @ + 1]
            /\ UNCHANGED <<asked, held, late>>

(* No route to the upstream: an event, or, in the forced refresh, the error *)
(* itself.                                                                  *)
NoRoute ==
    /\ Refreshing
    /\ End

(* A permanent failure, or one that is neither contention nor transport:    *)
(* the lease is given back and the next attempt selects again.              *)
RefreshRefused ==
    /\ Refreshing
    /\ Continue(s, Freed)

(* Another replica holds the refresh claim, or won the write: no penalty; a *)
(* movable request goes to another account, a bound one ends.               *)
RefreshContended ==
    /\ Refreshing
    /\ IF Movable
       THEN Continue(Excluding([s EXCEPT !.retryable = TRUE]), Freed)
       ELSE /\ s' = [s EXCEPT !.pc = "finally", !.leased = FALSE]
            /\ held' = Freed
            /\ client' = [client EXCEPT !.ends = @ + 1]
            /\ UNCHANGED <<asked, late>>

(* The refresh could not reach the server.  Only before the first attempt   *)
(* does a verified replay leave its owner.                                  *)
RefreshLost ==
    /\ Refreshing
    /\ LET failed == [s EXCEPT !.retryable = TRUE]
           moves  == s.pc = "fresh" /\ Moved(s) # s
       IN  IF ~LastAttempt /\ (moves \/ Movable)
           THEN Continue(IF moves THEN Moved(failed) ELSE Excluding(failed),
                         Freed)
           ELSE End

----------------------------------------------------------------------------
(* The upstream attempt: _stream_once, first with retries, then once more   *)
(* after a forced refresh.                                                  *)

Streaming == s.pc \in {"stream", "again"}
Hidden == Streaming /\ ~client.visible

CanTryOther == ~s.require /\ s.account # asked.file /\ ~LastAttempt

(* A first line is yielded: from here on nothing may be replayed.           *)
Shows ==
    /\ Hidden
    /\ client' = [client EXCEPT !.visible = TRUE]
    /\ UNCHANGED <<asked, s, held, late>>

(* The stream ends with a terminal event of its own, or with one that       *)
(* replaces an error of the continued response or of a visible stream.      *)
Completes ==
    /\ Streaming
    /\ SettleAndEnd

(* The first event is an error that nothing retries.  The retrying caller   *)
(* returns without settling; the one after a refresh settles.               *)
Rejected ==
    /\ Hidden
    /\ IF s.pc = "stream" THEN End ELSE SettleAndEnd

(* An account-specific error, an idle timeout, or no connection at all.     *)
Retryable ==
    /\ Hidden /\ s.pc = "stream" /\ ~LastAttempt
    /\ Continue(Moved(Excluding([s EXCEPT !.retryable = TRUE])), Freed)

(* The account lacks the authorization for security work.                   *)
Unauthorized ==
    /\ Hidden /\ s.pc = "stream"
    /\ IF s.account \in Authorized \/ ~CanTryOther
       THEN End
       ELSE Continue(Excluding([s EXCEPT !.secure = TRUE, !.security = TRUE]),
                     Freed)

(* The account may create no more responses now.  It is set aside with its  *)
(* lease while another account may be tried; else the request waits for it. *)
Capped ==
    /\ Hidden
    /\ LET t == [s EXCEPT !.transient = TRUE]
       IN  \/ /\ CanTryOther
              /\ Continue(Excluding([t EXCEPT !.deferred = s.account]), held)
           \/ /\ ~CanTryOther /\ ~late /\ s.waits < MaxWaits
              /\ s' = [t EXCEPT !.waits = @ + 1]
              /\ client' = [client EXCEPT !.sends = @ + 1]
              /\ UNCHANGED <<asked, held, late>>
           \/ /\ ~CanTryOther /\ late
              /\ End

(* The process has no network: the same request again once it is back,      *)
(* within the budget.                                                       *)
NetworkRecovery ==
    /\ Hidden
    /\ IF late THEN SettleAndEnd
       ELSE /\ s.waits < MaxWaits
            /\ s' = [s EXCEPT !.waits = @ + 1]
            /\ client' = [client EXCEPT !.sends = @ + 1]
            /\ UNCHANGED <<asked, held, late>>

(* Mutant: a transient error is retried whatever the client has seen. *)
TransientAlways ==
    /\ Streaming /\ s.pc = "stream"
    /\ IF s.tries + 1 < MaxTries /\ ~late
       THEN /\ s' = [s EXCEPT !.tries = @ + 1]
            /\ client' = [client EXCEPT !.sends = @ + 1]
            /\ UNCHANGED <<asked, held, late>>
       ELSE \E last \in {s.transient, TRUE} :
              Continue(Excluding([s EXCEPT !.transient = last]), Freed)

(* A transient error: the same account again, and after MaxTries another.   *)
(* Only an HTTP 500 is kept for the propagated outcome.                     *)
Transient ==
    /\ Hidden /\ s.pc = "stream"
    /\ IF s.tries + 1 < MaxTries /\ ~late
       THEN /\ s' = [s EXCEPT !.tries = @ + 1]
            /\ client' = [client EXCEPT !.sends = @ + 1]
            /\ UNCHANGED <<asked, held, late>>
       ELSE \E last \in {s.transient, TRUE} :
              Continue(Excluding([s EXCEPT !.transient = last]), Freed)

(* An HTTP error the failover decision sends to the next account.           *)
FailsOver ==
    /\ Hidden /\ ~LastAttempt
    /\ Continue(Moved(Excluding([s EXCEPT !.transient = TRUE])), Freed)

(* An HTTP error that is surfaced, or an unexpected exception.              *)
Surfaces ==
    /\ Hidden
    /\ End

(* A 401 of the first pass: refresh by force, then stream once more.        *)
NotAuthenticated ==
    /\ Hidden /\ s.pc = "stream"
    /\ IF late THEN End
       ELSE /\ s' = [s EXCEPT !.pc = "force"]
            /\ UNCHANGED <<asked, held, late, client>>

----------------------------------------------------------------------------
(* The request budget is spent.                                             *)
Expire ==
    /\ ~late /\ s.pc # "done"
    /\ late' = TRUE
    /\ UNCHANGED <<asked, s, held, client>>

Selecting ==
    \/ SelectionFails \/ NoAuthorized \/ Resume
    \/ \E a \in Pool : Select(a)
    \/ \E capped \in BOOLEAN : WaitForCapacity(capped) \/ NoneSelected(capped)

Attempting ==
    \/ Refreshed \/ NoRoute \/ RefreshRefused \/ RefreshContended
    \/ RefreshLost
    \/ Completes \/ Rejected \/ Retryable \/ Unauthorized \/ Capped
    \/ NetworkRecovery \/ Transient \/ FailsOver \/ Surfaces
    \/ NotAuthenticated

StreamNext == Resolve \/ Selecting \/ Attempting \/ Shows \/ Finally \/ Leave \/ Expire

StreamSpec == StreamInit /\ [][StreamNext]_streamVars

----------------------------------------------------------------------------
(* Type invariant of the generator's locals. *)
StreamTypeOK ==
    /\ asked \in Asked
    /\ s.pc \in {"start", "select", "fresh", "stream", "force", "again",
                 "finally", "done"}
    /\ s.attempt \in 0..MaxAttempts /\ s.tries \in 0..MaxTries
    /\ s.account \in Pool \cup {None}
    /\ s.deferred \in Pool \cup {None}
    /\ s.preferred \in Pool \cup {None}
    /\ s.excluded \subseteq Pool
    /\ s.waits \in 0..MaxWaits
    /\ held \in [Pool -> 0..MaxAttempts]
    /\ late \in BOOLEAN

(* While an account is asked, its stream slot is the only one the request   *)
(* holds: a failed account's slot is not kept for the replacement stream.   *)
OneSlotWhileStreaming ==
    Streaming => held = [a \in Pool |-> IF a = s.account THEN 1 ELSE 0]

(* An upstream attempt never goes to an account the request has excluded,   *)
(* a body that continues a response only to that response's owner, and one  *)
(* that names a file only to the account that holds it.                     *)
RightAccount ==
    Streaming =>
        /\ s.account \notin s.excluded
        /\ s.anchored /\ asked.owner # None => s.account = asked.owner
        /\ asked.file # None /\ ~asked.anchor => s.account = asked.file

(* However the request ends, no slot stays taken, its API-key reservation   *)
(* is closed exactly once, and the client has got exactly one ending,       *)
(* unless it left first.                                                    *)
EndsClean ==
    s.pc = "done" =>
        /\ \A a \in Pool : held[a] = 0
        /\ client.closes = 1
        /\ client.ends = IF client.left THEN 0 ELSE 1

(* The slots a request takes and what it owes its API key and its client    *)
(* balance: one slot, the right one, while it streams, and none, one        *)
(* settlement and one ending when it is over.                               *)
SlotsAccounted == OneSlotWhileStreaming /\ EndsClean

(* Once a line has been shown to the client, nothing is sent upstream again *)
(* for this request.                                                        *)
NoReplayOnceVisible == [][client.visible => client'.sends = client.sends]_streamVars
=============================================================================
