--------------------------- MODULE AccountLeases ---------------------------
(***************************************************************************)
(* Account selection and account leases of one replica's LoadBalancer      *)
(* (modules/proxy/load_balancer.py): every request that is routed to an    *)
(* account holds a lease that counts against the account's per-replica     *)
(* concurrency cap.                                                        *)
(*                                                                         *)
(* A lock section of _runtime_lock contains no await, so it is one step.   *)
(* Between the steps of one request lie the database reads and writes of   *)
(* select_account, where other requests, cancellations and time interleave.*)
(*                                                                         *)
(* Which account the balancer prefers is decided by health, quota and      *)
(* strategy; here any candidate below its cap, or none at all, may be the  *)
(* choice.                                                                 *)
(***************************************************************************)
EXTENDS Integers, FiniteSets

CONSTANTS
    Requests,             \* lease holders; a request owns at most one lease at a time
    Accounts,
    NoAccount,
    Fragile,              \* the requests whose task may vanish without releasing
    Removable,            \* the accounts an operator may delete or add again
    Workload,             \* the pairs <<class, mode>> of requests that arrive
    Shares,               \* the caps effective_account_concurrency_caps can return
    RecoveryReserve,      \* proxy_account_stream_recovery_reserve
    LeaseTtl,             \* proxy_account_lease_ttl_seconds, in ticks
    StreamBudget,         \* the largest request budget a stream may use, in ticks
    StreamGrace,          \* _ACCOUNT_STREAM_LEASE_STALE_GRACE_SECONDS, in ticks
    MaxSelectionAttempts  \* _MAX_SELECTION_ATTEMPTS

Kinds == {"response_create", "stream"}

\* A request is a response_create, an ordinary stream, or the reattachment of
\* an interrupted stream, which may use the slots reserved for recovery.
Classes == {"create", "stream", "reattach"}

\* select_account without or with a sticky key, acquire_account_lease, and
\* check_opportunistic_admission.
Modes == {"plain", "sticky", "direct", "probe"}

ASSUME LeaseAssumption ==
    /\ IsFiniteSet(Requests)
    /\ NoAccount \notin Accounts
    /\ Fragile \subseteq Requests
    /\ Removable \subseteq Accounts
    /\ Workload \subseteq (Classes \X {"plain", "sticky"})
                     \cup {<<"create", "direct">>, <<"create", "probe">>}
    /\ Shares \subseteq [Kinds -> Int] /\ Shares # {}
    /\ RecoveryReserve \in Int
    /\ LeaseTtl \in Nat \ {0}
    /\ StreamBudget \in Nat
    /\ StreamGrace \in Nat
    /\ MaxSelectionAttempts \in Nat \ {0}

VARIABLES
    runtime,  \* _runtime: per account the live leases and the in-flight counters
    age,      \* time since acquired_at of each request's lease, saturating
    listed,   \* the accounts that exist in the database
    share,    \* what effective_account_concurrency_caps returns now
    req       \* what each request is doing

vars == <<runtime, age, listed, share, req>>

Kind(class) == IF class = "create" THEN "response_create" ELSE "stream"

StreamReserveSlots(class) == IF class = "stream" THEN RecoveryReserve ELSE 0

PCs == {"idle", "direct", "loading", "selecting", "choosing", "persisting",
        "holding", "orphan"}

Errors == {"none", "cap", "hardCap", "unavailable"}

AtLeastOne(n) == IF n < 1 THEN 1 ELSE n

Larger(m, n) == IF m < n THEN n ELSE m

NotNegative(n) == IF n < 0 THEN 0 ELSE n

StaleTtl(kind) ==
    IF kind = "stream"
    THEN Larger(LeaseTtl, Larger(LeaseTtl, StreamBudget) + StreamGrace)
    ELSE LeaseTtl

MaxAge == StaleTtl("stream")

RuntimeStates ==
    [Accounts -> [leases : SUBSET Requests, inflight : [Kinds -> Nat]]]

FreshRuntime == [leases |-> {}, inflight |-> [k \in Kinds |-> 0]]

\* A request that is not selecting needs no caps; any value stands for none.
NoCaps == CHOOSE caps \in Shares : TRUE

Idle ==
    [pc |-> "idle", class |-> "create", mode |-> "plain", attempt |-> 0,
     caps |-> NoCaps, known |-> {}, scope |-> {}, roomy |-> {},
     held |-> NoAccount, err |-> "none"]

Holding(class, a) == [Idle EXCEPT !.pc = "holding", !.class = class, !.held = a]

RequestStates ==
    [pc : PCs, class : Classes, mode : Modes, attempt : 0..MaxSelectionAttempts,
     caps : Shares, known : SUBSET Accounts, scope : SUBSET Accounts,
     roomy : SUBSET Accounts, held : Accounts \cup {NoAccount}, err : Errors]

\* Type correctness: no in-flight counter goes below zero, and no selection
\* counts more than _MAX_SELECTION_ATTEMPTS attempts.
TypeOK ==
    /\ runtime \in RuntimeStates
    /\ age \in [Requests -> 0..MaxAge]
    /\ listed \subseteq Accounts
    /\ share \in Shares
    /\ req \in [Requests -> RequestStates]

Init ==
    /\ runtime = [a \in Accounts |-> FreshRuntime]
    /\ age = [r \in Requests |-> 0]
    /\ listed = Accounts
    /\ share \in Shares
    /\ req = [r \in Requests |-> Idle]

-----------------------------------------------------------------------------
(* The runtime map. A lease is identified by the request that owns it. *)

LeaseKind(r) == Kind(req[r].class)

OfKind(S, kind) == {r \in S : LeaseKind(r) = kind}

\* _account_lease_allowed_locked and _filter_states_for_account_caps: the same
\* comparison; a cap of zero or less means no limit.
HasRoom(rt, a, class, caps) ==
    LET cap == caps[Kind(class)]
        limit == IF class = "create"
                 THEN cap
                 ELSE AtLeastOne(cap - NotNegative(StreamReserveSlots(class)))
    IN  cap <= 0 \/ rt[a].inflight[Kind(class)] < limit

Acquired(rt, a, r) ==
    [rt EXCEPT ![a] = [leases |-> rt[a].leases \cup {r},
                       inflight |-> [rt[a].inflight EXCEPT ![LeaseKind(r)] = @ + 1]]]

\* _release_account_lease_locked: nothing happens unless the lease is there.
Released(rt, a, r) ==
    IF a = NoAccount \/ r \notin rt[a].leases THEN rt
    ELSE [rt EXCEPT ![a] =
            [leases |-> rt[a].leases \ {r},
             inflight |-> [rt[a].inflight EXCEPT ![LeaseKind(r)] = NotNegative(@ - 1)]]]

Stale == {r \in Requests : age[r] >= StaleTtl(LeaseKind(r))}

\* _reclaim_stale_account_leases_locked
Reclaimed(rt) ==
    [a \in Accounts |->
        [leases |-> rt[a].leases \ Stale,
         inflight |-> [k \in Kinds |->
            NotNegative(rt[a].inflight[k]
                          - Cardinality(OfKind(rt[a].leases \cap Stale, k)))]]]

\* _prune_runtime: forget accounts that are not in the request's list, which
\* may be older than the database, unless they have leases.
Pruned(rt, known) ==
    [a \in Accounts |->
        IF a \notin known /\ rt[a].leases = {} THEN FreshRuntime ELSE rt[a]]

Swept(known) == Pruned(Reclaimed(runtime), known)

-----------------------------------------------------------------------------
(* One request *)

\* The request is over; it holds nothing any more.
Finish(r) ==
    /\ req' = [req EXCEPT ![r] = Idle]
    /\ age' = [age EXCEPT ![r] = 0]

\* The caps a caller passes in are read before the selection starts.
Begin(r, class, mode) ==
    /\ \/ req[r].pc = "idle"
       \/ req[r].pc = "orphan" /\ \A a \in Accounts : r \notin runtime[a].leases
    /\ <<class, mode>> \in Workload
    /\ req' = [req EXCEPT ![r] =
                [Idle EXCEPT
                    !.pc = IF mode = "direct" THEN "direct" ELSE "loading",
                    !.class = class,
                    !.mode = mode,
                    !.caps = share]]
    /\ age' = [age EXCEPT ![r] = 0]
    /\ UNCHANGED <<runtime, listed, share>>

\* load_selection_inputs reads the accounts, and narrows them to those the
\* request may use. Caps that were not passed in are read after the first load.
LoadInputs(r) ==
    /\ req[r].pc = "loading"
    /\ \E scope \in SUBSET listed,
          caps \in IF req[r].attempt = 0 THEN {req[r].caps, share} ELSE {req[r].caps} :
        req' = [req EXCEPT ![r] = [@ EXCEPT !.pc = "selecting",
                                            !.known = listed,
                                            !.scope = scope,
                                            !.caps = caps]]
    /\ UNCHANGED <<runtime, age, listed, share>>

\* Nothing eligible and an error code, a failing read, or a cancellation: the
\* selection ends before it has taken a lease.
SelectionAborts(r) ==
    /\ req[r].pc \in {"direct", "loading", "selecting", "choosing"}
    /\ Finish(r)
    /\ UNCHANGED <<runtime, listed, share>>

\* After the lock section the request persists its view of the account rows,
\* with a lease on account a, or with an error and no lease.
ToPersistUncounted(r, a, err) ==
    req' = [req EXCEPT ![r] = [@ EXCEPT !.pc = "persisting",
                                        !.held = a,
                                        !.err = err,
                                        !.known = {},
                                        !.scope = {},
                                        !.roomy = {}]]

ToPersist(r, a, err) ==
    req' = [req EXCEPT ![r] = [@ EXCEPT !.pc = "persisting",
                                        !.attempt = IF req[r].mode = "plain"
                                                    THEN req[r].attempt + 1
                                                    ELSE req[r].attempt,
                                        !.held = a,
                                        !.err = err,
                                        !.known = {},
                                        !.scope = {},
                                        !.roomy = {}]]

\* The lock section of the non-sticky loop.
SelectPlain(r) ==
    LET rt == Swept(req[r].known)
        candidates == {a \in req[r].scope : HasRoom(rt, a, req[r].class, req[r].caps)}
    IN
    /\ req[r].pc = "selecting" /\ req[r].mode = "plain"
    /\ \/ /\ candidates = {} /\ req[r].scope # {}
          /\ runtime' = rt
          /\ ToPersist(r, NoAccount, "cap")
          /\ UNCHANGED age
       \/ /\ candidates # {} \/ req[r].scope = {}
          /\ runtime' = rt
          /\ ToPersist(r, NoAccount, "unavailable")
          /\ UNCHANGED age
       \/ \E a \in candidates :
          /\ runtime' = Acquired(rt, a, r)
          /\ age' = [age EXCEPT ![r] = 0]
          /\ ToPersist(r, a, "none")
    /\ UNCHANGED <<listed, share>>

\* The first lock section of the sticky loop builds the states, with the
\* in-flight counters of this moment.
StickyBuild(r) ==
    LET rt == Swept(req[r].known) IN
    /\ req[r].pc = "selecting" /\ req[r].mode = "sticky"
    /\ runtime' = rt
    /\ req' = [req EXCEPT ![r] = [@ EXCEPT
                !.pc = "choosing",
                !.attempt = req[r].attempt + 1,
                !.roomy = {a \in req[r].scope : HasRoom(rt, a, req[r].class, req[r].caps)}]]
    /\ UNCHANGED <<age, listed, share>>

\* The sticky lookup says whether the session is bound to its account (hard);
\* a bound session ignores the cap filter. The second lock section checks the
\* cap again, with the counters it finds by then.
StickyAcquireUnchecked(r) ==
    /\ req[r].pc = "choosing"
    /\ \E hard \in BOOLEAN :
        LET candidates == IF hard THEN req[r].scope ELSE req[r].roomy
            capError == IF hard THEN "hardCap" ELSE "cap"
        IN
        \/ /\ candidates = {} /\ req[r].scope # {}
           /\ ToPersist(r, NoAccount, capError)
           /\ UNCHANGED <<runtime, age>>
        \/ \E a \in candidates :
           /\ runtime' = Acquired(runtime, a, r)
           /\ age' = [age EXCEPT ![r] = 0]
           /\ ToPersist(r, a, "none")
    /\ UNCHANGED <<listed, share>>

StickyAcquire(r) ==
    /\ req[r].pc = "choosing"
    /\ \E hard \in BOOLEAN :
        LET candidates == IF hard THEN req[r].scope ELSE req[r].roomy
            capError == IF hard THEN "hardCap" ELSE "cap"
        IN
        \/ /\ candidates = {} /\ req[r].scope # {}
           /\ ToPersist(r, NoAccount, capError)
           /\ UNCHANGED <<runtime, age>>
        \/ /\ candidates # {} \/ req[r].scope = {}
           /\ ToPersist(r, NoAccount, "unavailable")
           /\ UNCHANGED <<runtime, age>>
        \/ \E a \in candidates :
           IF HasRoom(runtime, a, req[r].class, req[r].caps)
           THEN /\ runtime' = Acquired(runtime, a, r)
                /\ age' = [age EXCEPT ![r] = 0]
                /\ ToPersist(r, a, "none")
           ELSE /\ ToPersist(r, NoAccount, capError)
                /\ UNCHANGED <<runtime, age>>
    /\ UNCHANGED <<listed, share>>

\* Loop again: the lease, if any, is given back and the inputs are read anew.
RetryKeepingLease(r) ==
    /\ UNCHANGED runtime
    /\ req' = [req EXCEPT ![r] = [@ EXCEPT !.pc = "loading",
                                           !.held = NoAccount,
                                           !.err = "none"]]
    /\ age' = [age EXCEPT ![r] = 0]

Retry(r) ==
    /\ runtime' = Released(runtime, req[r].held, r)
    /\ req' = [req EXCEPT ![r] = [@ EXCEPT !.pc = "loading",
                                           !.held = NoAccount,
                                           !.err = "none"]]
    /\ age' = [age EXCEPT ![r] = 0]

\* Persisting raises or is cancelled.
PersistRaises(r) ==
    /\ req[r].pc = "persisting"
    /\ runtime' = Released(runtime, req[r].held, r)
    /\ Finish(r)
    /\ UNCHANGED <<listed, share>>

\* The selected account's row changed since it was read.
SelectedIsStale(r) ==
    /\ req[r].pc = "persisting"
    /\ req[r].held # NoAccount
    /\ IF req[r].attempt >= MaxSelectionAttempts
       THEN runtime' = Released(runtime, req[r].held, r) /\ Finish(r)
       ELSE Retry(r)
    /\ UNCHANGED <<listed, share>>

\* The selection inputs were invalidated while the rows were persisted.
GenerationMoved(r) ==
    /\ req[r].pc = "persisting" /\ req[r].mode = "plain"
    /\ req[r].held # NoAccount
    /\ req[r].attempt < MaxSelectionAttempts
    /\ Retry(r)
    /\ UNCHANGED <<listed, share>>

\* No account was available, but another request changed the runtime errors or
\* cooldowns of some account meanwhile.
RuntimeRecovered(r) ==
    /\ req[r].pc = "persisting" /\ req[r].mode = "plain"
    /\ req[r].err = "unavailable"
    /\ req[r].attempt < MaxSelectionAttempts
    /\ Retry(r)
    /\ UNCHANGED <<listed, share>>

MustRetryCap(r) ==
    req[r].mode = "sticky" /\ req[r].err = "cap" /\ req[r].attempt < MaxSelectionAttempts

StickyCapRetry(r) ==
    /\ req[r].pc = "persisting"
    /\ MustRetryCap(r)
    /\ Retry(r)
    /\ UNCHANGED <<listed, share>>

SelectionReturns(r) ==
    /\ req[r].pc = "persisting"
    /\ ~MustRetryCap(r)
    /\ IF req[r].held # NoAccount
       THEN /\ req' = [req EXCEPT ![r] = Holding(req[r].class, req[r].held)]
            /\ UNCHANGED age
       ELSE Finish(r)
    /\ UNCHANGED <<runtime, listed, share>>

\* acquire_account_lease: the response-create lease of a request on an account
\* that is already chosen; no reserve, and the caps of this moment.
AcquireDirect(r) ==
    LET rt == Reclaimed(runtime) IN
    /\ req[r].pc = "direct"
    /\ \E a \in Accounts :
        IF HasRoom(rt, a, req[r].class, share)
        THEN /\ runtime' = Acquired(rt, a, r)
             /\ age' = [age EXCEPT ![r] = 0]
             /\ req' = [req EXCEPT ![r] = Holding(req[r].class, a)]
        ELSE /\ runtime' = rt
             /\ Finish(r)
    /\ UNCHANGED <<listed, share>>

\* check_opportunistic_admission answers from the counters and takes no lease.
CheckOpportunistic(r) ==
    /\ req[r].pc = "selecting" /\ req[r].mode = "probe"
    /\ runtime' = Swept(req[r].known)
    /\ Finish(r)
    /\ UNCHANGED <<listed, share>>

\* release_account_lease by the caller, on success and on every error path.
Release(r) ==
    /\ req[r].pc = "holding"
    /\ runtime' = Released(runtime, req[r].held, r)
    /\ Finish(r)
    /\ UNCHANGED <<listed, share>>

\* The task is gone and nobody will release the lease.
TaskLost(r) ==
    /\ r \in Fragile
    /\ req[r].pc = "holding"
    /\ req' = [req EXCEPT ![r].pc = "orphan"]
    /\ UNCHANGED <<runtime, age, listed, share>>

-----------------------------------------------------------------------------
(* The environment *)

AddAccount(a) ==
    /\ a \notin listed
    /\ listed' = listed \cup {a}
    /\ UNCHANGED <<runtime, age, share, req>>

DeleteAccount(a) ==
    /\ a \in listed
    /\ listed' = listed \ {a}
    /\ UNCHANGED <<runtime, age, share, req>>

\* The dashboard limits or the replica's part of them change.
ShareChanges ==
    /\ share' \in Shares \ {share}
    /\ UNCHANGED <<runtime, age, listed, req>>

Tick ==
    /\ age' = [r \in Requests |->
                IF req[r].held # NoAccount /\ age[r] < MaxAge THEN age[r] + 1 ELSE age[r]]
    /\ age' # age
    /\ UNCHANGED <<runtime, listed, share, req>>

RequestStep(r) ==
    \/ LoadInputs(r)
    \/ SelectPlain(r)
    \/ StickyBuild(r)
    \/ StickyAcquire(r)
    \/ StickyCapRetry(r)
    \/ SelectionReturns(r)
    \/ AcquireDirect(r)
    \/ CheckOpportunistic(r)

RequestDetour(r) ==
    \/ SelectionAborts(r)
    \/ PersistRaises(r)
    \/ SelectedIsStale(r)
    \/ GenerationMoved(r)
    \/ RuntimeRecovered(r)

Next ==
    \/ \E r \in Requests :
        \/ \E class \in Classes, mode \in Modes : Begin(r, class, mode)
        \/ RequestStep(r)
        \/ RequestDetour(r)
        \/ Release(r)
        \/ TaskLost(r)
    \/ \E a \in Removable : AddAccount(a) \/ DeleteAccount(a)
    \/ ShareChanges
    \/ Tick

Spec == Init /\ [][Next]_vars

\* The event loop runs every task that is ready and the database answers, so a
\* selection proceeds; callers release in finally blocks; time passes; requests
\* keep arriving, and not every one of them is cancelled before its lock
\* section.
Fairness ==
    /\ WF_vars(Tick)
    /\ \A r \in Requests :
        /\ WF_vars(RequestStep(r))
        /\ WF_vars(Release(r))
        /\ WF_vars(\E class \in Classes, mode \in Modes : Begin(r, class, mode))
        /\ SF_vars(LoadInputs(r))
        /\ SF_vars(SelectPlain(r) \/ StickyBuild(r))

FairSpec == Spec /\ Fairness

-----------------------------------------------------------------------------
(* Properties *)

LeasesOf(a, kind) == OfKind(runtime[a].leases, kind)

\* The in-flight counters, which are all that admission looks at, count
\* exactly the live leases of each kind, whatever order of stale reclaim, late
\* release, retry, pruning and account deletion led here.
InflightMatchesLeases ==
    \A a \in Accounts, k \in Kinds :
        runtime[a].inflight[k] = Cardinality(LeasesOf(a, k))

\* No lease leaks: a live lease belongs to the request that still knows it, on
\* the account that request was routed to, so every retry, exception and
\* cancellation of select_account gave back what it had taken.
LeaseHasOwner ==
    \A a \in Accounts : \A r \in runtime[a].leases : req[r].held = a

\* A running request is never admitted over: its lease counts until the age at
\* which the code may call it stale, which for a stream is not before the
\* largest request budget, although the base TTL is shorter, and no pruning by
\* a request with an old account list forgets it.
LiveLeaseCounted ==
    \A r \in Requests :
        /\ req[r].held # NoAccount
        /\ age[r] < (IF LeaseKind(r) = "stream" THEN StreamBudget ELSE LeaseTtl)
        => r \in runtime[req[r].held].leases

\* The largest limit of a kind any request can have read; none when some cap
\* means unlimited.
Limited(k) == \A caps \in Shares : caps[k] > 0

\* Per-account concurrency never exceeds the largest cap that was in force,
\* although the sticky path chooses with counters from before its lookups and
\* a bound session skips the cap filter.
CapNeverExceeded ==
    \A a \in Accounts, k \in Kinds :
        Limited(k) => \E caps \in Shares : runtime[a].inflight[k] <= caps[k]

\* Ordinary streams never take the slots reserved for reattachment: an
\* interrupted stream finds room unless other recoveries fill it.
ReserveLeftFree ==
    \A a \in Accounts :
        Limited("stream") =>
            \E caps \in Shares :
                Cardinality({r \in runtime[a].leases : req[r].class = "stream"})
                    <= AtLeastOne(caps["stream"] - NotNegative(RecoveryReserve))

\* The books of an account are exact: its counters are the numbers of its
\* leases, no lease leaks, and no lease of a running request is forgotten.
LeasesAccounted == InflightMatchesLeases /\ LeaseHasOwner /\ LiveLeaseCounted

\* An account is never loaded beyond its caps, nor ordinary streams into the
\* reserve for recoveries.
LimitsKept == CapNeverExceeded /\ ReserveLeftFree

\* Every selection ends, with a lease or without: the retries for stale rows,
\* invalidated inputs, recovered runtimes and sticky cap races are bounded
\* together by _MAX_SELECTION_ATTEMPTS.
SelectionEnds ==
    \A r \in Requests :
        req[r].pc = "loading" ~> req[r].pc \in {"idle", "holding"}

\* A lease whose task vanished does not block its account for ever: as long as
\* requests arrive, one of them reclaims it.
OrphanReclaimed ==
    \A r \in Requests :
        req[r].pc = "orphan" ~> \A a \in Accounts : r \notin runtime[a].leases

=============================================================================
