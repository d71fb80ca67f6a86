--------------------------- MODULE RedeemCoordination ---------------------------
(***************************************************************************)
(* Redeeming one account's banked rate-limit reset credits                 *)
(* (rate_limit_reset_credits/redeem_coordination.py and api.py, and the    *)
(* POST /v1/reset-credit handler of proxy/api.py), on the replicas that    *)
(* share one SQLite database.  An attempt takes the account's claim row, a *)
(* lease its heartbeat renews; inside the section it looks up the credit   *)
(* its request id is pinned to, fetches the credits upstream holds, pins   *)
(* the soonest to expire to its id, and consumes it.                       *)
(*                                                                         *)
(* Time passes in Ticks.  A heartbeat runs at most Lag late, and a         *)
(* statement that computes an expiry waits at most Lag for the database    *)
(* after it read the clock; at most MaxMisses renewals in a row fail.      *)
(***************************************************************************)
EXTENDS Integers, FiniteSetsExt

CONSTANTS
    Attempts,       \* the redeem requests the replicas serve
    Replicas,
    HomeOf,         \* attempt -> the replica that serves it
    Ids,            \* redeem_request_ids
    IdOf,           \* attempt -> its id, the same for a retry; None for /v1, which
                    \* sends a random one and records nothing
    Credits,        \* the banked credits, numbered by expires_at
    Wanted,         \* attempt -> the credit a /v1 caller names, or None (dashboard)
    None,
    Lease,          \* REDEEM_CLAIM_LEASE_SECONDS
    RenewEvery,     \* REDEEM_CLAIM_RENEW_INTERVAL_SECONDS
    Lag,
    MaxMisses,
    MaxCrashes,     \* bound on replica crashes
    MaxExpiries     \* bound on ledger rows that pass REDEEM_REQUEST_TTL

\* The heartbeat cadence is a fraction of the lease: even after MaxMisses failed
\* renewals, each late, the next one comes before the lease is over.
ASSUME LeaseAssumption ==
    /\ Lease \in Nat /\ RenewEvery \in Nat \ {0} /\ Lag \in Nat /\ MaxMisses \in Nat
    /\ MaxCrashes \in Nat /\ MaxExpiries \in Nat
    /\ (MaxMisses + 1) * (RenewEvery + Lag) + Lag <= Lease

ASSUME AttemptAssumption ==
    /\ None \notin Attempts \union Credits \union Ids
    /\ Credits \subseteq Nat
    /\ HomeOf \in [Attempts -> Replicas]
    /\ IdOf \in [Attempts -> Ids \union {None}]
    /\ Wanted \in [Attempts -> Credits \union {None}]
    /\ \A p \in Attempts : IdOf[p] = None <=> Wanted[p] # None

VARIABLES
    claim,      \* the row of reset_credit_redeem_claims: its holder and the time left
    ledger,     \* id -> its row of reset_credit_redeem_requests
    available,  \* the credits upstream would still redeem
    wire,       \* consumes on their way upstream: <<id or None, credit>>
    sent,       \* every consume sent (history)
    pc,         \* attempt -> where it is
    credit,     \* attempt -> the credit it resolved, or None
    due,        \* attempt -> time until its next renewal; negative when it is late
    misses,     \* attempt -> renewals that failed in a row
    crashes,
    expiries

vars == <<claim, ledger, available, wire, sent, pc, credit, due, misses,
          crashes, expiries>>

NoClaim == [holder |-> None, left |-> 0]
NoRow == [credit |-> None, fresh |-> FALSE]

Init ==
    /\ claim = NoClaim
    /\ ledger = [i \in Ids |-> NoRow]
    /\ available = Credits
    /\ wire = {}
    /\ sent = {}
    /\ pc = [p \in Attempts |-> "waiting"]
    /\ credit = [p \in Attempts |-> None]
    /\ due = [p \in Attempts |-> 0]
    /\ misses = [p \in Attempts |-> 0]
    /\ crashes = 0
    /\ expiries = 0

--------------------------------------------------------------------------------
\* The claim.

Section == {"section", "fetching", "choosing", "consuming", "answering"}

InSection(p) == pc[p] \in Section

\* Mutant: a row is taken the moment its lease is up, not once it is past.
ClaimableAtExpiry == claim.holder = None \/ claim.left <= 0

\* try_acquire_redeem_claim: the upsert takes a missing row or one whose
\* expires_at is strictly past.
Claimable == claim.holder = None \/ claim.left < 0

\* expires_at = now + lease, now read up to Lag before the statement commits.
Extended(p) == {[holder |-> p, left |-> l] : l \in (Lease - Lag)..Lease}

Acquire(p) ==
    /\ pc[p] = "waiting"
    /\ Claimable
    /\ claim' \in Extended(p)
    /\ pc' = [pc EXCEPT ![p] = "section"]
    /\ due' = [due EXCEPT ![p] = RenewEvery]
    /\ misses' = [misses EXCEPT ![p] = 0]
    /\ UNCHANGED <<ledger, available, wire, sent, credit, crashes, expiries>>

\* acquire_redeem_claim gives up: the caller answers 409, redeem in progress.
AcquireTimesOut(p) ==
    /\ pc[p] = "waiting"
    /\ ~Claimable
    /\ pc' = [pc EXCEPT ![p] = "done"]
    /\ UNCHANGED <<claim, ledger, available, wire, sent, credit, due, misses,
                   crashes, expiries>>

\* renew_redeem_claim: the row is extended if it still names the holder, expired
\* or not.
Renew(p) ==
    /\ InSection(p) /\ due[p] <= 0
    /\ claim.holder = p
    /\ claim' \in Extended(p)
    /\ due' = [due EXCEPT ![p] = RenewEvery]
    /\ misses' = [misses EXCEPT ![p] = 0]
    /\ UNCHANGED <<ledger, available, wire, sent, pc, credit, crashes, expiries>>

\* A renewal that raises is retried on the next tick of the heartbeat.
RenewFails(p) ==
    /\ InSection(p) /\ due[p] <= 0
    /\ misses[p] < MaxMisses
    /\ due' = [due EXCEPT ![p] = RenewEvery]
    /\ misses' = [misses EXCEPT ![p] = @ + 1]
    /\ UNCHANGED <<claim, ledger, available, wire, sent, pc, credit, crashes,
                   expiries>>

Tick ==
    /\ \A p \in Attempts : InSection(p) => due[p] > -Lag
    /\ \/ claim.holder # None /\ claim.left >= 0
       \/ \E p \in Attempts : InSection(p)
    /\ claim' = IF claim.holder # None /\ claim.left >= 0
                THEN [claim EXCEPT !.left = @ - 1] ELSE claim
    /\ due' = [p \in Attempts |-> IF InSection(p) THEN due[p] - 1 ELSE due[p]]
    /\ UNCHANGED <<ledger, available, wire, sent, pc, credit, misses, crashes,
                   expiries>>

\* The end of serialize_reset_credit_redeem: the heartbeat is cancelled and the
\* row deleted if this holder still owns it.  A failed delete is only logged.
Released(p) == IF claim.holder = p THEN NoClaim ELSE claim

Release(p) ==
    /\ pc[p] = "leaving"
    /\ claim' \in {Released(p), claim}
    /\ pc' = [pc EXCEPT ![p] = "done"]
    /\ UNCHANGED <<ledger, available, wire, sent, credit, due, misses, crashes,
                   expiries>>

--------------------------------------------------------------------------------
\* The section.

\* _select_soonest_available_credit_from_items
Soonest == Min(available)

\* A step of p's section touches neither the claim nor the heartbeat.
Step(p, next, c) ==
    /\ pc' = [pc EXCEPT ![p] = next]
    /\ credit' = [credit EXCEPT ![p] = c]
    /\ UNCHANGED <<claim, due, misses, crashes, expiries>>

\* The section is over, with an answer or an error, and the heartbeat with it.
Leave(p) ==
    /\ pc' = [pc EXCEPT ![p] = "leaving"]
    /\ credit' = [credit EXCEPT ![p] = None]
    /\ due' = [due EXCEPT ![p] = 0]
    /\ misses' = [misses EXCEPT ![p] = 0]
    /\ UNCHANGED <<claim, crashes, expiries>>

Dashboard(p) == Wanted[p] = None

\* get_pinned_redeem_credit_id ignores a row past its TTL.
Pinned(i) == IF ledger[i].fresh THEN ledger[i].credit ELSE None

\* The credentials of the account, or its route, could not be had.
NotReady(p) ==
    /\ pc[p] = "section"
    /\ Leave(p)
    /\ UNCHANGED <<ledger, available, wire, sent>>

\* Without a pin the attempt goes on only if the replica's cached snapshot shows
\* an available credit, which it may or may not: the snapshot is refreshed and
\* dropped at any time (CacheInvalidation models the store).
LookUp(p) ==
    /\ pc[p] = "section" /\ Dashboard(p)
    /\ \/ Step(p, "fetching", Pinned(IdOf[p]))
       \/ Pinned(IdOf[p]) = None /\ Leave(p)
    /\ UNCHANGED <<ledger, available, wire, sent>>

FetchFails(p) ==
    /\ pc[p] = "fetching" \/ (pc[p] = "section" /\ ~Dashboard(p))
    /\ Leave(p)
    /\ UNCHANGED <<ledger, available, wire, sent>>

\* A pinned credit is kept; with no pin, an empty list ends the attempt, and
\* otherwise the soonest credit is selected.
Fetch(p) ==
    /\ pc[p] = "fetching"
    /\ \/ credit[p] # None /\ Step(p, "consuming", credit[p])
       \/ credit[p] = None /\ available = {} /\ Leave(p)
       \/ credit[p] = None /\ available # {} /\ Step(p, "choosing", Soonest)
    /\ UNCHANGED <<ledger, available, wire, sent>>

\* Mutant: the selected credit is consumed without being recorded.
PinUnwritten(p) ==
    /\ pc[p] = "choosing"
    /\ Step(p, "consuming", credit[p])
    /\ UNCHANGED <<ledger, available, wire, sent>>

\* pin_redeem_request: expired rows are purged, then the first writer wins.
Pin(p) ==
    LET purged == [i \in Ids |-> IF ledger[i].fresh THEN ledger[i] ELSE NoRow]
        mine == [credit |-> credit[p], fresh |-> TRUE]
        stored == IF purged[IdOf[p]] = NoRow THEN mine ELSE purged[IdOf[p]]
    IN  /\ pc[p] = "choosing"
        /\ ledger' = [purged EXCEPT ![IdOf[p]] = stored]
        /\ Step(p, "consuming", stored.credit)
        /\ UNCHANGED <<available, wire, sent>>

\* _fetch_authoritative_reset_credit: /v1 validates the credit the caller named
\* against upstream.
Validate(p) ==
    /\ pc[p] = "section" /\ ~Dashboard(p)
    /\ IF Wanted[p] \in available THEN Step(p, "consuming", Wanted[p]) ELSE Leave(p)
    /\ UNCHANGED <<ledger, available, wire, sent>>

Consume(p) ==
    /\ pc[p] = "consuming"
    /\ wire' = wire \union {<<IdOf[p], credit[p]>>}
    /\ sent' = sent \union {<<IdOf[p], credit[p]>>}
    /\ Step(p, "answering", credit[p])
    /\ UNCHANGED <<ledger, available>>

\* Upstream redeems a credit it still holds; a consume may also never arrive, or
\* arrive after its sender gave up.
UpstreamTakes(m) ==
    /\ wire' = wire \ {m}
    /\ available' \in {available \ {m[2]}, available}
    /\ UNCHANGED <<claim, ledger, sent, pc, credit, due, misses, crashes, expiries>>

\* The consume is over: answered, refused, or given up while still on its way.
\* What follows (the snapshot dropped and the drop published, the usage
\* refreshed) is still inside the section.
Answered(p) ==
    /\ pc[p] = "answering"
    /\ Leave(p)
    /\ UNCHANGED <<ledger, available, wire, sent>>

--------------------------------------------------------------------------------
\* REDEEM_REQUEST_TTL passes for a row.
Expire(i) ==
    /\ ledger[i].fresh /\ expiries < MaxExpiries
    /\ ledger' = [ledger EXCEPT ![i].fresh = FALSE]
    /\ expiries' = expiries + 1
    /\ UNCHANGED <<claim, available, wire, sent, pc, credit, due, misses, crashes>>

\* A replica dies with the attempts it serves; its claim row stays.
Crash(r) ==
    LET dies(p) == HomeOf[p] = r /\ pc[p] # "waiting"
    IN  /\ crashes < MaxCrashes
        /\ crashes' = crashes + 1
        /\ pc' = [p \in Attempts |-> IF dies(p) THEN "done" ELSE pc[p]]
        /\ credit' = [p \in Attempts |-> IF dies(p) THEN None ELSE credit[p]]
        /\ due' = [p \in Attempts |-> IF dies(p) THEN 0 ELSE due[p]]
        /\ misses' = [p \in Attempts |-> IF dies(p) THEN 0 ELSE misses[p]]
        /\ UNCHANGED <<claim, ledger, available, wire, sent, expiries>>

Next ==
    \/ \E p \in Attempts :
          \/ Acquire(p) \/ AcquireTimesOut(p) \/ Renew(p) \/ RenewFails(p) \/ Release(p)
          \/ NotReady(p) \/ LookUp(p) \/ FetchFails(p) \/ Fetch(p) \/ Pin(p) \/ Validate(p)
          \/ Consume(p) \/ Answered(p)
    \/ Tick
    \/ \E m \in wire : UpstreamTakes(m)
    \/ \E r \in Replicas : Crash(r)
    \/ \E i \in Ids : Expire(i)

Spec == Init /\ [][Next]_vars

--------------------------------------------------------------------------------
\* The claim row, the ledger and every attempt's place stay well formed; an
\* attempt that is about to consume has a credit.
RedeemTypeOK ==
    /\ claim \in [holder : Attempts \union {None}, left : -1..Lease]
    /\ ledger \in [Ids -> [credit : Credits \union {None}, fresh : BOOLEAN]]
    /\ available \subseteq Credits
    /\ wire \subseteq sent /\ sent \subseteq (Ids \union {None}) \X Credits
    /\ pc \in [Attempts -> Section \union {"waiting", "leaving", "done"}]
    /\ credit \in [Attempts -> Credits \union {None}]
    /\ due \in [Attempts -> (-Lag)..RenewEvery]
    /\ misses \in [Attempts -> 0..MaxMisses]
    /\ \A p \in Attempts : pc[p] \in {"choosing", "consuming", "answering"} => credit[p] # None
    /\ \A i \in Ids : ledger[i].fresh => ledger[i].credit # None

\* serialize_reset_credit_redeem: while the heartbeat keeps its cadence, with at
\* most MaxMisses failed renewals in a row, no attempt of any replica enters the
\* section while another is inside, however long the section takes; the row a
\* crashed holder left, or one whose release failed, is only taken after its
\* lease.
SectionExclusive ==
    \A p, q \in Attempts : InSection(p) /\ InSection(q) => p = q

\* What an id stands for: the credit resolved by the attempt in the section that
\* carries it, from its pin or its validation on, or else its live ledger row.
Resolved(p) ==
    pc[p] \in {"consuming", "answering"} \/ (pc[p] = "fetching" /\ credit[p] # None)

Owner ==
    IF \E p \in Attempts : InSection(p) THEN CHOOSE p \in Attempts : InSection(p) ELSE None

Chosen ==
    [i \in Ids |->
        IF \E p \in Attempts : Resolved(p) /\ IdOf[p] = i
        THEN credit[CHOOSE p \in Attempts : Resolved(p) /\ IdOf[p] = i]
        ELSE Pinned(i)]

Aged == {i \in Ids : ledger[i].credit # None /\ ~ledger[i].fresh}

Promise == INSTANCE Redemption WITH owner <- Owner, chosen <- Chosen, aged <- Aged, sent <- sent

\* The lease, the heartbeat and the ledger implement Redemption: a retry that
\* carries the id of an earlier attempt, on any replica, after a crash or a lost
\* answer, consumes the credit the first attempt recorded and no other, until the
\* record is a day old.
RedeemsAsPromised == Promise!Spec

================================================================================
