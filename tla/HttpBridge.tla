----------------------------- MODULE HttpBridge -----------------------------
(***************************************************************************)
(* The registry of HTTP bridge sessions of one replica: looking a session  *)
(* up, creating it behind an in-flight marker, evicting and replacing it,  *)
(* submitting requests to it and retiring it                               *)
(* (proxy/_service/http_bridge: mixin.py, helpers.py, request_submit.py,   *)
(* upstream_events.py, account_sessions.py).                               *)
(*                                                                         *)
(* A step runs from one await that gives up the bridge lock to the next.   *)
(* A request creates at most one session and gets at most one response, so *)
(* requests, the sessions they create, the markers they publish and the    *)
(* responses they get have the same names.  What the durable row, the ring *)
(* and the account selection answer is chosen freely.                      *)
(***************************************************************************)
EXTENDS Integers, FiniteSets

CONSTANTS
    Requests,
    Keys,          \* affinity keys
    NoKey,
    None,
    InitialKey,    \* the key each request comes with
    PreviousOf,    \* the previous_response_id of each request, or None
    ForkKey,       \* the key of a request's own lane, NoKey if it never forks
    Rebinders,     \* requests with a turn state no alias knows
    HardKeys,      \* keys of strength "hard"
    MaxSessions,   \* max_sessions
    Leavers,       \* requests whose client may go away
    Fickle,        \* sessions whose account may become unavailable or change
    MayShutdown

VARIABLES
    bridge,   \* what _http_bridge_lock guards, see Bridges
    future,   \* the creation future each request published
    key,      \* the key each request looks up, and of the session it creates
    pc,       \* where each request is
    at,       \* the session it uses, or the marker it waits for
    evicted,  \* the sessions it still has to close before it goes on
    lease,    \* the sessions that hold an account lease
    retire,   \* the sessions with upstream_control.retire_after_drain
    active,   \* the sessions whose account takes requests
    down      \* close_all_http_bridge_sessions has run

vars == <<bridge, future, key, pc, at, evicted, lease, retire, active, down>>

\* A session is known by the request that created it.
SessionIds == Requests
Unanchored(r) == ForkKey[r] # NoKey

\* sess and mark are _http_bridge_sessions and _http_bridge_inflight_sessions,
\* index is _http_bridge_previous_response_index, ids the previous_response_ids
\* of each session, closing the sessions a close task runs for.
Bridges ==
    [sess: [Keys -> SessionIds \cup {None}], mark: [Keys -> Requests \cup {None}],
     index: [Requests -> Keys \cup {NoKey}], closed: SUBSET SessionIds,
     ids: [SessionIds -> SUBSET Requests], closing: SUBSET SessionIds]

Futures == {"none", "pending", "set", "failed", "cancelled"}
Stages == {"lookup", "wait", "capacity", "return", "forward", "create", "register",
           "got", "reopen", "admit", "sent", "cut", "landed", "done"}

\* Type correctness, and the creation futures belong to the markers: a marker
\* is pending, or was, under the key its publisher looked up.
HttpBridgeTypeOK ==
    /\ bridge \in Bridges
    /\ future \in [Requests -> Futures]
    /\ key \in [Requests -> Keys]
    /\ pc \in [Requests -> Stages]
    /\ at \in [Requests -> Requests \cup {None}]
    /\ evicted \in [Requests -> SUBSET SessionIds]
    /\ {lease, retire, active} \subseteq SUBSET SessionIds
    /\ down \in BOOLEAN
    /\ \A k \in Keys : bridge.mark[k] # None => future[bridge.mark[k]] = "pending"

Init ==
    /\ bridge = [sess |-> [k \in Keys |-> None], mark |-> [k \in Keys |-> None],
                 index |-> [p \in Requests |-> NoKey], closed |-> {},
                 ids |-> [s \in SessionIds |-> {}], closing |-> {}]
    /\ future = [r \in Requests |-> "none"]
    /\ key = InitialKey
    /\ pc = [r \in Requests |-> "lookup"]
    /\ at = [r \in Requests |-> None]
    /\ evicted = [r \in Requests |-> {}]
    /\ lease = {} /\ retire = {} /\ active = {}
    /\ down = FALSE

-----------------------------------------------------------------------------
\* The registry.

Registered(b) == {s \in SessionIds : \E k \in Keys : b.sess[k] = s}
Markers(b) == {r \in Requests : \E k \in Keys : b.mark[k] = r}

\* Mutant: the capacity test counts registered sessions only.
LoadWithoutMarkers(b) == Cardinality(Registered(b))

Load(b) == Cardinality(Registered(b)) + Cardinality(Markers(b))

Users(s, stages) == {r \in Requests : at[r] = s /\ pc[r] \in stages}
Waiters(s) == Users(s, {"admit"})
Pending(s) == Users(s, {"sent", "cut"})
Visible(s) == Users(s, {"admit", "sent", "cut"})
Reserving(s) == {r \in Users(s, {"got", "reopen"}) : Unanchored(r)}
RetiringVisible(s) == s \in retire /\ Visible(s) # {}

\* _unregister_http_bridge_previous_response_ids_locked
Unregister(b, s) ==
    LET current == b.sess[key[s]]
        kept(p) == current \notin {None, s} /\ p \in b.ids[current]
    IN [b EXCEPT
          !.index = [p \in Requests |->
              IF p \in b.ids[s] /\ ~kept(p) /\ @[p] = key[s] THEN NoKey ELSE @[p]],
          !.ids[s] = {}]

\* _detach_http_bridge_session_locked
Detach(b, s, mark) ==
    IF b.sess[key[s]] # s THEN b
    ELSE Unregister([b EXCEPT !.sess[key[s]] = None,
                              !.closed = IF mark THEN @ \cup {s} ELSE @], s)

\* Detached and handed to a background close.
Discard(b, s) == [Detach(b, s, TRUE) EXCEPT !.closing = @ \cup {s}]

\* Several sessions of different keys; their order does not matter.
DetachAll(b, gone) ==
    [b EXCEPT
       !.sess = [k \in Keys |-> IF @[k] \in gone THEN None ELSE @[k]],
       !.closed = @ \cup gone,
       !.index = [p \in Requests |->
           IF \E s \in gone : p \in b.ids[s] /\ @[p] = key[s] THEN NoKey ELSE @[p]],
       !.ids = [s \in SessionIds |-> IF s \in gone THEN {} ELSE @[s]]]

\* _prune_http_bridge_sessions_locked: idle are the sessions past their TTL.
Idle(b) == {s \in Registered(b) \ b.closed : Visible(s) = {} /\ Reserving(s) = {}}
Stale(b) == {s \in Registered(b) \cap b.closed : Waiters(s) = {}}

Pruned(b, idle) ==
    LET gone == Stale(b) \cup idle
    IN [DetachAll(b, gone) EXCEPT !.closing = @ \cup gone]

\* The capacity loop of the lookup: it evicts idle sessions until one more fits.
Excess(b) == Load(b) - MaxSessions + 1
Evictions(b) ==
    IF Excess(b) <= 0 THEN {{}}
    ELSE IF Cardinality(Idle(b)) <= Excess(b) THEN {Idle(b)}
    ELSE {gone \in SUBSET Idle(b) : Cardinality(gone) = Excess(b)}

\* _fail_http_bridge_inflight_session_creation, _evict_http_bridge_inflight_waiter
Unmark(b, r) == [b EXCEPT !.mark = [k \in Keys |-> IF @[k] = r THEN None ELSE @[k]]]
Settled(r, outcome) ==
    IF r \in Markers(bridge) THEN [future EXCEPT ![r] = outcome] ELSE future

Go(r, stage) == pc' = [pc EXCEPT ![r] = stage]
Moved(some, stage) == [r \in Requests |-> IF r \in some THEN stage ELSE pc[r]]

-----------------------------------------------------------------------------
\* _get_or_create_http_bridge_session: one pass over the block under the lock.
\* b is the registry as the pass has changed it so far.

Same == <<lease, retire, active, down>>

Leave(r, b) ==
    /\ bridge' = b
    /\ Go(r, "done")
    /\ UNCHANGED <<future, key, at, evicted, Same>>

\* _http_bridge_unanchored_parallel_fork_key
MustFork(r, b) ==
    LET s == b.sess[key[r]]
    IN /\ Unanchored(r)
       /\ key[r] # ForkKey[r]
       /\ \/ b.mark[key[r]] # None
          \/ s # None /\ s \notin b.closed /\ (Visible(s) # {} \/ Reserving(s) # {})

Fork(r, b) ==
    /\ bridge' = b
    /\ key' = [key EXCEPT ![r] = ForkKey[r]]
    /\ UNCHANGED <<future, pc, at, evicted, Same>>

\* A reservation of another request refuses the reuse of a retained session.
Reuse(r, b, s) ==
    /\ bridge' = b
    /\ IF Unanchored(r) /\ Reserving(s) # {}
       THEN Go(r, "done") /\ UNCHANGED at
       ELSE Go(r, "got") /\ at' = [at EXCEPT ![r] = s]
    /\ UNCHANGED <<future, key, evicted, Same>>

\* What the pass ends with when it raised nothing: the await it goes to.
Proceed(r, b, k, stage, target, gone) ==
    /\ bridge' = b
    /\ key' = [key EXCEPT ![r] = k]
    /\ Go(r, stage)
    /\ at' = [at EXCEPT ![r] = target]
    /\ evicted' = [evicted EXCEPT ![r] = gone]
    /\ UNCHANGED Same

\* Room is made and a marker published, whatever the request goes on to do:
\* create the session, return that of its previous response, be forwarded.
Admit(r, b, k, stage, s) ==
    \E gone \in Evictions(b) :
      LET left == DetachAll(b, gone)
      IN \/ /\ Load(left) < MaxSessions
            /\ Proceed(r, [left EXCEPT !.mark[k] = r], k, stage, s, gone)
            /\ future' = [future EXCEPT ![r] = "pending"]
         \/ /\ Load(left) >= MaxSessions
            /\ \E m \in Markers(left) :
                 IF stage = "create" THEN Proceed(r, left, k, "capacity", m, gone)
                                     ELSE Proceed(r, left, k, stage, s, gone)
            /\ UNCHANGED future
         \/ Load(left) >= MaxSessions /\ Markers(left) = {} /\ Leave(r, left)

\* From the in-flight marker on.  forward: another replica owns the key.
Resolve(r, b, forward) ==
    LET p == PreviousOf[r]
        asked == p # None /\ b.mark[key[r]] = None
        s == IF asked /\ b.index[p] # NoKey THEN b.sess[b.index[p]] ELSE None
        found == s \notin b.closed \cup {None} /\ s \in active
        left == IF asked /\ ~found THEN [b EXCEPT !.index[p] = NoKey] ELSE b
        k == IF found THEN key[s] ELSE key[r]
        m == b.mark[k]
        stage == IF forward THEN "forward" ELSE "create"
    IN IF found /\ m = None THEN Admit(r, left, k, "return", s)
       ELSE \/ (p # None \/ (r \in Rebinders /\ m = None)) /\ Leave(r, left)
            \/ /\ r \in Rebinders /\ m = None
               /\ Proceed(r, left, k, stage, None, {}) /\ UNCHANGED future
            \/ r \notin Rebinders /\ m = None /\ Admit(r, left, k, stage, None)
            \/ /\ m # None
               /\ IF forward THEN Proceed(r, left, k, "forward", None, {})
                             ELSE Proceed(r, left, k, "wait", m, {})
               /\ UNCHANGED future

\* The registered session the request cannot take.  One that retires stays
\* open for the requests it still serves.
Replaced(b, s) ==
    IF s \notin active THEN b
    ELSE IF RetiringVisible(s) THEN Detach(b, s, FALSE)
    ELSE Discard(b, s)

\* Whether a usable session fits the request (model, tier, API key, preferred
\* account), what the durable row says, and what the drain and owner checks
\* say is left open.
Lookup(r) ==
    /\ pc[r] = "lookup"
    /\ \E idle \in SUBSET Idle(bridge) :
         LET b == Pruned(bridge, idle)
             s == b.sess[key[r]]
             reusable == s \in active \ retire
             left == IF s = None THEN b ELSE Replaced(b, s)
         IN IF MustFork(r, b) THEN Fork(r, b)
            ELSE \/ s # None /\ reusable /\ Reuse(r, b, s)
                 \/ s \in b.closed /\ Leave(r, b)
                 \/ /\ s \notin b.closed \/ reusable
                    /\ \/ Leave(r, left)
                       \/ \E forward \in BOOLEAN :
                            Resolve(r, IF left.sess[key[r]] = None THEN left ELSE Discard(left, s),
                                    forward)

\* _close_http_bridge_session_bounded for the evicted sessions, one by one; a
\* client that leaves meanwhile fails the marker the request published.
CloseEvicted(r) ==
    \E s \in evicted[r] :
      /\ bridge' = [bridge EXCEPT !.closing = @ \cup {s}]
      /\ evicted' = [evicted EXCEPT ![r] = @ \ {s}]
      /\ UNCHANGED <<future, key, pc, at, Same>>

LeaveEvicting(r) ==
    \E s \in evicted[r] :
      /\ r \in Leavers
      /\ bridge' = [Unmark(bridge, r) EXCEPT !.closing = @ \cup {s}]
      /\ future' = Settled(r, "cancelled")
      /\ evicted' = [evicted EXCEPT ![r] = {}]
      /\ Go(r, "done")
      /\ UNCHANGED <<key, at, Same>>

ReadyIn(r, stages) == pc[r] \in stages /\ evicted[r] = {}
Ready(r, stage) == pc[r] = stage /\ evicted[r] = {}

\* The two returns between the block and the creation.
ReturnPrevious(r) ==
    /\ Ready(r, "return")
    /\ Go(r, "got")
    /\ UNCHANGED <<bridge, future, key, at, evicted, Same>>

ReturnForward(r) ==
    /\ Ready(r, "forward")
    /\ Go(r, "done")
    /\ UNCHANGED <<bridge, future, key, at, evicted, Same>>

-----------------------------------------------------------------------------
\* Creation and the requests that wait for it.

Created(r) ==
    /\ Ready(r, "create")
    /\ lease' = lease \cup {r}
    /\ active' = active \cup {r}
    /\ Go(r, "register")
    /\ UNCHANGED <<bridge, future, key, at, evicted, retire, down>>

\* Mutant: a creation that ends badly settles its future and leaves the marker.
CreateFailsKeepingMarker(r, outcome) ==
    /\ outcome = "cancelled" => r \in Leavers
    /\ ReadyIn(r, {"create", "register"})
    /\ bridge' = IF pc[r] = "create" THEN bridge
                 ELSE [bridge EXCEPT !.closed = @ \cup {r}, !.closing = @ \cup {r}]
    /\ future' = Settled(r, outcome)
    /\ Go(r, "done")
    /\ UNCHANGED <<key, at, evicted, Same>>

\* The except branch of the creation: an upstream or claim that failed, or a
\* client that left.  A session that was made is closed.
CreateFails(r, outcome) ==
    /\ outcome = "cancelled" => r \in Leavers
    /\ ReadyIn(r, {"create", "register"})
    /\ LET b == Unmark(bridge, r)
       IN bridge' = IF pc[r] = "create" THEN b
                    ELSE [b EXCEPT !.closed = @ \cup {r}, !.closing = @ \cup {r}]
    /\ future' = Settled(r, outcome)
    /\ Go(r, "done")
    /\ UNCHANGED <<key, at, evicted, Same>>

\* The session is registered only behind the marker of its own creation; a
\* request that published none finds no marker.
Register(r) ==
    /\ Ready(r, "register")
    /\ IF bridge.mark[key[r]] = IF future[r] = "none" THEN None ELSE r
       THEN /\ bridge' = [Unmark(bridge, r) EXCEPT !.sess[key[r]] = r]
            /\ future' = Settled(r, "set")
            /\ at' = [at EXCEPT ![r] = r]
            /\ Go(r, "got")
       ELSE /\ bridge' = [bridge EXCEPT !.closed = @ \cup {r}, !.closing = @ \cup {r}]
            /\ Go(r, "done")
            /\ UNCHANGED <<future, at>>
    /\ UNCHANGED <<key, evicted, Same>>

Again(r, b) ==
    /\ bridge' = b
    /\ Go(r, "lookup")
    /\ UNCHANGED <<future, key, at, evicted, Same>>

\* A waiter takes the created session, or replaces it and looks again.
WaitSucceeds(r) ==
    /\ Ready(r, "wait")
    /\ future[at[r]] = "set"
    /\ LET s == at[r]
           usable == s \notin bridge.closed /\ s \in active
       IN \/ /\ usable /\ s \notin retire
             /\ Go(r, "got")
             /\ UNCHANGED <<bridge, future, key, at, evicted, Same>>
          \/ Again(r, IF usable /\ bridge.sess[key[s]] = s THEN Replaced(bridge, s) ELSE bridge)

CapacityFreed(r) ==
    /\ Ready(r, "capacity")
    /\ future[at[r]] \in {"set", "failed"}
    /\ Again(r, bridge)

WaitCancelled(r) ==
    /\ ReadyIn(r, {"wait", "capacity"})
    /\ future[at[r]] = "cancelled"
    /\ Again(r, bridge)

WaitFails(r) ==
    /\ ReadyIn(r, {"wait", "capacity"})
    /\ future[at[r]] = "failed"
    /\ Leave(r, bridge)

\* Mutant: the timeout fails the future and leaves the marker.
WaitTimesOutKeepingMarker(r) ==
    /\ ReadyIn(r, {"wait", "capacity"})
    /\ future[at[r]] = "pending"
    /\ future' = Settled(at[r], "failed")
    /\ Go(r, "done")
    /\ UNCHANGED <<bridge, key, at, evicted, Same>>

\* The wait timed out: the marker it watched is removed and its future failed.
WaitTimesOut(r) ==
    /\ ReadyIn(r, {"wait", "capacity"})
    /\ future[at[r]] = "pending"
    /\ bridge' = Unmark(bridge, at[r])
    /\ future' = Settled(at[r], "failed")
    /\ Go(r, "done")
    /\ UNCHANGED <<key, at, evicted, Same>>

LeaveWaiting(r) ==
    /\ r \in Leavers
    /\ ReadyIn(r, {"wait", "capacity", "got"})
    /\ Leave(r, bridge)

-----------------------------------------------------------------------------
\* _submit_http_bridge_request and the life of a session.

\* _retire_stale_pending_http_bridge_session
Retired(b, s) ==
    [Detach(b, s, TRUE) EXCEPT !.closed = @ \cup {s}, !.closing = @ \cup {s}]

\* _retire_http_bridge_after_drain_if_ready: others are the requests it serves.
\* The registry keeps the closed session for the next prune.
DrainedClose(b, s, others) ==
    IF others = {} THEN [b EXCEPT !.closed = @ \cup {s}, !.closing = @ \cup {s}] ELSE b

Locked(s) == \E r \in Requests : at[r] = s /\ pc[r] = "reopen"

Submit(r) ==
    /\ Ready(r, "got")
    /\ LET s == at[r]
           current == bridge.sess[key[s]]
       IN \/ /\ s \in bridge.closed /\ ~Locked(s)
             /\ IF current = None /\ key[s] \in HardKeys THEN Go(r, "done")
                                                         ELSE Go(r, "reopen")
             /\ UNCHANGED bridge
          \/ /\ s \notin bridge.closed /\ s \in retire
             /\ bridge' = DrainedClose(bridge, s, Visible(s))
             /\ Go(r, "done")
          \/ /\ s \notin bridge.closed /\ s \notin retire
             /\ Go(r, "admit")
             /\ UNCHANGED bridge
    /\ UNCHANGED <<future, key, at, evicted, Same>>

\* _reconnect_http_bridge_session: a new upstream, lease and control; what was
\* pending on the old upstream gets no further event.
Reconnect(s) ==
    /\ bridge' = [bridge EXCEPT !.closed = @ \ {s}]
    /\ lease' = lease \cup {s}
    /\ active' = active \cup {s}
    /\ retire' = retire \ {s}

Cut(s) == Moved(Users(s, {"sent"}), "cut")

Reopen(r) ==
    /\ pc[r] = "reopen"
    /\ \/ /\ Reconnect(at[r])
          /\ pc' = [Cut(at[r]) EXCEPT ![r] = "admit"]
       \/ /\ Go(r, "done")
          /\ UNCHANGED <<bridge, lease, active, retire>>
    /\ UNCHANGED <<future, key, at, evicted, down>>

\* _cleanup_http_bridge_submit_interruption
Interrupted(b, r) ==
    LET s == at[r]
    IN IF s \in b.closed /\ Waiters(s) \subseteq {r} THEN Retired(b, s) ELSE b

\* Behind the response-create gate, under the lifecycle lock.
Admitted(r) ==
    /\ pc[r] = "admit"
    /\ ~Locked(at[r])
    /\ LET s == at[r]
           current == bridge.sess[key[s]]
           gone == \/ current \notin {None, s}
                   \/ current = None /\ key[s] \in HardKeys
       IN \/ /\ s \notin bridge.closed /\ ~gone
             /\ \/ Go(r, "sent") /\ UNCHANGED bridge
                \/ /\ Go(r, "done")   \* the send failed
                   /\ bridge' = Interrupted([bridge EXCEPT !.closed = @ \cup {s}], r)
             /\ UNCHANGED <<lease, active, retire>>
          \/ /\ s \in bridge.closed /\ current = s
             /\ Reconnect(s)
             /\ pc' = [Cut(s) EXCEPT ![r] = "sent"]
          \/ /\ s \in bridge.closed \/ gone
             /\ bridge' = Interrupted(bridge, r)
             /\ Go(r, "done")
             /\ UNCHANGED <<lease, active, retire>>
    /\ UNCHANGED <<future, key, at, evicted, down>>

\* The gate timed out or the client left while it waited for admission.
LeaveAdmission(r) ==
    /\ pc[r] = "admit"
    /\ Leave(r, Interrupted(bridge, r))

\* The terminal event takes the request from the pending ones; its response
\* is registered under the bridge lock afterwards.
Completes(r) ==
    /\ pc[r] = "sent"
    /\ at[r] \notin bridge.closed
    /\ Go(r, "landed")
    /\ UNCHANGED <<bridge, future, key, at, evicted, Same>>

\* _register_http_bridge_previous_response_id, then the reader's retirement.
RegisterResponse(r) ==
    /\ pc[r] = "landed"
    /\ LET s == at[r]
           mapped == s \notin bridge.closed
                     /\ (s \notin retire \/ bridge.sess[key[s]] = s)
           b == IF mapped THEN [bridge EXCEPT !.index[r] = key[s],
                                              !.ids[s] = @ \cup {r}] ELSE bridge
       IN Leave(r, IF s \in retire THEN DrainedClose(b, s, Visible(s)) ELSE b)

\* _detach_http_bridge_request: the client left before the terminal event.
LeaveStreaming(r) ==
    /\ r \in Leavers
    /\ pc[r] \in {"sent", "cut"}
    /\ LET s == at[r]
       IN /\ retire' = retire \cup {s}
          /\ bridge' = DrainedClose(bridge, s, Visible(s) \ {r})
    /\ Go(r, "done")
    /\ UNCHANGED <<future, key, at, evicted, lease, active, down>>

\* _fail_http_bridge_reader_and_maybe_retire: the upstream closed or timed out.
UpstreamLost(s) ==
    /\ s \in lease
    /\ ~Locked(s)
    /\ LET b == [bridge EXCEPT !.closed = @ \cup {s}]
       IN bridge' = IF Waiters(s) = {} THEN Retired(b, s) ELSE b
    /\ pc' = Moved(Pending(s), "done")
    /\ UNCHANGED <<future, key, at, evicted, Same>>

\* _close_http_bridge_session from the await of its unregistration on.
FinishClose(s) ==
    /\ s \in bridge.closing
    /\ bridge' = [Unregister(bridge, s) EXCEPT !.closing = @ \ {s}, !.closed = @ \cup {s}]
    /\ lease' = lease \ {s}
    /\ pc' = Moved(Pending(s), "done")
    /\ UNCHANGED <<future, key, at, evicted, retire, active, down>>

\* The account of a session stops taking requests.
AccountUnavailable(s) ==
    /\ s \in active \cap Fickle
    /\ active' = active \ {s}
    /\ UNCHANGED <<bridge, future, key, pc, at, evicted, lease, retire, down>>

\* close_http_bridge_sessions_for_account
CloseForAccount(s) ==
    /\ s \in Fickle
    /\ s \in Registered(bridge)
    /\ bridge' = Discard(bridge, s)
    /\ UNCHANGED <<future, key, pc, at, evicted, Same>>

\* close_all_http_bridge_sessions
CloseAll ==
    /\ MayShutdown /\ ~down
    /\ down' = TRUE
    /\ future' = [r \in Requests |-> IF r \in Markers(bridge) THEN "failed" ELSE future[r]]
    /\ bridge' = [bridge EXCEPT
                    !.sess = [k \in Keys |-> None], !.mark = [k \in Keys |-> None],
                    !.index = [p \in Requests |-> NoKey],
                    !.closed = @ \cup Registered(bridge),
                    !.closing = @ \cup Registered(bridge)]
    /\ UNCHANGED <<key, pc, at, evicted, lease, retire, active>>

Next ==
    \/ \E r \in Requests :
         \/ Lookup(r) \/ CloseEvicted(r) \/ LeaveEvicting(r)
         \/ ReturnPrevious(r) \/ ReturnForward(r)
         \/ Created(r) \/ Register(r)
         \/ \E outcome \in {"failed", "cancelled"} : CreateFails(r, outcome)
         \/ WaitSucceeds(r) \/ CapacityFreed(r) \/ WaitCancelled(r) \/ WaitFails(r)
         \/ WaitTimesOut(r) \/ LeaveWaiting(r)
         \/ Submit(r) \/ Reopen(r) \/ Admitted(r) \/ LeaveAdmission(r)
         \/ Completes(r) \/ RegisterResponse(r) \/ LeaveStreaming(r)
    \/ \E s \in SessionIds :
         UpstreamLost(s) \/ FinishClose(s) \/ AccountUnavailable(s) \/ CloseForAccount(s)
    \/ CloseAll

Spec == Init /\ [][Next]_vars

\* A task that holds the CPU or whose await ends goes on: futures, timeouts and
\* the budget of a request end every wait.
Progress(r) ==
    \/ Lookup(r) \/ CloseEvicted(r) \/ ReturnPrevious(r) \/ ReturnForward(r)
    \/ Created(r) \/ CreateFails(r, "failed") \/ Register(r)
    \/ WaitSucceeds(r) \/ CapacityFreed(r) \/ WaitCancelled(r) \/ WaitFails(r)
    \/ WaitTimesOut(r)
    \/ Submit(r) \/ Reopen(r) \/ Admitted(r) \/ Completes(r) \/ RegisterResponse(r)

\* A close task runs; the reader gives up on an upstream that owes a response.
Ends(s) == FinishClose(s) \/ (Pending(s) # {} /\ UpstreamLost(s))

-----------------------------------------------------------------------------
\* Properties.

\* Sessions registered without a marker of their own: the local rebind of a
\* turn state whose alias is lost creates one outside the capacity test.
Rebound == {r \in Requests : future[r] = "none" /\ at[r] = r}

\* max_sessions bounds the registered sessions and the creations in flight,
\* apart from the sessions of a local rebind.
CapacityKept ==
    Cardinality(Registered(bridge) \ Rebound) + Cardinality(Markers(bridge)) <= MaxSessions

\* A marker in the registry is one whose publisher is at work on the session:
\* nobody waits on a creation that can never complete.
MarkerHasCreator ==
    \A r \in Markers(bridge) : pc[r] \in {"return", "forward", "create", "register"}

\* Every request comes to an end: it completes, is refused, is forwarded or fails.
RequestEnds == \A r \in Requests : <>(pc[r] = "done")

=============================================================================
