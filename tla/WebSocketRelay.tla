--------------------------- MODULE WebSocketRelay ---------------------------
(***************************************************************************)
(* One client WebSocket relayed to upstream WebSockets.                    *)
(*                                                                         *)
(* Two tasks share the state of a client connection.  The loop receives    *)
(* the client's requests one at a time, waits for the gate that lets one   *)
(* response.create at a time be without its response.created, appends the  *)
(* request to the pending list, opens an upstream socket when there is     *)
(* none, and sends.  The reader of the current socket matches upstream     *)
(* frames to pending requests, relays them, and ends when the socket is    *)
(* lost or must be replaced.  A request whose client has seen nothing may  *)
(* be replayed: the reader takes it off the pending list and parks it in   *)
(* the control record of its socket, and the loop picks it up there when   *)
(* it collects the reader.                                                 *)
(*                                                                         *)
(* A response is named by the request it answers.  Upstream is assumed to  *)
(* create the responses of a socket in the order of its requests.          *)
(***************************************************************************)
EXTENDS Integers, Sequences, FiniteSets, Functions

CONSTANTS
  Requests,
  Accounts,
  Authorized,   \* accounts with security_work_authorized
  None,
  Shapes,       \* the continuity the requests may start with, see Fresh
  Kinds,        \* the errors upstream answers a request with, see Failed
  MaxSockets,   \* bound: upstream sockets opened
  MaxTries      \* _WEBSOCKET_MAX_ACCOUNT_ATTEMPTS

ASSUME RelayAssumption ==
  /\ None \notin Requests \cup Accounts
  /\ Shapes \subseteq [Requests -> [anchored: BOOLEAN, injected: BOOLEAN, safe: BOOLEAN,
                                    owner: Accounts \cup {None}]]

VARIABLE w      \* the connection: its loop, socket, reader, pending list and requests

NoSocket == [account |-> None, open |-> FALSE, reader |-> "none", reconnect |-> FALSE,
             parked |-> None, wire |-> <<>>]

(* numbered: upstream frames carry a sequence_number.                        *)
(* shape.anchored: previous_response_id; .injected: the proxy put it there; *)
(* .safe: a self-contained body without it is at hand; .owner: the account  *)
(* the request prefers.                                                     *)
Fresh(shape) ==
  [shape |-> shape, reserved |-> FALSE, gate |-> FALSE, awaiting |-> FALSE, lease |-> FALSE,
   rid |-> None, seq |-> FALSE, visible |-> FALSE, replays |-> 0,
   refreshed |-> {}, excluded |-> {}, force |-> None, secure |-> FALSE, reattach |-> FALSE,
   sent |-> FALSE]

RelayInit ==
  \E shape \in Shapes, numbered \in BOOLEAN :
    w = [numbered |-> numbered, pc |-> "receive", req |-> None, replay |-> None,
         tried |-> {}, up |-> NoSocket, slot |-> None, pend |-> <<>>, client |-> "open",
         sockets |-> 0, permits |-> 1, asked |-> {}, t |-> [r \in Requests |-> Fresh(shape[r])]]

InPend(x, r) == r \in Range(x.pend)

Without(seq, r) == SelectSeq(seq, LAMBDA q : q # r)

Others(x, r) == { q \in Requests \ {r} : InPend(x, q) }

Holders(x) == { r \in Requests : x.t[r].gate }

-----------------------------------------------------------------------------
(* Changes several handlers make *)

(* _release_websocket_response_create_gate: the account's create slot, the   *)
(* admission and the gate.                                                   *)
ReleaseGate(x, r) ==
  [x EXCEPT !.t[r].lease = FALSE, !.t[r].awaiting = FALSE, !.t[r].gate = FALSE,
            !.permits = IF x.t[r].gate THEN @ + 1 ELSE @]

(* _release_websocket_request_state_reservation *)
Unreserve(x, r) == [x EXCEPT !.t[r].reserved = FALSE]

(* The request ends with a terminal event for the client: its reservation     *)
(* and gate go back.                                                          *)
Ended(x, r) == ReleaseGate(Unreserve(x, r), r)

(* _fail_pending_websocket_requests: every pending request is failed. *)
FailAll(x) ==
  [x EXCEPT !.pend = <<>>,
            !.permits = @ + Cardinality({ r \in Holders(x) : InPend(x, r) }),
            !.t = [r \in Requests |->
                     IF ~InPend(x, r) THEN @[r]
                     ELSE [@[r] EXCEPT !.reserved = FALSE, !.gate = FALSE, !.awaiting = FALSE,
                                       !.lease = FALSE]]]

(* The failure of a socket: a client that saw numbered frames of a pending    *)
(* request is not told; its socket is closed instead.                         *)
FailSequenced(x) ==
  LET quiet == \E r \in Requests : InPend(x, r) /\ x.t[r].seq
  IN  [FailAll(x) EXCEPT !.client = IF quiet /\ @ = "open" THEN "closed" ELSE @]

(* release_current_account_lease, and the loop forgets its socket. *)
DropSocket(x) == [x EXCEPT !.up = NoSocket, !.slot = None]

(* Mutant: the lease of a collected socket is kept. *)
CollectedKeepingSlot(x) ==
  [x EXCEPT !.up = NoSocket, !.replay = IF @ = None THEN x.up.parked ELSE @]

(* The loop collects a reader that is done, and takes what it parked. *)
Collected(x) == DropSocket([x EXCEPT !.replay = IF @ = None THEN x.up.parked ELSE @])

(* Mutant: a request the client saw numbered frames of is replayed. *)
CanReplaySequenced(x, r) ==
  LET q == x.t[r] IN
  /\ q.replays < 1 /\ ~q.visible
  /\ \/ q.rid = None /\ q.awaiting /\ (q.shape.anchored => q.shape.safe)
     \/ q.rid # None /\ ~q.awaiting /\ (q.shape.anchored => q.shape.safe)

(* _websocket_request_can_replay_before_visible_output *)
CanReplay(x, r) ==
  LET q == x.t[r] IN
  /\ q.replays < 1 /\ ~q.seq /\ ~q.visible
  /\ \/ q.rid = None /\ q.awaiting /\ (q.shape.anchored => q.shape.safe)
     \/ q.rid # None /\ ~q.awaiting /\ (q.shape.anchored => q.shape.safe)

(* The self-contained body replaces the one with the anchor. *)
Unanchored(shape) == [shape EXCEPT !.anchored = FALSE, !.injected = FALSE, !.safe = FALSE]

(* What every replay resets. *)
Again(q) == [q EXCEPT !.replays = @ + 1, !.awaiting = TRUE, !.rid = None]

(* The body without the anchor, where it is at hand. *)
SelfContained(q) == [q EXCEPT !.shape = IF @.safe THEN Unanchored(@) ELSE @]

(* _pop_replayable_precreated_websocket_request_state *)
Replayable(x) == Len(x.pend) = 1 /\ CanReplay(x, Head(x.pend))

Popped(x) == [x EXCEPT !.pend = <<>>, !.t[Head(x.pend)] = Again(SelfContained(@))]

-----------------------------------------------------------------------------
(* The loop: proxy_responses_websocket *)

(* The loop is done with the request it had in hand. *)
Back(x) == [x EXCEPT !.req = None, !.pc = "receive"]

(* The top of the loop: a reader that is done is collected. *)
Collect ==
  /\ w.pc = "receive" /\ w.up.reader = "done"
  /\ w' = Collected(w)

(* What was parked is taken before another message of the client. *)
TakeReplay ==
  /\ w.pc = "receive" /\ w.up.reader # "done" /\ w.replay # None
  /\ w' = [w EXCEPT !.replay = None, !.req = w.replay, !.t[w.replay].reattach = TRUE, !.pc = "take"]

(* Once it has the lock it is pending again; without another wait the loop    *)
(* looks at the reader.                                                       *)
Rejoin ==
  /\ w.pc = "take"
  /\ w' = [w EXCEPT !.pend = Append(@, w.req),
                    !.pc = IF w.up.reader = "done" \/ (w.up.reader # "none" /\ w.up.reconnect)
                           THEN "collect" ELSE "owner"]

(* A response.create is received: its usage is reserved, or it is refused at  *)
(* once.  A full resend waits, unreserved, for the pending list to empty.     *)
Receive(r) ==
  /\ w.pc = "receive" /\ w.replay = None /\ w.client = "open" /\ r \notin w.asked
  /\ LET x == [w EXCEPT !.asked = @ \cup {r}] IN
     \/ w' = x
     \/ w' = [x EXCEPT !.req = r, !.t[r].reserved = TRUE, !.pc = "collect"]
     \/ /\ w.pend # <<>> /\ ~w.t[r].shape.anchored
        /\ w' = [x EXCEPT !.req = r, !.pc = "gap"]

(* _wait_for_websocket_continuity_gap returns, at the latest when the budget  *)
(* is spent, and the request is prepared again.                               *)
GapEnds ==
  /\ w.pc = "gap"
  /\ \/ w' = [w EXCEPT !.t[w.req].reserved = TRUE, !.pc = "collect"]
     \/ w' = Back(w)

(* The reader is collected if it is done, and awaited if its socket is to be  *)
(* replaced.                                                                  *)
CollectAgain ==
  /\ w.pc = "collect"
  /\ w.up.reader \in {"none", "done"} \/ ~w.up.reconnect
  /\ w' = [(IF w.up.reader = "done" THEN Collected(w) ELSE w) EXCEPT !.pc = "owner"]

(* The finally block of the loop. *)
Finally(x) ==
  LET y == IF x.replay = None THEN x ELSE ReleaseGate(Unreserve(x, x.replay), x.replay) IN
  [DropSocket(FailAll(y)) EXCEPT !.replay = None, !.req = None,
                                               !.pc = "left", !.client = "gone"]

(* The account of the anchor is looked up; the lookup may fail.  A replay was *)
(* put on the pending list when it was taken, and is not admitted again.      *)
ResolveOwner ==
  /\ w.pc = "owner"
  /\ LET r == w.req
         shape == w.t[r].shape
         on(x) == [x EXCEPT !.pc = IF x.t[r].reattach THEN "switch" ELSE "gate"]
     IN  IF shape.anchored /\ shape.owner = None
         THEN \/ \E a \in Accounts \cup {None} : w' = on([w EXCEPT !.t[r].shape.owner = a])
              \/ w' = Back(Unreserve(w, r))
         ELSE w' = on(w)

(* A full resend while a response the client sees is still streaming. *)
ResendConflicts ==
  /\ w.pc = "owner" /\ ~w.t[w.req].shape.anchored
  /\ \E q \in Others(w, w.req) : w.t[q].visible
  /\ w' = Back(Unreserve(w, w.req))

(* _acquire_request_state_response_create_admission *)
Admit ==
  /\ w.pc = "gate" /\ w.permits > 0
  /\ w' = [w EXCEPT !.permits = @ - 1, !.t[w.req].gate = TRUE, !.t[w.req].awaiting = TRUE,
                    !.pend = Append(@, w.req), !.pc = "switch"]

(* The wait for the gate times out, or the proxy is overloaded. *)
AdmissionFails ==
  /\ w.pc = "gate"
  /\ w' = Back(Ended(w, w.req))

(* Mutant: the owner of the anchor is not compared with the socket's account. *)
SwitchIgnoringOwner ==
  /\ w.pc = "switch"
  /\ w' = [w EXCEPT !.pc = IF w.up.account = None THEN "connect" ELSE "send"]

(* A request another account must serve retires the socket, unless another    *)
(* request is pending on it.                                                  *)
Switch ==
  /\ w.pc = "switch"
  /\ LET r == w.req
         owner == w.t[r].shape.owner
     IN  IF w.up.account # None /\ owner # None /\ owner # w.up.account
         THEN IF Others(w, r) # {}
              THEN w' = Back(Ended([w EXCEPT !.pend = Without(@, r)], r))
              ELSE w' = [DropSocket(w) EXCEPT !.pc = "connect"]
         ELSE w' = [w EXCEPT !.pc = IF w.up.account = None THEN "connect" ELSE "send"]

(* The request must be served by the account it prefers. *)
Pinned(q) == q.shape.anchored /\ q.shape.owner # None

(* Another account than the one a replay was to be tried on again. *)
Selected(q, a) ==
  [q EXCEPT !.force = IF @ = a THEN @ ELSE None,
            !.shape.owner = IF q.force # None /\ q.force # a /\ @ = q.force THEN None ELSE @]

(* _connect_proxy_websocket selects an account, with a stream lease of it. *)
SelectAccount(a) ==
  LET r == w.req
      q == w.t[r]
  IN
  /\ w.pc = "connect" /\ Cardinality(w.tried) < MaxTries /\ w.sockets < MaxSockets
  /\ a \notin q.excluded \cup w.tried
  /\ q.secure => a \in Authorized
  /\ Pinned(q) => a = q.shape.owner
  /\ w' = [w EXCEPT !.slot = a, !.pc = "opening",
                    !.t[r] = Selected(@, a)]

(* The connect attempt is given up: the request is failed and taken off the   *)
(* list.  Telling a client that is gone ends the loop.                        *)
ConnectGivenUp(x) ==
  LET r == x.req
      y == Ended([x EXCEPT !.pend = Without(@, r), !.tried = {}, !.slot = None], r)
  IN  IF x.client = "open" THEN Back(y) ELSE Finally(y)

(* No account, or none the request may move to. *)
SelectFails ==
  /\ w.pc = "connect"
  /\ w' = ConnectGivenUp(w)

(* Refresh contention, or an error the next account may not have. *)
TryNext ==
  /\ w.pc = "opening"
  /\ w' = [w EXCEPT !.tried = @ \cup {w.slot}, !.slot = None, !.pc = "connect"]

(* An error that is surfaced, or the budget is spent. *)
OpenFails ==
  /\ w.pc = "opening"
  /\ w' = ConnectGivenUp(w)

(* The socket is open. *)
Opened ==
  /\ w.pc = "opening"
  /\ w' = [w EXCEPT !.up = [NoSocket EXCEPT !.account = w.slot, !.open = TRUE, !.reader = "run"],
                    !.tried = {}, !.sockets = @ + 1, !.t[w.req].force = None, !.pc = "send"]

(* The request is written to the socket, with a create slot of the account. *)
Send ==
  /\ w.pc = "send" /\ w.up.open
  /\ w' = Back([w EXCEPT !.t[w.req].lease = TRUE, !.t[w.req].sent = TRUE,
                         !.up.wire = Append(@, [r |-> w.req, created |-> FALSE])])

(* The account has no create slot left, or the body is too large. *)
SendRefused ==
  /\ w.pc = "send"
  /\ w' = Back(Ended([w EXCEPT !.pend = Without(@, w.req)], w.req))

(* The write fails: whatever is pending is failed, and the socket is dropped  *)
(* with its reader.                                                           *)
SendFails ==
  /\ w.pc = "send"
  /\ w' = Back(DropSocket(FailSequenced([w EXCEPT !.t[w.req].lease = TRUE])))

(* Something before the write fails. *)
SendCrashes ==
  /\ w.pc = "send"
  /\ w' = Back(DropSocket(IF Replayable(w) THEN [Popped(w) EXCEPT !.replay = Head(w.pend)]
                          ELSE FailSequenced(w)))

(* The client is gone, or idle with nothing pending. *)
Leave ==
  /\ w.pc = "receive" /\ w.replay = None
  /\ w.client # "open" \/ w.pend = <<>>
  /\ w' = Finally(w)

(* The client disconnects. *)
Disconnect ==
  /\ w.client = "open" /\ w.pc # "left"
  /\ w' = [w EXCEPT !.client = "gone"]

-----------------------------------------------------------------------------
(* The reader of the socket: _relay_upstream_websocket_messages *)

Reading == w.up.reader = "run" /\ w.up.open

(* Requests of this socket upstream has not answered. *)
Entries == 1..Len(w.up.wire)

Uncreated == { i \in Entries : ~w.up.wire[i].created }

NextUncreated == CHOOSE i \in Uncreated : \A j \in Uncreated : i <= j

First(x, P(_)) ==
  LET hits == SelectSeq(x.pend, P) IN IF hits = <<>> THEN None ELSE Head(hits)

(* _find_websocket_request_state_by_response_id *)
ById(x, o) == First(x, LAMBDA r : x.t[r].rid = o)

(* A reader whose socket is to be replaced stops once nothing is pending or   *)
(* a replay is parked.                                                        *)
Stops(x) ==
  IF x.up.reconnect /\ (x.up.parked # None \/ x.pend = <<>>)
  THEN [x EXCEPT !.up.reader = "stopping", !.up.open = FALSE] ELSE x

(* response.created goes to the first pending request without a response id. *)
Created ==
  /\ Reading /\ Uncreated # {} /\ w.client = "open"
  /\ LET i == NextUncreated
         o == w.up.wire[i].r
         r == IF ById(w, o) # None THEN ById(w, o) ELSE First(w, LAMBDA q : w.t[q].rid = None)
         x == [w EXCEPT !.up.wire[i].created = TRUE]
     IN  w' = Stops(IF r = None THEN x
                    ELSE ReleaseGate([x EXCEPT !.t[r].rid = o, !.t[r].seq = @ \/ w.numbered], r))

(* Text of the response. *)
Frame(i) ==
  /\ Reading /\ i \in Entries /\ w.up.wire[i].created /\ w.client = "open"
  /\ LET r == ById(w, w.up.wire[i].r) IN
     /\ r # None
     /\ w' = Stops([w EXCEPT !.t[r].visible = TRUE, !.t[r].seq = @ \/ w.numbered])

WithoutEntry(x, i) == [x EXCEPT !.up.wire = SubSeq(@, 1, i - 1) \o SubSeq(@, i + 1, Len(@))]

(* response.completed or response.incomplete *)
Completes(i) ==
  /\ Reading /\ i \in Entries /\ w.up.wire[i].created /\ w.client = "open"
  /\ LET r == ById(w, w.up.wire[i].r)
         x == WithoutEntry(w, i)
     IN  w' = Stops(IF r = None THEN x
                    ELSE Ended([x EXCEPT !.pend = Without(@, r)], r))

(* The request an error before response.created is of: the only one pending,  *)
(* or the only one without a response id.                                     *)
Anonymous(x) ==
  LET unresolved == SelectSeq(x.pend, LAMBDA r : x.t[r].rid = None) IN
  IF Len(x.pend) = 1 THEN Head(x.pend)
  ELSE IF Len(unresolved) = 1 THEN Head(unresolved) ELSE None

(* The request an error of response o is of: the one with this id, or the     *)
(* only one that awaits its response.                                         *)
OfResponse(x, o) ==
  LET awaiting == SelectSeq(x.pend, LAMBDA r : x.t[r].rid = None /\ x.t[r].awaiting) IN
  IF ById(x, o) # None THEN ById(x, o)
  ELSE IF Len(awaiting) = 1 THEN Head(awaiting) ELSE None

(* _websocket_precreated_retry_error_code, but for the error itself *)
Precreated(x, r) ==
  LET q == x.t[r] IN ~q.seq /\ x.pend = <<>> /\ q.rid = None /\ q.awaiting

Parked(x, r) == [x EXCEPT !.up.reconnect = TRUE, !.up.parked = r]

(* A request may move to another account: it names no response of this one,   *)
(* or the proxy added the anchor and has the body without it.                 *)
Movable(shape) == shape.anchored => shape.injected /\ shape.safe

(* An authentication error: account a is refreshed once, then excluded; an    *)
(* expired session excludes it at once.                                       *)
Reauthenticated(q, a, expired) ==
  LET shape == IF q.shape.injected /\ q.shape.safe THEN Unanchored(q.shape) ELSE q.shape
      once == ~expired /\ a \notin q.refreshed
  IN  [q EXCEPT !.shape = [shape EXCEPT !.owner = IF once THEN a ELSE None],
                !.force = IF once THEN a ELSE None,
                !.refreshed = IF once THEN @ \cup {a} ELSE @,
                !.excluded = IF once THEN @ ELSE @ \cup {a}]

AuthReplay(x, r, expired) ==
  Parked([x EXCEPT !.t[r] = Again(Reauthenticated(@, x.up.account, expired))], r)

(* An error of account a or of the service: the same body again, or the one   *)
(* without the anchor on another account.                                     *)
Retried(q, a) ==
  IF Pinned(q)
  THEN [q EXCEPT !.lease = FALSE, !.excluded = @ \cup {a},
                 !.shape = [Unanchored(@) EXCEPT !.owner = None]]
  ELSE q

RetryReplay(x, r) == Parked([x EXCEPT !.t[r] = Again(Retried(@, x.up.account))], r)

(* The anchor is unknown upstream: the body without it. *)
WithoutAnchor(q) == [q EXCEPT !.shape = Unanchored(@)]

MissingReplay(x, r) == Parked([x EXCEPT !.t[r] = Again(WithoutAnchor(@))], r)

(* Security work: the request goes to an authorized account, and gives the    *)
(* gate back before.                                                          *)
Secured(q) ==
  [q EXCEPT !.secure = TRUE,
            !.shape = IF @.anchored THEN [Unanchored(@) EXCEPT !.owner = None] ELSE @]

SecurityReplay(x, r) == Parked(ReleaseGate([x EXCEPT !.t[r] = Again(Secured(@))], r), r)

(* An error or response.failed of kind k, for r: replayed or finalized. *)
Handled(x, r, k) ==
  LET q == x.t[r] IN
  CASE k = "auth" /\ Precreated(x, r) /\ ~q.visible /\ Movable(q.shape)
         -> { AuthReplay(x, r, expired) : expired \in BOOLEAN }
    [] k = "retry" /\ Precreated(x, r) /\ q.replays < 1 /\ (Pinned(q) => Movable(q.shape))
         -> {RetryReplay(x, r)}
    [] k = "missing" /\ Precreated(x, r) /\ q.replays < 1 /\ q.shape.safe -> {MissingReplay(x, r)}
    [] k = "security" /\ x.up.account \notin Authorized /\ x.pend = <<>> /\ ~q.seq
         /\ q.rid = None /\ q.replays < 1 /\ q.shape.owner # x.up.account /\ Movable(q.shape)
         -> {SecurityReplay(x, r)}
    [] OTHER -> { [Ended(x, r) EXCEPT !.up.reconnect = @ \/ again] : again \in BOOLEAN }

(* response.failed or an error for entry i. *)
Failed(i, k) ==
  /\ Reading /\ i \in Entries /\ w.client = "open"
  /\ i \in Uncreated => i = NextUncreated
  /\ LET x == WithoutEntry(w, i)
         r == IF w.up.wire[i].created THEN OfResponse(w, w.up.wire[i].r) ELSE Anonymous(w)
     IN  IF r = None THEN w' = Stops(x)
         ELSE \E y \in Handled([x EXCEPT !.pend = Without(@, r)], r, k) : w' = Stops(y)

(* An error that names nothing: every pending request is failed. *)
FailedForAll ==
  /\ Reading /\ Len(w.pend) > 1 /\ Anonymous(w) = None /\ w.client = "open"
  /\ w' = Stops([FailAll(w) EXCEPT !.up.reconnect = TRUE])

(* The socket is lost: the one request the client saw nothing of is parked,   *)
(* or whatever is pending is failed.                                          *)
Lost ==
  /\ Reading
  /\ w' = [(IF Replayable(w) THEN Parked(Popped(w), Head(w.pend)) ELSE FailSequenced(w))
             EXCEPT !.up.reader = "stopping", !.up.open = FALSE]

(* A classified network failure: nothing is replayed. *)
NetworkLost ==
  /\ Reading
  /\ w' = [FailSequenced(w) EXCEPT !.up.reader = "stopping", !.up.open = FALSE]

(* Upstream is silent for too long. *)
IdleTimeout ==
  /\ Reading /\ w.pend # <<>>
  /\ w' = [FailAll(w) EXCEPT !.up.reconnect = TRUE, !.up.reader = "stopping",
                                          !.up.open = FALSE]

(* _fail_expired_pending_websocket_requests: the budget of r is spent. *)
Expires(r) ==
  /\ Reading /\ InPend(w, r)
  /\ w' = Ended([w EXCEPT !.pend = Without(@, r)], r)

(* A frame or a keepalive cannot be relayed: the client is gone. *)
FindsClientGone ==
  /\ Reading /\ w.client # "open"
  /\ w' = [FailAll(w) EXCEPT !.client = "gone", !.up.reader = "stopping", !.up.open = FALSE]

(* The reader's finally block: a request that came in since closes the client. *)
ReaderExits ==
  /\ w.up.reader = "stopping"
  /\ w' = [w EXCEPT !.up.reader = "done",
                    !.client = IF ~w.up.reconnect /\ w.pend # <<>> /\ @ = "open" THEN "closed" ELSE @]

-----------------------------------------------------------------------------
RelayNext ==
  \/ Collect
  \/ TakeReplay
  \/ Rejoin
  \/ \E r \in Requests : Receive(r)
  \/ GapEnds
  \/ CollectAgain
  \/ ResolveOwner
  \/ ResendConflicts
  \/ Admit
  \/ AdmissionFails
  \/ Switch
  \/ \E a \in Accounts : SelectAccount(a)
  \/ SelectFails
  \/ TryNext
  \/ OpenFails
  \/ Opened
  \/ Send
  \/ SendRefused
  \/ SendFails
  \/ SendCrashes
  \/ Leave
  \/ Disconnect
  \/ Created
  \/ \E i \in Entries : Frame(i)
  \/ \E i \in Entries : Completes(i)
  \/ \E i \in Entries, k \in Kinds : Failed(i, k)
  \/ FailedForAll
  \/ Lost
  \/ NetworkLost
  \/ IdleTimeout
  \/ \E r \in Requests : Expires(r)
  \/ FindsClientGone
  \/ ReaderExits

RelaySpec == RelayInit /\ [][RelayNext]_w

-----------------------------------------------------------------------------
(* Properties *)

(* Types; the permits of the gate are its one permit less its holders, and a  *)
(* request is pending at most once.                                           *)
RelayTypeOK ==
  /\ w.pc \in {"receive", "take", "gap", "collect", "owner", "gate", "switch", "connect", "opening", "send", "left"}
  /\ {w.req, w.replay, w.up.parked} \subseteq Requests \cup {None}
  /\ {w.up.account, w.slot} \subseteq Accounts \cup {None}
  /\ w.up.reader \in {"none", "run", "stopping", "done"}
  /\ \A r \in Requests : w.t[r].rid \in Requests \cup {None}
  /\ w.permits \in 0..1 /\ w.permits + Cardinality(Holders(w)) = 1
  /\ IsInjective(w.pend)

(* The loop holds exactly the stream lease of the account whose socket it     *)
(* has or is opening.                                                         *)
SlotFollowsSocket == w.slot = None <=> w.up.account = None /\ w.pc # "opening"

(* The step writes r to the socket. *)
Writes(r) == w.pc = "send" /\ w.req = r /\ Len(w'.up.wire) > Len(w.up.wire)

(* A request is not written a second time once the client was sent a numbered *)
(* frame or text of it.                                                       *)
NoReplayOnceSequenced ==
  [][\A r \in Requests : Writes(r) /\ w.t[r].sent /\ w.t[r].rid \in {r, None}
                          => ~w.t[r].seq /\ ~w.t[r].visible]_w

(* A request that names a response of an account is written to no other. *)
PinnedGoesHome ==
  [][\A r \in Requests : Writes(r) /\ Pinned(w.t[r])
                          => w.up.account = w.t[r].shape.owner]_w

=============================================================================
