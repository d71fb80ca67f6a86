---------------------------- MODULE BridgeTurns ----------------------------
(***************************************************************************)
(* The turns of one HTTP bridge session: client requests multiplexed on    *)
(* one upstream socket.                                                    *)
(*                                                                         *)
(* A request is counted in the session's queue, waits for the gate that    *)
(* lets one response.create at a time be without its response.created, is  *)
(* appended to the pending list and sent.  A reader task matches upstream  *)
(* frames to pending requests: response.created to the first one without a *)
(* response id, later frames by that id, frames without an id by guess.    *)
(* When the socket is lost or silent the reader may reconnect and resend a *)
(* request whose client has seen nothing.  A client that leaves turns its  *)
(* request into a draining one, and a first request may send a prewarm     *)
(* turn ahead of itself.                                                   *)
(*                                                                         *)
(* A response is named by the turn it answers, so delivering response o to *)
(* the client of turn t is right exactly when o = t.  The session's key is *)
(* hard: once unregistered it refuses requests.  The registry of sessions  *)
(* is the subject of HttpBridge.                                           *)
(***************************************************************************)
EXTENDS Integers, Sequences, FiniteSets, SequencesExt

CONSTANTS
  Requests,     \* client requests
  Warmup,       \* the turn of the session's prewarm request
  None,
  Anchored,     \* requests with a previous_response_id of the client
  Warmers,      \* requests that may prewarm the session
  Leavers,      \* requests whose client may disconnect
  QueueLimit,   \* queue_limit
  ErrorKinds,   \* the errors upstream answers a request with, see Rejected
  MaxNaps,      \* bound: naps before another wait for the gate (the request's deadline)
  MaxLosses,    \* bound: sockets lost, and sends that fail
  MaxAuth       \* bound: authentication errors answered by a replay

VARIABLES
  b,       \* the session, its turns and its upstream socket
  losses, auths

vars == <<b, losses, auths>>

Turns == Requests \cup {Warmup}

Fresh == [rid |-> None, draining |-> FALSE, awaiting |-> FALSE, gate |-> FALSE, seen |-> 0,
          replays |-> 0, naps |-> 0, visible |-> FALSE, suppress |-> FALSE]

Init ==
  /\ b = [queued |-> 0, waiters |-> 0, gate |-> 1, closed |-> FALSE, retire |-> FALSE,
          over |-> FALSE, closeTried |-> FALSE, prewarmed |-> FALSE, reader |-> "reading", replaying |-> None,
          pend |-> <<>>, sock |-> "open", wire |-> <<>>, live |-> {},
          turn |-> [t \in Turns |-> Fresh], pc |-> [t \in Turns |-> "new"],
          got |-> [t \in Turns |-> {}], sends |-> [t \in Turns |-> 0]]
  /\ losses = 0
  /\ auths = 0

Less(m, n) == IF m > n THEN m - n ELSE 0

InPend(x, t) == Contains(x.pend, t)

Without(seq, t) == SelectSeq(seq, LAMBDA u : u # t)

VisiblePend(x) == { t \in Turns : InPend(x, t) /\ ~x.turn[t].draining }

First(x, P(_)) ==
  LET hits == SelectSeq(x.pend, P) IN IF hits = <<>> THEN None ELSE Head(hits)

-----------------------------------------------------------------------------
(* Changes of the session several handlers make *)

(* _release_websocket_response_create_gate *)
Release(x, t) ==
  [x EXCEPT !.turn[t].awaiting = FALSE, !.turn[t].gate = FALSE,
            !.gate = IF x.turn[t].gate THEN @ + 1 ELSE @]

(* The client of t is fed a frame of response o. *)
Feed(x, t, o) == IF x.pc[t] = "sent" THEN [x EXCEPT !.got[t] = @ \cup {o}] ELSE x

(* The client of t gets its terminal frame. *)
EndTurn(x, t, how) == IF x.pc[t] = "sent" THEN [x EXCEPT !.pc[t] = how] ELSE x

(* The session is unregistered, gives its account lease back and closes    *)
(* its socket, unless an earlier retirement has closed one.                *)
RetireStale(x) ==
  [x EXCEPT !.closed = TRUE, !.over = TRUE, !.closeTried = TRUE,
            !.sock = IF x.closeTried THEN @ ELSE "lost"]

DrainReady(x) == x.retire /\ VisiblePend(x) = {} /\ x.queued = 0

(* _retire_http_bridge_after_drain_if_ready: only draining turns are left, *)
(* and the session is closed with its reader; it stays registered.         *)
AfterDrain(x) ==
  IF DrainReady(x)
  THEN [x EXCEPT !.closed = TRUE, !.sock = "lost", !.pend = <<>>, !.reader = "dead",
                 !.replaying = None]
  ELSE x

(* A new socket replaces the old one: what was under way on that is lost.  *)
Reconnected(x) ==
  [x EXCEPT !.sock = "open", !.wire = <<>>, !.live = {}, !.closed = FALSE, !.retire = FALSE,
            !.reader = "reading", !.replaying = None]

(* What a failed attempt to reconnect leaves: the reader was stopped first. *)
ReaderCancelled(x) == [x EXCEPT !.reader = "dead", !.replaying = None]

SentOn(x, t) == [x EXCEPT !.wire = Append(@, t), !.sends[t] = @ + 1]

(* Mutant: the gate of an interrupted request stays taken. *)
CleanupKeepingGate(x, t, counted, waiting) ==
  [x EXCEPT !.pend = Without(@, t), !.queued = IF counted THEN Less(@, 1) ELSE @,
            !.waiters = IF waiting THEN Less(@, 1) ELSE @]

(* _cleanup_http_bridge_submit_interruption: t leaves the pending list and *)
(* the queue and gives the gate back; the last one to leave a closed       *)
(* session retires it.                                                     *)
Cleanup(x, t, counted, waiting) ==
  LET y == Release([x EXCEPT !.pend = Without(@, t),
                             !.queued = IF counted THEN Less(@, 1) ELSE @,
                             !.waiters = IF waiting THEN Less(@, 1) ELSE @], t)
  IN  IF y.closed /\ y.waiters = 0 THEN RetireStale(y) ELSE y

(* _fail_http_bridge_reader_and_maybe_retire: every pending turn gets its  *)
(* terminal frame; the session is retired unless an admission waits.       *)
FailAll(x) ==
  LET ended == [x EXCEPT
        !.closed = TRUE, !.reader = "dead", !.replaying = None,
        !.queued = Less(@, Cardinality(VisiblePend(x))),
        !.gate = @ + Cardinality({t \in Turns : InPend(x, t) /\ x.turn[t].gate}),
        !.turn = [t \in Turns |-> IF InPend(x, t)
                                  THEN [@[t] EXCEPT !.gate = FALSE, !.awaiting = FALSE] ELSE @[t]],
        !.pc = [t \in Turns |-> IF InPend(x, t) /\ @[t] = "sent" THEN "failed" ELSE @[t]],
        !.pend = <<>>]
  IN  IF x.waiters = 0 THEN RetireStale(ended) ELSE ended

-----------------------------------------------------------------------------
(* Submitting a request *)

Become(y) == b' = y

Quiet == UNCHANGED <<losses, auths>>

At(t, where) == b.pc[t] = where

(* The checks a request passes before it may enter the queue. *)
Usable == ~b.closed /\ ~b.over /\ ~b.retire

(* A request that has been answered with an error of the proxy. *)
Refuse(x, r) == [x EXCEPT !.pc[r] = "refused"]

(* The session is retired, retiring, or its queue is full. *)
Refused(r) ==
  /\ At(r, "new")
  /\ \/ b.over /\ Become(Refuse(b, r))
     \/ ~b.over /\ ~b.closed /\ b.retire /\ Become(Refuse(AfterDrain(b), r))
     \/ Usable /\ b.queued >= QueueLimit /\ Become(Refuse(b, r))
  /\ Quiet

(* The session is closed but registered: the socket is opened again, once  *)
(* for a request, without sending it.                                      *)
Reopen(r) ==
  /\ At(r, "new")
  /\ b.closed /\ ~b.over
  /\ LET y == [b EXCEPT !.turn[r].replays = 1]
     IN  IF b.turn[r].replays = 0
         THEN Become(Reconnected(y)) \/ Become(Refuse(ReaderCancelled(y), r))
         ELSE Become(Refuse(b, r))
  /\ Quiet

(* The request is counted in the queue and waits for the gate. *)
Enqueue(r) ==
  /\ \/ At(r, "warmed")
     \/ At(r, "new") /\ Usable /\ (r \notin Warmers \/ b.prewarmed)
  /\ Become(IF b.queued < QueueLimit THEN [b EXCEPT !.queued = @ + 1, !.waiters = @ + 1, !.pc[r] = "wait"]
            ELSE Refuse(b, r))
  /\ Quiet

(* The gate, the account's share and the admission are acquired. *)
Admit(r) ==
  /\ At(r, "wait")
  /\ b.gate > 0
  /\ Become([b EXCEPT !.gate = @ - 1, !.turn[r].gate = TRUE, !.turn[r].awaiting = TRUE,
                      !.pc[r] = "admitted"])
  /\ Quiet

(* The wait for the gate times out, or admission is refused; a session     *)
(* whose gate holder has had no frame for too long is retired.             *)
AdmissionFails(r) ==
  /\ At(r, "wait")
  /\ LET stuck == \E t \in VisiblePend(b) : b.turn[t].gate /\ b.turn[t].seen = 0 /\ t # Warmup
         y == Cleanup(b, r, TRUE, TRUE)
     IN  \/ Become(Refuse(y, r))
         \/ stuck /\ Become(Refuse(RetireStale(y), r))
         \/ /\ ~y.closed /\ y.queued < QueueLimit /\ b.turn[r].naps < MaxNaps
            /\ Become([y EXCEPT !.queued = @ + 1, !.pc[r] = "sleeping", !.turn[r].naps = @ + 1])
  /\ Quiet

(* A request that lost the wait for the gate sleeps with its place in the  *)
(* queue, and submits again unless its time is up or the session closed.   *)
Wake(r) ==
  /\ At(r, "sleeping")
  /\ LET y == [b EXCEPT !.queued = Less(@, 1)]
     IN  \/ Become(Refuse(y, r))
         \/ ~b.closed /\ Become([y EXCEPT !.pc[r] = "new"])
  /\ Quiet

(* The request is appended and sent, under the session's lifecycle lock.   *)
Send(r) ==
  /\ At(r, "admitted")
  /\ ~b.closed /\ ~b.over
  /\ \/ /\ b.sock = "open"
        /\ Become(SentOn([b EXCEPT !.pend = Append(@, r), !.waiters = Less(@, 1),
                                   !.pc[r] = "sent"], r))
        /\ UNCHANGED losses
     \* send_text fails, with or without the frame having reached upstream
     \/ /\ b.sock = "lost" \/ losses < MaxLosses
        /\ losses' = IF b.sock = "lost" THEN losses ELSE losses + 1
        /\ Become([b EXCEPT !.pend = Append(@, r), !.waiters = Less(@, 1), !.closed = TRUE,
                            !.pc[r] = "broken"])
  /\ UNCHANGED auths

(* After a failed send the request is taken back, but never sent again. *)
SendFailed(r) ==
  /\ At(r, "broken")
  /\ Become([Refuse(Cleanup(b, r, TRUE, FALSE), r) EXCEPT !.closed = TRUE, !.sock = "lost"])
  /\ Quiet

(* The session was closed while the request waited for the gate.           *)
ReopenAdmitted(r) ==
  /\ At(r, "admitted")
  /\ b.closed \/ b.over
  /\ LET y == [b EXCEPT !.turn[r].replays = 1]
     IN  IF ~b.over /\ b.turn[r].replays = 0
         THEN \/ Become(Reconnected(y))
              \/ Become(Refuse(Cleanup(ReaderCancelled(y), r, TRUE, TRUE), r))
         ELSE Become(Refuse(Cleanup(b, r, TRUE, TRUE), r))
  /\ Quiet

-----------------------------------------------------------------------------
(* The prewarm turn of the session *)

(* Only one request at a time holds the prewarm lock. *)
Prewarm(r) ==
  /\ At(r, "new") /\ r \in Warmers /\ Usable /\ ~b.prewarmed
  /\ Become([b EXCEPT !.prewarmed = TRUE, !.pc[r] = "warming", !.pc[Warmup] = "wait",
                      !.turn[Warmup] = Fresh, !.got[Warmup] = {}])
  /\ Quiet

PrewarmOver(x, r, where) == [x EXCEPT !.prewarmed = FALSE, !.pc[Warmup] = "new", !.pc[r] = where]

PrewarmSend(r) ==
  /\ At(r, "warming") /\ At(Warmup, "wait")
  /\ b.gate > 0
  /\ LET y == [b EXCEPT !.gate = @ - 1, !.turn[Warmup].gate = TRUE, !.turn[Warmup].awaiting = TRUE]
     IN  Become(CASE y.closed \/ y.over ->
                       PrewarmOver(Cleanup(y, Warmup, FALSE, FALSE), r, "warmed")
                  [] ~y.closed /\ ~y.over /\ y.sock = "open" ->
                       SentOn([y EXCEPT !.pend = Append(@, Warmup), !.pc[Warmup] = "sent"], Warmup)
                  [] OTHER -> PrewarmOver(Cleanup(y, Warmup, FALSE, FALSE), r, "refused"))
  /\ Quiet

(* The gate cannot be had in time (a local overload): the request goes on  *)
(* without prewarm.                                                        *)
PrewarmSkipped(r) ==
  /\ At(r, "warming") /\ At(Warmup, "wait")
  /\ Become(PrewarmOver(Cleanup(b, Warmup, FALSE, FALSE), r, "warmed"))
  /\ Quiet

PrewarmAnswered(r) ==
  /\ At(r, "warming")
  /\ \/ At(Warmup, "done") /\ Become([b EXCEPT !.pc[Warmup] = "new", !.pc[r] = "warmed"])
     \/ /\ At(Warmup, "failed")
        /\ Become(PrewarmOver(Cleanup(b, Warmup, FALSE, FALSE), r, "refused"))
  /\ Quiet

(* No answer in time: the socket is replaced before the prewarm turn is    *)
(* taken off the pending list.                                             *)
PrewarmTimesOut(r) ==
  /\ At(r, "warming") /\ At(Warmup, "sent")
  /\ LET off(x) == Release([x EXCEPT !.pend = Without(@, Warmup)], Warmup)
     IN  \/ Become(PrewarmOver(off(Reconnected(b)), r, "warmed"))
         \/ LET y == ReaderCancelled([b EXCEPT !.closed = TRUE])
            IN  Become(PrewarmOver(Cleanup(y, Warmup, FALSE, FALSE), r, "refused"))
  /\ Quiet

-----------------------------------------------------------------------------
(* The reader *)

Listening == b.reader = "reading" /\ b.sock = "open"

(* Mutant: what the client has seen is not looked at. *)
CanReplayAnyway(x, t) ==
  /\ x.turn[t].replays < 1 /\ t \notin Anchored
  /\ x.turn[t].rid # None \/ x.turn[t].awaiting

(* _websocket_request_can_replay_before_visible_output, with the anchor    *)
(* check of _retry_http_bridge_precreated_request *)
CanReplay(x, t) ==
  LET e == x.turn[t]
  IN  /\ e.replays < 1 /\ ~e.visible /\ t \notin Anchored
      /\ \/ e.rid = None /\ e.awaiting /\ e.seen = 0
         \/ e.rid # None /\ ~e.awaiting /\ e.seen <= 1

Replayable(x) == { t \in VisiblePend(x) : CanReplay(x, t) }

(* _prepare_websocket_request_state_for_visible_output_replay, then the    *)
(* reader reconnects: why says what a failure to reconnect leads to.       *)
BeginReplay(x, t, why) ==
  [x EXCEPT !.turn[t] = [@ EXCEPT !.replays = @ + 1, !.awaiting = TRUE, !.rid = None, !.seen = 0,
                                  !.suppress = @ \/ (x.turn[t].rid # None /\ ~x.turn[t].awaiting)],
            !.reader = why, !.replaying = t]

(* The socket is lost. *)
SocketLost ==
  /\ b.sock = "open" /\ losses < MaxLosses
  /\ losses' = losses + 1
  /\ b' = [b EXCEPT !.sock = "lost"]
  /\ UNCHANGED auths

(* Mutant: the reader waits for a frame without a time limit. *)
SilentForEver == b.sock = "lost"

Silent == b.sock = "lost" \/ VisiblePend(b) # {}

(* The reader finds the socket closed, or has waited too long for a frame: *)
(* the only request that may be resent is, unless the close code or a      *)
(* network failure forbids it; else every pending turn fails.              *)
ReaderStops ==
  /\ b.reader = "reading"
  /\ Silent
  /\ \/ \E t \in Replayable(b) : Replayable(b) = {t} /\ Become(BeginReplay(b, t, "resending"))
     \/ (b.sock = "lost" \/ Cardinality(Replayable(b)) # 1) /\ Become(FailAll(b))
  /\ Quiet

(* The replayed request is sent on a new socket, whatever has become of it *)
(* in the meantime; or no socket is opened; or the send fails.             *)
ReplayEnds ==
  /\ b.reader \in {"resending", "retrying"}
  /\ LET t == b.replaying
         off == [b EXCEPT !.pend = Without(@, t), !.reader = "reading", !.replaying = None,
                          !.queued = IF InPend(b, t) THEN Less(@, 1) ELSE @]
     IN  \/ Become(SentOn(Reconnected(b), t))
         \/ b.reader = "resending" /\ Become(FailAll(b))
         \/ b.reader = "retrying" /\ Become(AfterDrain(EndTurn(Release(off, t), t, "failed")))
         \/ Become(FailAll(Reconnected(b)))
  /\ Quiet

(* _assign_websocket_response_id *)
Assigned(x, o) ==
  LET visible == First(x, LAMBDA t : x.turn[t].rid = None /\ ~x.turn[t].draining)
  IN  IF visible # None THEN visible ELSE First(x, LAMBDA t : x.turn[t].rid = None)

Owner(x, o) == First(x, LAMBDA t : x.turn[t].rid = o)

(* response.created of the response to the first request on the wire *)
Created ==
  /\ Listening /\ b.wire # <<>>
  /\ LET o == Head(b.wire)
         m == Assigned(b, o)
         y == [b EXCEPT !.wire = Tail(@), !.live = @ \cup {o}]
     IN  IF m = None THEN Become(AfterDrain(y))
         ELSE LET z == Release([y EXCEPT !.turn[m] = [@ EXCEPT !.rid = o, !.seen = 1,
                                                               !.suppress = FALSE]], m)
              IN  Become(AfterDrain(IF b.turn[m].suppress THEN z ELSE Feed(z, m, o)))
  /\ Quiet

(* A later frame of a response: output text, or an event that shows none. *)
Frame(o) ==
  /\ Listening /\ o \in b.live
  /\ LET m == Owner(b, o)
     IN  /\ m # None
         /\ \E text \in BOOLEAN :
               Become(AfterDrain(Feed([b EXCEPT !.turn[m].seen = 2,
                                                !.turn[m].visible = @ \/ text], m, o)))
  /\ Quiet

(* The session after a terminal frame for m (None: nobody is matched); an  *)
(* error of the account retires the session once it is drained.            *)
Terminated(x, m, o, how, sick) ==
  LET y == [x EXCEPT !.pend = Without(@, m), !.retire = @ \/ sick,
                     !.queued = IF x.turn[m].draining THEN @ ELSE Less(@, 1)]
  IN  AfterDrain(IF m = None THEN x ELSE EndTurn(Release(Feed(y, m, o), m), m, how))

(* The terminal frame of a response: by its id, else for the only request  *)
(* still waiting for its response.created.                                 *)
Finished(o) ==
  /\ Listening /\ o \in b.live
  /\ LET waiting == { t \in Turns : InPend(b, t) /\ b.turn[t].rid = None /\ b.turn[t].awaiting }
         m == IF Owner(b, o) # None THEN Owner(b, o)
              ELSE IF Cardinality(waiting) = 1 THEN CHOOSE t \in waiting : TRUE ELSE None
         y == [b EXCEPT !.live = @ \ {o}]
     IN  \E how \in {"done", "failed"}, sick \in BOOLEAN :
            /\ sick => how = "failed"
            /\ Become(Terminated(y, m, o, how, sick))
  /\ Quiet

(* _match_websocket_request_state_for_anonymous_event, for an error: the   *)
(* only visible turn, else the only one without an id, else a draining one *)
Anonymous(x) ==
  LET visible == VisiblePend(x)
      open(S) == { t \in S : x.turn[t].rid = None }
      draining == { t \in Turns : InPend(x, t) } \ visible
      only(S) == CHOOSE t \in S : TRUE
  IN  CASE Cardinality(visible) = 1 -> only(visible)
        [] Cardinality(visible) # 1 /\ Cardinality(open(visible)) = 1 -> only(open(visible))
        [] visible = {} /\ draining # {} ->
             IF Cardinality(open(draining)) = 1 THEN only(open(draining))
             ELSE First(x, LAMBDA t : t \in draining)
        [] OTHER -> None

(* Upstream answers the first request on the wire with an error that names *)
(* no response: "plain" ends the turn it is matched with; "account" and    *)
(* "auth" errors are answered by a replay of a turn that nothing has been  *)
(* heard of, "security" ones by a replay on another account.               *)
Rejected(kind) ==
  /\ Listening /\ b.wire # <<>>
  /\ LET o == Head(b.wire)
         y == [b EXCEPT !.wire = Tail(@)]
         m == Anonymous(b)
         alone == b.pend = <<m>> /\ b.turn[m].rid = None /\ m \notin Anchored
         untouched == alone /\ b.turn[m].seen = 0 /\ b.turn[m].awaiting
         again == [y EXCEPT !.queued = IF b.turn[m].draining THEN @ + 1 ELSE @]
     IN  CASE m # None /\ kind = "account" /\ untouched /\ b.turn[m].replays < 1 ->
                Become(BeginReplay(y, m, "retrying")) /\ UNCHANGED auths
           [] m # None /\ kind = "auth" /\ untouched /\ ~b.turn[m].visible ->
                /\ auths < MaxAuth /\ auths' = auths + 1
                /\ Become(BeginReplay(y, m, "retrying"))
           [] m # None /\ kind = "security" /\ alone /\ b.turn[m].replays < 1 ->
                Become(BeginReplay(again, m, "retrying")) /\ UNCHANGED auths
           [] OTHER ->
                /\ \E sick \in BOOLEAN : Become(Terminated(y, m, o, "failed", sick /\ kind # "plain"))
                /\ UNCHANGED auths
  /\ UNCHANGED losses

(* An error without even a type that is matched with no turn ends all.     *)
RejectedForAll ==
  /\ Listening /\ b.wire # <<>>
  /\ Anonymous(b) = None
  /\ LET y == FailAll(b)
     IN  Become([b EXCEPT !.wire = Tail(@), !.pend = <<>>, !.turn = y.turn, !.gate = y.gate,
                          !.pc = y.pc, !.queued = y.queued])
  /\ Quiet

-----------------------------------------------------------------------------
(* The client leaves, or its stream has been idle for too long *)

LeaveWaiting(r) ==
  /\ r \in Leavers
  /\ \/ \E at \in {"wait", "admitted"} :
           At(r, at) /\ Become([Cleanup(b, r, TRUE, TRUE) EXCEPT !.pc[r] = "gone"])
     \/ At(r, "sleeping") /\ Become([b EXCEPT !.queued = Less(@, 1), !.pc[r] = "gone"])
     \/ /\ At(r, "warming")
        /\ Become(PrewarmOver(Cleanup(b, Warmup, FALSE, FALSE), r, "gone"))
  /\ Quiet

(* _detach_http_bridge_request *)
Detach(r) ==
  /\ r \in Leavers /\ At(r, "sent")
  /\ LET y == [b EXCEPT !.turn[r].draining = TRUE, !.turn[r].visible = FALSE, !.retire = TRUE,
                        !.queued = Less(@, 1)]
     IN  Become([AfterDrain(Release(IF InPend(b, r) THEN y ELSE b, r)) EXCEPT !.pc[r] = "gone"])
  /\ Quiet

-----------------------------------------------------------------------------
Step(r) ==
  \/ Refused(r) \/ Reopen(r) \/ Enqueue(r) \/ AdmissionFails(r) \/ Wake(r)
  \/ Send(r) \/ SendFailed(r) \/ ReopenAdmitted(r)
  \/ Prewarm(r) \/ PrewarmSend(r) \/ PrewarmSkipped(r) \/ PrewarmAnswered(r) \/ PrewarmTimesOut(r)

Next ==
  \/ \E r \in Requests : Step(r) \/ Admit(r) \/ LeaveWaiting(r) \/ Detach(r)
  \/ SocketLost \/ ReaderStops \/ ReplayEnds \/ Created \/ RejectedForAll
  \/ \E o \in Turns : Frame(o) \/ Finished(o)
  \/ \E kind \in ErrorKinds : Rejected(kind)

Spec == Init /\ [][Next]_vars

(* The reader's wait for a frame is limited by the idle timeout and by the *)
(* request budget, the wait for the gate and for a socket by their         *)
(* timeouts.                                                               *)
FairSpec ==
  /\ Spec
  /\ \A r \in Requests : WF_vars(Step(r))
  /\ WF_vars(ReaderStops) /\ WF_vars(ReplayEnds)

-----------------------------------------------------------------------------
(* Properties *)

(* The fields have their types, and the gate of one response.create        *)
(* (session.response_create_gate) is free or held by exactly one turn that *)
(* is being sent or pending: no path of submit, reader or detach gives it  *)
(* back twice, or ends a turn that keeps it.                               *)
TurnsTypeOK ==
  /\ b.queued \in 0 .. Cardinality(Requests) + 1
  /\ b.waiters \in 0 .. Cardinality(Requests)
  /\ b.gate + Cardinality({ t \in Turns : b.turn[t].gate }) = 1
  /\ \A t \in Turns : b.turn[t].gate => InPend(b, t) \/ b.pc[t] \in {"admitted", "broken"}
  /\ { b.pend[i] : i \in DOMAIN b.pend } \subseteq Turns
  /\ b.reader \in {"reading", "resending", "retrying", "dead"}
  /\ b.replaying \in Turns \cup {None}

(* A client is fed frames of the response to its own request only, however *)
(* response.created frames, replays and frames without an id are matched   *)
(* (_assign_websocket_response_id and the matching of _process_text).      *)
OwnResponse == \A r \in Requests : b.got[r] \subseteq {r}

(* A request is sent upstream a second time only when its client has seen  *)
(* no output of the first, and at most once more for a lost socket.        *)
NoResendAfterOutput ==
  [][\A t \in Requests : b'.sends[t] > b.sends[t] /\ b.sends[t] > 0 =>
        ~b.turn[t].visible /\ b.turn[t].seen = 0 /\ b'.sends[t] <= 2 + MaxAuth]_vars

(* Every request the session takes is answered or refused, whatever        *)
(* happens to the sockets and to the other requests.                       *)
TurnEnds ==
  \A r \in Requests : b.pc[r] = "wait" ~> b.pc[r] \in {"done", "failed", "refused", "gone"}
=============================================================================
