------------------------ MODULE WebSocketRelayProofs ------------------------
(***************************************************************************)
(* For any number of requests, accounts and sockets of a client WebSocket: *)
(* the loop holds the stream lease of the socket it has or is opening, and *)
(* a request that names a response of an account is written to no other.   *)
(*                                                                         *)
(* The connection is one record, so an invariant first says which fields   *)
(* the records have.  Most helpers leave alone what the properties are     *)
(* about (Same), and a reader may in addition only free a request from its *)
(* account, or bind it to the account of the socket it reads (Eases).      *)
(***************************************************************************)
EXTENDS WebSocketRelay, TLAPS

Fields == {"numbered", "pc", "req", "replay", "tried", "up", "slot", "pend",
           "client", "sockets", "permits", "asked", "t"}

UpFields == {"account", "open", "reader", "reconnect", "parked", "wire"}

RequestFields == {"shape", "reserved", "gate", "awaiting", "lease", "rid", "seq", "visible",
                  "replays", "refreshed", "excluded", "force", "secure", "reattach", "sent"}

ShapeFields == {"anchored", "injected", "safe", "owner"}

IsRequest(q) == DOMAIN q = RequestFields /\ DOMAIN q.shape = ShapeFields

Shaped(x) ==
  /\ DOMAIN x = Fields /\ DOMAIN x.up = UpFields /\ DOMAIN x.t = Requests
  /\ \A r \in Requests : IsRequest(x.t[r])

\* Nothing the properties are about changed.
Same(x, y) ==
  /\ Shaped(y)
  /\ y.pc = x.pc /\ y.req = x.req /\ y.slot = x.slot /\ y.up = x.up
  /\ \A r \in Requests : y.t[r].shape = x.t[r].shape

\* A request that must be served by an account had to be before, by the same
\* one, or it is the account a.
Freer(a, q, p) ==
  Pinned(p) => p.shape.owner = a \/ (Pinned(q) /\ p.shape.owner = q.shape.owner)

Eases(x, y) ==
  /\ Shaped(y)
  /\ y.pc = x.pc /\ y.req = x.req /\ y.slot = x.slot /\ y.up.account = x.up.account
  /\ \A r \in Requests : Freer(x.up.account, x.t[r], y.t[r])

LEMMA SameEases == ASSUME NEW x, NEW y, Same(x, y) PROVE Eases(x, y)
  BY Zenon DEF Same, Eases, Freer, Pinned

LEMMA EasesTwice ==
    ASSUME NEW x, NEW y, NEW z, Eases(x, y), Eases(y, z)
    PROVE  Eases(x, z)
  BY Zenon DEF Eases, Freer

LEMMA SameTwice ==
    ASSUME NEW x, NEW y, NEW z, Same(x, y), Same(y, z)
    PROVE  Same(x, z)
  BY Zenon DEF Same

\* One request changes, and what it is bound to does not.
LEMMA RequestSame ==
    ASSUME NEW x, Shaped(x), NEW r, NEW q,
           r \in Requests => IsRequest(q) /\ q.shape = x.t[r].shape
    PROVE  Same(x, [x EXCEPT !.t[r] = q])
  <1> DEFINE y == [x EXCEPT !.t[r] = q]
  <1>1. DOMAIN y = Fields /\ y.pc = x.pc /\ y.req = x.req /\ y.slot = x.slot /\ y.up = x.up
    BY Zenon DEF Shaped, Fields
  <1>2. y.t = [x.t EXCEPT ![r] = q]
    BY Zenon DEF Shaped, Fields
  <1>3. DOMAIN y.t = Requests /\ \A s \in Requests : y.t[s] = IF s = r THEN q ELSE x.t[s]
    BY Zenon, <1>2 DEF Shaped
  <1> QED
    BY Zenon, <1>1, <1>3 DEF Same, Shaped

LEMMA RequestEases ==
    ASSUME NEW x, Shaped(x), NEW r, NEW q,
           r \in Requests => IsRequest(q) /\ Freer(x.up.account, x.t[r], q)
    PROVE  Eases(x, [x EXCEPT !.t[r] = q])
  <1> DEFINE y == [x EXCEPT !.t[r] = q]
  <1>1. DOMAIN y = Fields /\ y.pc = x.pc /\ y.req = x.req /\ y.slot = x.slot /\ y.up = x.up
    BY Zenon DEF Shaped, Fields
  <1>2. y.t = [x.t EXCEPT ![r] = q]
    BY Zenon DEF Shaped, Fields
  <1>3. DOMAIN y.t = Requests /\ \A s \in Requests : y.t[s] = IF s = r THEN q ELSE x.t[s]
    BY Zenon, <1>2 DEF Shaped
  <1> QED
    BY Zenon, <1>1, <1>3 DEF Eases, Shaped, Freer

\* Fields of the connection that the properties are not about.
LEMMA PlainSame ==
    ASSUME NEW x, Shaped(x), NEW v
    PROVE  /\ Same(x, x)
           /\ Same(x, [x EXCEPT !.pend = v])
           /\ Same(x, [x EXCEPT !.permits = v])
           /\ Same(x, [x EXCEPT !.client = v])
           /\ Same(x, [x EXCEPT !.replay = v])
           /\ Same(x, [x EXCEPT !.tried = v])
           /\ Same(x, [x EXCEPT !.asked = v])
  BY Zenon DEF Shaped, Same, Fields

LEMMA SameShaped == ASSUME NEW x, NEW y, Same(x, y) PROVE Shaped(y)
  BY Zenon DEF Same

LEMMA ReleaseSame == ASSUME NEW x, Shaped(x), NEW r PROVE Same(x, ReleaseGate(x, r))
  <1>1. PICK y : y = ReleaseGate(x, r)
    BY Zenon
  <1>2. DOMAIN x = Fields
    BY Zenon DEF Shaped
  <1>3. DOMAIN y = Fields /\ y.pc = x.pc /\ y.req = x.req /\ y.slot = x.slot /\ y.up = x.up
    BY Zenon, <1>1, <1>2 DEF ReleaseGate, Fields
  <1>4. y.t = [x.t EXCEPT ![r].lease = FALSE, ![r].awaiting = FALSE, ![r].gate = FALSE]
    BY Zenon, <1>1, <1>2 DEF ReleaseGate, Fields
  <1>5. DOMAIN y.t = Requests
    BY Zenon, <1>4 DEF Shaped
  <1>6. ASSUME NEW s \in Requests PROVE IsRequest(y.t[s]) /\ y.t[s].shape = x.t[s].shape
    BY <1>4 DEF Shaped, IsRequest, RequestFields
  <1> QED
    BY Zenon, <1>1, <1>3, <1>5, <1>6 DEF Same, Shaped

LEMMA UnreserveSame == ASSUME NEW x, Shaped(x), NEW r PROVE Same(x, Unreserve(x, r))
  <1>1. PICK y : y = Unreserve(x, r)
    BY Zenon
  <1>2. DOMAIN x = Fields
    BY Zenon DEF Shaped
  <1>3. DOMAIN y = Fields /\ y.pc = x.pc /\ y.req = x.req /\ y.slot = x.slot /\ y.up = x.up
    BY Zenon, <1>1, <1>2 DEF Unreserve, Fields
  <1>4. y.t = [x.t EXCEPT ![r].reserved = FALSE]
    BY Zenon, <1>1, <1>2 DEF Unreserve, Fields
  <1>5. DOMAIN y.t = Requests
    BY Zenon, <1>4 DEF Shaped
  <1>6. ASSUME NEW s \in Requests PROVE IsRequest(y.t[s]) /\ y.t[s].shape = x.t[s].shape
    BY <1>4 DEF Shaped, IsRequest, RequestFields
  <1> QED
    BY Zenon, <1>1, <1>3, <1>5, <1>6 DEF Same, Shaped

LEMMA EndedSame == ASSUME NEW x, Shaped(x), NEW r PROVE Same(x, Ended(x, r))
  <1>1. Same(x, Unreserve(x, r))
    BY Zenon, UnreserveSame
  <1>2. Shaped(Unreserve(x, r))
    BY Zenon, <1>1, SameShaped
  <1>3. Same(Unreserve(x, r), ReleaseGate(Unreserve(x, r), r))
    BY Zenon, <1>2, ReleaseSame
  <1> QED
    BY Zenon, <1>1, <1>3, SameTwice DEF Ended

LEMMA FailAllSame == ASSUME NEW x, Shaped(x) PROVE Same(x, FailAll(x))
  <1>1. PICK y : y = FailAll(x)
    BY Zenon
  <1>2. DOMAIN x = Fields
    BY Zenon DEF Shaped
  <1>3. DOMAIN y = Fields /\ y.pc = x.pc /\ y.req = x.req /\ y.slot = x.slot /\ y.up = x.up
    BY Zenon, <1>1, <1>2 DEF FailAll, Fields
  <1>4. y.t = [r \in Requests |->
                 IF ~InPend(x, r) THEN x.t[r]
                 ELSE [x.t[r] EXCEPT !.reserved = FALSE, !.gate = FALSE, !.awaiting = FALSE,
                                     !.lease = FALSE]]
    BY Zenon, <1>1, <1>2 DEF FailAll, Fields
  <1>5. DOMAIN y.t = Requests
    BY Zenon, <1>4
  <1>6. ASSUME NEW s \in Requests PROVE IsRequest(y.t[s]) /\ y.t[s].shape = x.t[s].shape
    <2>1. IsRequest(x.t[s])
      BY Zenon DEF Shaped
    <2>2. CASE ~InPend(x, s)
      BY Zenon, <1>4, <2>1, <2>2
    <2>3. CASE InPend(x, s)
      <3>1. y.t[s] = [x.t[s] EXCEPT !.reserved = FALSE, !.gate = FALSE, !.awaiting = FALSE,
                                    !.lease = FALSE]
        BY Zenon, <1>4, <2>3
      <3> QED
        BY Zenon, <2>1, <3>1 DEF IsRequest, RequestFields
    <2> QED
      BY Zenon, <2>2, <2>3
  <1> QED
    BY Zenon, <1>1, <1>3, <1>5, <1>6 DEF Same, Shaped

LEMMA FailSequencedSame == ASSUME NEW x, Shaped(x) PROVE Same(x, FailSequenced(x))
  <1>1. PICK y : y = FailAll(x)
    BY Zenon
  <1>2. Same(x, y) /\ Shaped(y)
    BY Zenon, <1>1, FailAllSame, SameShaped
  <1>3. PICK v : FailSequenced(x) = [y EXCEPT !.client = v]
    BY Zenon, <1>1 DEF FailSequenced
  <1>4. Same(y, [y EXCEPT !.client = v])
    BY Zenon, <1>2, PlainSame
  <1> QED
    BY Zenon, <1>2, <1>3, <1>4, SameTwice

LEMMA AgainFacts ==
    ASSUME NEW q, IsRequest(q)
    PROVE  IsRequest(Again(q)) /\ Again(q).shape = q.shape
  BY Zenon DEF Again, IsRequest, RequestFields

LEMMA UnanchoredFacts ==
    ASSUME NEW s, DOMAIN s = ShapeFields
    PROVE  /\ DOMAIN Unanchored(s) = ShapeFields
           /\ Unanchored(s).anchored = FALSE /\ Unanchored(s).owner = s.owner
           /\ \A o : LET u == [Unanchored(s) EXCEPT !.owner = o]
                     IN  DOMAIN u = ShapeFields /\ u.anchored = FALSE /\ u.owner = o
  BY Zenon DEF Unanchored, ShapeFields

\* The shapes a replay gives a request.
LEMMA SelfContainedFacts ==
    ASSUME NEW q, IsRequest(q), NEW a
    PROVE  IsRequest(SelfContained(q)) /\ Freer(a, q, SelfContained(q))
  <1>1. PICK s : s = IF q.shape.safe THEN Unanchored(q.shape) ELSE q.shape
    BY Zenon
  <1>2. SelfContained(q) = [q EXCEPT !.shape = s]
    BY Zenon, <1>1 DEF SelfContained
  <1>3. DOMAIN s = ShapeFields /\ (s.anchored => s = q.shape)
    BY Zenon, <1>1, UnanchoredFacts DEF IsRequest
  <1>4. IsRequest(SelfContained(q)) /\ SelfContained(q).shape = s
    BY Zenon, <1>2, <1>3 DEF IsRequest, RequestFields
  <1> QED
    BY Zenon, <1>3, <1>4 DEF Freer, Pinned

LEMMA ReauthenticatedFacts ==
    ASSUME NEW q, IsRequest(q), NEW a, NEW e
    PROVE  IsRequest(Reauthenticated(q, a, e)) /\ Freer(a, q, Reauthenticated(q, a, e))
  <1>1. PICK u : u = IF q.shape.injected /\ q.shape.safe THEN Unanchored(q.shape) ELSE q.shape
    BY Zenon
  <1>2. PICK s : s = [u EXCEPT !.owner = IF ~e /\ a \notin q.refreshed THEN a ELSE None]
    BY Zenon
  <1>3. DOMAIN u = ShapeFields
    BY Zenon, <1>1, UnanchoredFacts DEF IsRequest
  <1>4. DOMAIN s = ShapeFields /\ s.owner \in {a, None}
    BY Zenon, <1>2, <1>3 DEF ShapeFields
  <1>5. Reauthenticated(q, a, e).shape = s /\ DOMAIN Reauthenticated(q, a, e) = DOMAIN q
    BY Zenon, <1>1, <1>2 DEF Reauthenticated, IsRequest, RequestFields
  <1> QED
    BY Zenon, <1>4, <1>5 DEF Freer, Pinned, IsRequest

LEMMA RetriedFacts ==
    ASSUME NEW q, IsRequest(q), NEW a
    PROVE  IsRequest(Retried(q, a)) /\ Freer(a, q, Retried(q, a))
  <1>1. CASE ~Pinned(q)
    BY Zenon, <1>1 DEF Retried, Freer
  <1>2. CASE Pinned(q)
    <2>1. PICK s : s = [Unanchored(q.shape) EXCEPT !.owner = None]
      BY Zenon
    <2>2. DOMAIN s = ShapeFields /\ s.anchored = FALSE
      BY Zenon, <2>1, UnanchoredFacts DEF IsRequest
    <2>3. Retried(q, a).shape = s /\ DOMAIN Retried(q, a) = DOMAIN q
      BY Zenon, <1>2, <2>1 DEF Retried, IsRequest, RequestFields
    <2> QED
      BY Zenon, <2>2, <2>3 DEF Freer, Pinned, IsRequest
  <1> QED
    BY Zenon, <1>1, <1>2

LEMMA WithoutAnchorFacts ==
    ASSUME NEW q, IsRequest(q), NEW a
    PROVE  IsRequest(WithoutAnchor(q)) /\ Freer(a, q, WithoutAnchor(q))
  <1>1. PICK s : s = Unanchored(q.shape)
    BY Zenon
  <1>2. DOMAIN s = ShapeFields /\ s.anchored = FALSE
    BY Zenon, <1>1, UnanchoredFacts DEF IsRequest
  <1>3. WithoutAnchor(q).shape = s /\ DOMAIN WithoutAnchor(q) = DOMAIN q
    BY Zenon, <1>1 DEF WithoutAnchor, IsRequest, RequestFields
  <1> QED
    BY Zenon, <1>2, <1>3 DEF Freer, Pinned, IsRequest

LEMMA SecuredFacts ==
    ASSUME NEW q, IsRequest(q), NEW a
    PROVE  IsRequest(Secured(q)) /\ Freer(a, q, Secured(q))
  <1>1. PICK s : s = IF q.shape.anchored THEN [Unanchored(q.shape) EXCEPT !.owner = None] ELSE q.shape
    BY Zenon
  <1>2. DOMAIN s = ShapeFields /\ ~s.anchored
    BY Zenon, <1>1, UnanchoredFacts DEF IsRequest
  <1>3. Secured(q).shape = s /\ DOMAIN Secured(q) = DOMAIN q
    BY Zenon, <1>1 DEF Secured, IsRequest, RequestFields
  <1> QED
    BY Zenon, <1>2, <1>3 DEF Freer, Pinned, IsRequest

LEMMA ReplayEases ==
    ASSUME NEW x, Shaped(x), NEW r, NEW p,
           r \in Requests => IsRequest(p) /\ Freer(x.up.account, x.t[r], p)
    PROVE  Eases(x, [x EXCEPT !.t[r] = Again(p)])
  <1>1. r \in Requests => IsRequest(Again(p)) /\ Freer(x.up.account, x.t[r], Again(p))
    BY Zenon, AgainFacts DEF Freer, Pinned
  <1> QED
    BY Zenon, <1>1, RequestEases

LEMMA EasesShaped == ASSUME NEW x, NEW y, Eases(x, y) PROVE Shaped(y)
  BY Zenon DEF Eases

LEMMA PoppedEases == ASSUME NEW x, Shaped(x) PROVE Eases(x, Popped(x))
  <1>1. PICK r : r = Head(x.pend)
    BY Zenon
  <1>2. PICK p : p = SelfContained(x.t[r])
    BY Zenon
  <1>3. PICK y : y = [x EXCEPT !.t[r] = Again(p)]
    BY Zenon
  <1>4. r \in Requests => IsRequest(p) /\ Freer(x.up.account, x.t[r], p)
    BY Zenon, <1>2, SelfContainedFacts DEF Shaped
  <1>5. Eases(x, y)
    BY Zenon, <1>3, <1>4, ReplayEases
  <1>6. Popped(x) = [y EXCEPT !.pend = <<>>]
    BY Zenon, <1>1, <1>2, <1>3 DEF Popped, Shaped, Fields
  <1>7. Same(y, [y EXCEPT !.pend = <<>>])
    BY Zenon, <1>5, EasesShaped, PlainSame
  <1> QED
    BY Zenon, <1>5, <1>6, <1>7, SameEases, EasesTwice

\* The control record of the socket.
LEMMA SocketEases ==
    ASSUME NEW x, Shaped(x), NEW u, DOMAIN u = UpFields, u.account = x.up.account
    PROVE  Eases(x, [x EXCEPT !.up = u])
  BY Zenon DEF Eases, Shaped, Fields, Freer

LEMMA ParkedEases == ASSUME NEW x, Shaped(x), NEW r PROVE Eases(x, Parked(x, r))
  <1>1. PICK u : u = [x.up EXCEPT !.reconnect = TRUE, !.parked = r]
    BY Zenon
  <1>2. DOMAIN u = UpFields /\ u.account = x.up.account
    BY Zenon, <1>1 DEF Shaped, UpFields
  <1>3. Parked(x, r) = [x EXCEPT !.up = u]
    BY Zenon, <1>1 DEF Parked
  <1> QED
    BY Zenon, <1>2, <1>3, SocketEases

LEMMA WithoutEntryEases == ASSUME NEW x, Shaped(x), NEW i PROVE Eases(x, WithoutEntry(x, i))
  <1>1. PICK v : v = SubSeq(x.up.wire, 1, i - 1) \o SubSeq(x.up.wire, i + 1, Len(x.up.wire))
    BY Zenon
  <1>2. PICK u : u = [x.up EXCEPT !.wire = v]
    BY Zenon
  <1>3. DOMAIN u = UpFields /\ u.account = x.up.account
    BY Zenon, <1>2 DEF Shaped, UpFields
  <1>4. WithoutEntry(x, i) = [x EXCEPT !.up = u]
    BY Zenon, <1>1, <1>2 DEF WithoutEntry
  <1> QED
    BY Zenon, <1>3, <1>4, SocketEases

\* The reader stops, and the socket is closed.
LEMMA StoppingEases ==
    ASSUME NEW x, Shaped(x)
    PROVE  Eases(x, [x EXCEPT !.up.reader = "stopping", !.up.open = FALSE])
  <1>1. PICK u : u = [x.up EXCEPT !.reader = "stopping", !.open = FALSE]
    BY Zenon
  <1>2. DOMAIN u = UpFields /\ u.account = x.up.account
    BY Zenon, <1>1 DEF Shaped, UpFields
  <1>3. [x EXCEPT !.up.reader = "stopping", !.up.open = FALSE] = [x EXCEPT !.up = u]
    BY Zenon, <1>1
  <1> QED
    BY Zenon, <1>2, <1>3, SocketEases

LEMMA StopsEases == ASSUME NEW x, Shaped(x) PROVE Eases(x, Stops(x))
  BY Zenon, StoppingEases, PlainSame, SameEases DEF Stops

LEMMA ReconnectEases ==
    ASSUME NEW x, Shaped(x), NEW v PROVE Eases(x, [x EXCEPT !.up.reconnect = v])
  <1>1. PICK u : u = [x.up EXCEPT !.reconnect = v]
    BY Zenon
  <1>2. DOMAIN u = UpFields /\ u.account = x.up.account
    BY Zenon, <1>1 DEF Shaped, UpFields
  <1>3. [x EXCEPT !.up.reconnect = v] = [x EXCEPT !.up = u]
    BY Zenon, <1>1
  <1> QED
    BY Zenon, <1>2, <1>3, SocketEases

LEMMA HandledEases ==
    ASSUME NEW x, Shaped(x), NEW r, NEW k, NEW y \in Handled(x, r, k)
    PROVE  Eases(x, y)
  <1> DEFINE a == x.up.account
  <1>1. ASSUME NEW p, r \in Requests => IsRequest(p) /\ Freer(a, x.t[r], p)
        PROVE  LET z == [x EXCEPT !.t[r] = Again(p)]
               IN  Eases(x, Parked(z, r)) /\ Eases(x, Parked(ReleaseGate(z, r), r))
    <2>1. PICK z : z = [x EXCEPT !.t[r] = Again(p)]
      BY Zenon
    <2>2. Eases(x, z) /\ Shaped(z)
      BY Zenon, <1>1, <2>1, ReplayEases, EasesShaped
    <2>3. Eases(z, ReleaseGate(z, r)) /\ Shaped(ReleaseGate(z, r))
      BY Zenon, <2>2, ReleaseSame, SameEases, SameShaped
    <2>4. Eases(z, Parked(z, r)) /\ Eases(ReleaseGate(z, r), Parked(ReleaseGate(z, r), r))
      BY Zenon, <2>2, <2>3, ParkedEases
    <2> QED
      BY Zenon, <2>1, <2>2, <2>3, <2>4, EasesTwice
  <1>2. r \in Requests => IsRequest(x.t[r])
    BY Zenon DEF Shaped
  <1>3. CASE \E e : y = AuthReplay(x, r, e)
    BY Zenon, <1>1, <1>2, <1>3, ReauthenticatedFacts DEF AuthReplay
  <1>4. CASE y = RetryReplay(x, r)
    BY Zenon, <1>1, <1>2, <1>4, RetriedFacts DEF RetryReplay
  <1>5. CASE y = MissingReplay(x, r)
    BY Zenon, <1>1, <1>2, <1>5, WithoutAnchorFacts DEF MissingReplay
  <1>6. CASE y = SecurityReplay(x, r)
    BY Zenon, <1>1, <1>2, <1>6, SecuredFacts DEF SecurityReplay
  <1>7. CASE \E v : y = [Ended(x, r) EXCEPT !.up.reconnect = v]
    <2>1. PICK v : y = [Ended(x, r) EXCEPT !.up.reconnect = v]
      BY Zenon, <1>7
    <2>2. Eases(x, Ended(x, r)) /\ Shaped(Ended(x, r))
      BY Zenon, EndedSame, SameEases, SameShaped
    <2> QED
      BY Zenon, <2>1, <2>2, ReconnectEases, EasesTwice
  <1>8. \/ y \in { AuthReplay(x, r, e) : e \in BOOLEAN } \/ y \in {RetryReplay(x, r)} \/ y \in {MissingReplay(x, r)}
        \/ y \in {SecurityReplay(x, r)}
        \/ y \in { [Ended(x, r) EXCEPT !.up.reconnect = @ \/ again] : again \in BOOLEAN }
    BY Zenon DEF Handled
  <1> QED
    BY Zenon, <1>3, <1>4, <1>5, <1>6, <1>7, <1>8

-----------------------------------------------------------------------------
\* The lease in hand is the socket's; without an account there is no socket.
Settled(x) ==
  /\ Shaped(x)
  /\ x.slot = x.up.account
  /\ x.up.account = None => x.up = NoSocket

(* The inductive invariant: no socket while one is being opened, with a       *)
(* lease; and what the loop is about to write may go where it has a lease.    *)
RInv(x) ==
  /\ Shaped(x)
  /\ x.up.account = None => x.up = NoSocket
  /\ x.pc \in {"connect", "opening"} => x.up.account = None
  /\ x.pc = "opening" => x.slot # None
  /\ x.pc # "opening" => x.slot = x.up.account
  /\ \A r \in Requests : x.req = r /\ Pinned(x.t[r]) /\ x.pc \in {"opening", "send"}
                           => x.slot = x.t[r].shape.owner

LEMMA IsSettled == ASSUME NEW x, RInv(x), x.pc # "opening" PROVE Settled(x)
  BY Zenon DEF RInv, Settled

LEMMA SettledSame == ASSUME NEW x, NEW y, Settled(x), Same(x, y) PROVE Settled(y)
  BY Zenon DEF Settled, Same

LEMMA Rests ==
    ASSUME NEW x, Settled(x), x.pc \notin {"connect", "opening", "send"}
    PROVE  RInv(x)
  BY Zenon DEF RInv, Settled

LEMMA Moves ==
    ASSUME NEW x, Settled(x), NEW v, v \notin {"connect", "opening", "send"}
    PROVE  RInv([x EXCEPT !.pc = v])
  <1>1. PICK y : y = [x EXCEPT !.pc = v]
    BY Zenon
  <1>2. DOMAIN y = Fields /\ y.pc = v /\ y.slot = x.slot /\ y.up = x.up /\ y.t = x.t
    BY Zenon, <1>1 DEF Settled, Shaped, Fields
  <1>3. Settled(y)
    BY Zenon, <1>2 DEF Settled, Shaped
  <1> QED
    BY Zenon, <1>1, <1>2, <1>3, Rests

LEMMA BackRests == ASSUME NEW x, Settled(x) PROVE RInv(Back(x))
  <1>1. PICK y : y = [x EXCEPT !.req = None]
    BY Zenon
  <1>2. DOMAIN y = Fields /\ y.slot = x.slot /\ y.up = x.up /\ y.t = x.t
    BY Zenon, <1>1 DEF Settled, Shaped, Fields
  <1>3. Settled(y)
    BY Zenon, <1>2 DEF Settled, Shaped
  <1>4. RInv([y EXCEPT !.pc = "receive"])
    BY Zenon, <1>3, Moves
  <1> QED
    BY Zenon, <1>1, <1>4 DEF Back

LEMMA NoSocketFacts == NoSocket.account = None /\ NoSocket.reader = "none" /\ DOMAIN NoSocket = UpFields
  BY Zenon DEF NoSocket, UpFields

LEMMA DropSettles == ASSUME NEW x, Shaped(x) PROVE Settled(DropSocket(x)) /\ DropSocket(x).pc = x.pc
  <1>1. PICK y : y = DropSocket(x)
    BY Zenon
  <1>2. DOMAIN y = Fields /\ y.pc = x.pc /\ y.slot = None /\ y.up = NoSocket /\ y.t = x.t
    BY Zenon, <1>1 DEF DropSocket, Shaped, Fields
  <1> QED
    BY Zenon, <1>1, <1>2, NoSocketFacts DEF Settled, Shaped

LEMMA CollectedSettles ==
    ASSUME NEW x, Shaped(x) PROVE Settled(Collected(x)) /\ Collected(x).pc = x.pc
  <1>1. PICK v : Collected(x) = DropSocket([x EXCEPT !.replay = v])
    BY Zenon DEF Collected
  <1>2. Same(x, [x EXCEPT !.replay = v])
    BY Zenon, PlainSame
  <1> QED
    BY Zenon, <1>1, <1>2, DropSettles DEF Same

LEMMA FinallyRests == ASSUME NEW x, Shaped(x) PROVE RInv(Finally(x))
  <1>1. PICK y : y = IF x.replay = None THEN x ELSE ReleaseGate(Unreserve(x, x.replay), x.replay)
    BY Zenon
  <1>2. Shaped(y)
    BY Zenon, <1>1, UnreserveSame, ReleaseSame, SameShaped
  <1>3. PICK d : d = DropSocket(FailAll(y))
    BY Zenon
  <1>4. Settled(d)
    BY Zenon, <1>2, <1>3, FailAllSame, SameShaped, DropSettles
  <1>5. PICK z : z = Finally(x)
    BY Zenon
  <1>6. z = [d EXCEPT !.replay = None, !.req = None, !.pc = "left", !.client = "gone"]
    BY Zenon, <1>1, <1>3, <1>5 DEF Finally
  <1>7. DOMAIN z = Fields /\ z.pc = "left" /\ z.slot = d.slot /\ z.up = d.up /\ z.t = d.t
    BY Zenon, <1>4, <1>6 DEF Settled, Shaped, Fields
  <1>8. Settled(z)
    BY Zenon, <1>4, <1>7 DEF Settled, Shaped
  <1> QED
    BY Zenon, <1>5, <1>7, <1>8, Rests

LEMMA SameKeeps == ASSUME NEW x, NEW y, RInv(x), Same(x, y) PROVE RInv(y)
  BY Zenon DEF RInv, Same, Pinned

\* The reader of a socket, whatever the loop is at.
LEMMA EasesKeeps == ASSUME NEW x, NEW y, RInv(x), x.up.account # None, Eases(x, y) PROVE RInv(y)
  BY Zenon DEF RInv, Eases, Freer

-----------------------------------------------------------------------------
\* One field of one request, or the request in hand, while the loop moves on.
LEMMA TakenSettles ==
    ASSUME NEW x, Settled(x), NEW r, NEW v, NEW b
    PROVE  /\ Settled([x EXCEPT !.req = v])
           /\ Settled([x EXCEPT !.t[r].reserved = b])
           /\ Settled([x EXCEPT !.t[r].reattach = b])
           /\ Settled([x EXCEPT !.replay = v])
           /\ Settled([x EXCEPT !.asked = v])
           /\ Settled([x EXCEPT !.pend = v])
  <1> USE DEF Settled
  <1>1. ASSUME NEW y, DOMAIN y = Fields, y.slot = x.slot, y.up = x.up, y.t = x.t PROVE Settled(y)
    BY Zenon, <1>1 DEF Shaped
  <1>2. DOMAIN x = Fields
    BY Zenon DEF Shaped
  <1>3. Settled([x EXCEPT !.req = v])
    BY Zenon, <1>1, <1>2 DEF Fields
  <1>4. Settled([x EXCEPT !.replay = v])
    BY Zenon, <1>1, <1>2 DEF Fields
  <1>5. Settled([x EXCEPT !.asked = v])
    BY Zenon, <1>1, <1>2 DEF Fields
  <1>6. Settled([x EXCEPT !.pend = v])
    BY Zenon, <1>1, <1>2 DEF Fields
  <1>7. \A q : IsRequest(q) => /\ IsRequest([q EXCEPT !.reserved = b])
                               /\ [q EXCEPT !.reserved = b].shape = q.shape
                               /\ IsRequest([q EXCEPT !.reattach = b])
                               /\ [q EXCEPT !.reattach = b].shape = q.shape
    BY Zenon DEF IsRequest, RequestFields
  <1>8. /\ Same(x, [x EXCEPT !.t[r] = [x.t[r] EXCEPT !.reserved = b]])
        /\ Same(x, [x EXCEPT !.t[r] = [x.t[r] EXCEPT !.reattach = b]])
    BY Zenon, <1>7, RequestSame DEF Shaped
  <1>9. /\ Settled([x EXCEPT !.t[r].reserved = b]) 
        /\ Settled([x EXCEPT !.t[r].reattach = b])
    BY <1>8, SettledSame
  <1> QED
    BY Zenon, <1>3, <1>4, <1>5, <1>6, <1>9

LEMMA CollectStep == ASSUME RInv(w), Collect PROVE RInv(w')
  BY Zenon, CollectedSettles, Rests DEF Collect, RInv

LEMMA RejoinStep == ASSUME RInv(w), Rejoin PROVE RInv(w')
  <1>1. PICK v : w' = [[w EXCEPT !.pend = Append(@, w.req)] EXCEPT !.pc = v] /\ v \in {"collect", "owner"}
    BY Zenon DEF Rejoin
  <1>2. Settled([w EXCEPT !.pend = Append(@, w.req)])
    BY Zenon, IsSettled, TakenSettles DEF Rejoin
  <1> QED
    BY Zenon, <1>1, <1>2, Moves

LEMMA TakeReplayStep == ASSUME RInv(w), TakeReplay PROVE RInv(w')
  <1>1. PICK r : r = w.replay
    BY Zenon
  <1>2. Settled(w)
    BY Zenon, IsSettled DEF TakeReplay
  <1>3. PICK x : x = [w EXCEPT !.replay = None]
    BY Zenon
  <1>4. PICK y : y = [x EXCEPT !.req = r]
    BY Zenon
  <1>5. PICK z : z = [y EXCEPT !.t[r].reattach = TRUE]
    BY Zenon
  <1>6. Settled(z)
    BY Zenon, <1>2, <1>3, <1>4, <1>5, TakenSettles
  <1>7. w' = [z EXCEPT !.pc = "take"]
    BY Zenon, <1>1, <1>3, <1>4, <1>5 DEF TakeReplay
  <1> QED
    BY Zenon, <1>6, <1>7, Moves

LEMMA ReceiveStep == ASSUME RInv(w), NEW r \in Requests, Receive(r) PROVE RInv(w')
  <1>1. PICK x : x = [w EXCEPT !.asked = @ \cup {r}]
    BY Zenon
  <1>2. Settled(w) /\ Settled(x) /\ w.pc = "receive"
    BY Zenon, <1>1, IsSettled, TakenSettles DEF Receive
  <1>3. PICK y : y = [x EXCEPT !.req = r]
    BY Zenon
  <1>4. Settled(y)
    BY Zenon, <1>2, <1>3, TakenSettles
  <1>5. PICK z : z = [y EXCEPT !.t[r].reserved = TRUE]
    BY Zenon
  <1>6. Settled(z)
    BY Zenon, <1>4, <1>5, TakenSettles
  <1>7. CASE w' = x
    BY Zenon, <1>1, <1>2, <1>7, Rests DEF Settled, Shaped, Fields
  <1>8. CASE w' = [x EXCEPT !.req = r, !.t[r].reserved = TRUE, !.pc = "collect"]
    <2>1. w' = [z EXCEPT !.pc = "collect"]
      BY Zenon, <1>3, <1>5, <1>8
    <2> QED
      BY Zenon, <1>6, <2>1, Moves
  <1>9. CASE w' = [x EXCEPT !.req = r, !.pc = "gap"]
    <2>1. w' = [y EXCEPT !.pc = "gap"]
      BY Zenon, <1>3, <1>9
    <2> QED
      BY Zenon, <1>4, <2>1, Moves
  <1> QED
    BY Zenon, <1>1, <1>7, <1>8, <1>9 DEF Receive

LEMMA GapStep == ASSUME RInv(w), GapEnds PROVE RInv(w')
  <1>1. Settled(w)
    BY Zenon, IsSettled DEF GapEnds
  <1>2. CASE w' = Back(w)
    BY Zenon, <1>1, <1>2, BackRests
  <1>3. CASE w' = [w EXCEPT !.t[w.req].reserved = TRUE, !.pc = "collect"]
    <2>1. PICK z : z = [w EXCEPT !.t[w.req].reserved = TRUE]
      BY Zenon
    <2>2. Settled(z)
      BY Zenon, <1>1, <2>1, TakenSettles
    <2>3. w' = [z EXCEPT !.pc = "collect"]
      BY Zenon, <1>3, <2>1
    <2> QED
      BY Zenon, <2>2, <2>3, Moves
  <1> QED
    BY Zenon, <1>2, <1>3 DEF GapEnds

LEMMA CollectAgainStep == ASSUME RInv(w), CollectAgain PROVE RInv(w')
  <1>1. PICK x : x = IF w.up.reader = "done" THEN Collected(w) ELSE w
    BY Zenon
  <1>2. Settled(x)
    BY Zenon, <1>1, IsSettled, CollectedSettles DEF CollectAgain, RInv
  <1>3. w' = [x EXCEPT !.pc = "owner"]
    BY Zenon, <1>1 DEF CollectAgain
  <1> QED
    BY Zenon, <1>2, <1>3, Moves

\* A shape gets another owner while the loop waits for nothing of it.
LEMMA OwnedSettles ==
    ASSUME NEW x, Settled(x), NEW r, NEW a
    PROVE  Settled([x EXCEPT !.t[r].shape.owner = a])
  <1>1. PICK y : y = [x EXCEPT !.t[r].shape.owner = a]
    BY Zenon
  <1>2. DOMAIN x = Fields /\ DOMAIN x.t = Requests
    BY Zenon DEF Settled, Shaped
  <1>3. DOMAIN y = Fields /\ y.slot = x.slot /\ y.up = x.up /\ y.t = [x.t EXCEPT ![r].shape.owner = a]
    BY Zenon, <1>1, <1>2 DEF Fields
  <1>4. DOMAIN y.t = Requests
    BY Zenon, <1>2, <1>3
  <1>5. ASSUME NEW s \in Requests PROVE IsRequest(y.t[s])
    <2>1. IsRequest(x.t[s])
      BY Zenon DEF Settled, Shaped
    <2>2. y.t[s] = IF s = r THEN [x.t[s] EXCEPT !.shape.owner = a] ELSE x.t[s]
      BY Zenon, <1>2, <1>3
    <2> QED
      BY <2>1, <2>2 DEF IsRequest, RequestFields, ShapeFields
  <1> QED
    BY Zenon, <1>1, <1>3, <1>4, <1>5 DEF Settled, Shaped

LEMMA ResolveStep == ASSUME RInv(w), ResolveOwner PROVE RInv(w')
  <1>1. Settled(w)
    BY Zenon, IsSettled DEF ResolveOwner
  <1>2. PICK r : r = w.req
    BY Zenon
  <1>3. ASSUME NEW x, Settled(x)
        PROVE  RInv([x EXCEPT !.pc = IF x.t[r].reattach THEN "switch" ELSE "gate"])
    BY Zenon, <1>3, Moves
  <1>4. CASE w' = Back(Unreserve(w, r))
    BY Zenon, <1>1, <1>4, UnreserveSame, SettledSame, BackRests DEF Settled
  <1>5. CASE \E a : LET x == [w EXCEPT !.t[r].shape.owner = a]
                    IN  w' = [x EXCEPT !.pc = IF x.t[r].reattach THEN "switch" ELSE "gate"]
    BY Zenon, <1>1, <1>3, <1>5, OwnedSettles
  <1>6. CASE w' = [w EXCEPT !.pc = IF w.t[r].reattach THEN "switch" ELSE "gate"]
    BY Zenon, <1>1, <1>3, <1>6
  <1> QED
    BY Zenon, <1>2, <1>4, <1>5, <1>6 DEF ResolveOwner

LEMMA ConflictStep == ASSUME RInv(w), ResendConflicts PROVE RInv(w')
  <1>1. Settled(w)
    BY Zenon, IsSettled DEF ResendConflicts
  <1>2. Settled(Unreserve(w, w.req))
    BY Zenon, <1>1, UnreserveSame, SettledSame DEF Settled
  <1> QED
    BY Zenon, <1>2, BackRests DEF ResendConflicts

LEMMA AdmitStep == ASSUME RInv(w), Admit PROVE RInv(w')
  <1>1. PICK r : r = w.req
    BY Zenon
  <1>2. DOMAIN w = Fields /\ DOMAIN w.t = Requests
    BY Zenon DEF RInv, Shaped
  <1>3. DOMAIN w' = Fields /\ w'.pc = "switch" /\ w'.slot = w.slot /\ w'.up = w.up
    BY Zenon, <1>2 DEF Admit, Fields
  <1>4. w'.t = [w.t EXCEPT ![r].gate = TRUE, ![r].awaiting = TRUE]
    BY Zenon, <1>1, <1>2 DEF Admit, Fields
  <1>5. DOMAIN w'.t = Requests /\ \A s \in Requests : IsRequest(w'.t[s])
    BY <1>2, <1>4 DEF RInv, Shaped, IsRequest, RequestFields
  <1>6. Settled(w')
    <2>1. Settled(w)
      BY Zenon, IsSettled DEF Admit
    <2> QED
      BY Zenon, <1>3, <1>5, <2>1 DEF Settled, Shaped
  <1> QED
    BY Zenon, <1>3, <1>6, Rests

LEMMA AdmissionFailsStep == ASSUME RInv(w), AdmissionFails PROVE RInv(w')
  <1>1. Settled(w)
    BY Zenon, IsSettled DEF AdmissionFails
  <1>2. Settled(Ended(w, w.req))
    BY Zenon, <1>1, EndedSame, SettledSame DEF Settled
  <1> QED
    BY Zenon, <1>2, BackRests DEF AdmissionFails

\* A request is taken off the list and ended.
LEMMA EndsRest ==
    ASSUME NEW x, Settled(x), NEW v, NEW r
    PROVE  RInv(Back(Ended([x EXCEPT !.pend = v], r)))
  <1>1. PICK y : y = [x EXCEPT !.pend = v]
    BY Zenon
  <1>2. Settled(y)
    BY Zenon, <1>1, TakenSettles
  <1>3. Shaped(y)
    BY Zenon, <1>2 DEF Settled
  <1>4. Settled(Ended(y, r))
    BY Zenon, <1>2, <1>3, EndedSame, SettledSame
  <1> QED
    BY Zenon, <1>1, <1>4, BackRests

LEMMA SwitchStep == ASSUME RInv(w), Switch PROVE RInv(w')
  <1>1. Settled(w) /\ DOMAIN w = Fields
    BY Zenon, IsSettled DEF Switch, RInv, Shaped
  <1>2. PICK owner : owner = w.t[w.req].shape.owner
    BY Zenon
  <1>3. CASE \E v : w' = Back(Ended([w EXCEPT !.pend = v], w.req))
    BY Zenon, <1>1, <1>3, EndsRest
  <1>4. CASE w' = [DropSocket(w) EXCEPT !.pc = "connect"]
    <2>1. PICK x : x = DropSocket(w)
      BY Zenon
    <2>2. Settled(x) /\ x.up.account = None
      BY Zenon, <1>1, <2>1, DropSettles, NoSocketFacts DEF DropSocket, RInv, Fields
    <2>3. DOMAIN w' = Fields /\ w'.pc = "connect" /\ w'.slot = x.slot /\ w'.up = x.up /\ w'.t = x.t
      BY Zenon, <1>4, <2>1, <2>2 DEF Settled, Shaped, Fields
    <2> QED
      BY Zenon, <2>2, <2>3 DEF RInv, Settled, Shaped
  <1>5. CASE /\ ~(w.up.account # None /\ owner # None /\ owner # w.up.account)
             /\ w' = [w EXCEPT !.pc = IF w.up.account = None THEN "connect" ELSE "send"]
    <2>1. /\ DOMAIN w' = Fields /\ w'.slot = w.slot /\ w'.up = w.up /\ w'.t = w.t /\ w'.req = w.req
          /\ w'.pc = IF w.up.account = None THEN "connect" ELSE "send"
      BY Zenon, <1>1, <1>5 DEF Fields
    <2>2. ASSUME w.up.account # None, Pinned(w.t[w.req]) PROVE w.slot = w.t[w.req].shape.owner
      BY Zenon, <1>1, <1>2, <1>5, <2>2 DEF Pinned, Settled
    <2> QED
      BY Zenon, <1>1, <2>1, <2>2 DEF RInv, Settled, Shaped
  <1> QED
    BY Zenon, <1>2, <1>3, <1>4, <1>5 DEF Switch

LEMMA SelectedFacts ==
    ASSUME NEW q, IsRequest(q), NEW a, Pinned(q) => a = q.shape.owner
    PROVE  /\ IsRequest(Selected(q, a))
           /\ Pinned(Selected(q, a)) => a = Selected(q, a).shape.owner
  <1>1. PICK f, o : /\ Selected(q, a) = [q EXCEPT !.force = f, !.shape.owner = o]
                    /\ o \in {q.shape.owner, None}
    <2>1. PICK f : f = IF q.force = a THEN q.force ELSE None
      BY Zenon
    <2>2. [q EXCEPT !.force = f].shape = q.shape
      BY Zenon DEF IsRequest, RequestFields
    <2>3. PICK o : o = IF q.force # None /\ q.force # a /\ q.shape.owner = q.force
                       THEN None ELSE q.shape.owner
      BY Zenon
    <2>4. Selected(q, a) = [q EXCEPT !.force = f, !.shape.owner = o]
      BY Zenon, <2>1, <2>2, <2>3 DEF Selected
    <2> QED
      BY Zenon, <2>3, <2>4
  <1>2. PICK p : p = Selected(q, a)
    BY Zenon
  <1>3. /\ DOMAIN p = RequestFields /\ DOMAIN p.shape = ShapeFields
        /\ p.shape.owner = o /\ p.shape.anchored = q.shape.anchored
    BY <1>1, <1>2 DEF IsRequest, RequestFields, ShapeFields
  <1> QED
    BY Zenon, <1>1, <1>2, <1>3 DEF IsRequest, Pinned

LEMMA SelectStep == ASSUME RInv(w), NEW a \in Accounts, SelectAccount(a) PROVE RInv(w')
  <1>1. PICK r : r = w.req
    BY Zenon
  <1>2. DOMAIN w = Fields /\ DOMAIN w.t = Requests /\ w.pc = "connect" /\ w.up.account = None
    BY Zenon DEF RInv, Shaped, SelectAccount
  <1>3. DOMAIN w' = Fields /\ w'.pc = "opening" /\ w'.slot = a /\ w'.up = w.up /\ w'.req = w.req
    BY Zenon, <1>2 DEF SelectAccount, Fields
  <1>4. w'.t = [w.t EXCEPT ![r] = Selected(w.t[r], a)]
    BY Zenon, <1>1, <1>2 DEF SelectAccount, Fields
  <1>5. DOMAIN w'.t = Requests
    BY Zenon, <1>2, <1>4
  <1>6. r \in Requests => /\ IsRequest(Selected(w.t[r], a))
                          /\ Pinned(Selected(w.t[r], a)) => a = Selected(w.t[r], a).shape.owner
    BY Zenon, <1>1, SelectedFacts DEF RInv, Shaped, SelectAccount
  <1>7. ASSUME NEW s \in Requests
        PROVE  IsRequest(w'.t[s]) /\ (s = r /\ Pinned(w'.t[s]) => a = w'.t[s].shape.owner)
    BY Zenon, <1>2, <1>4, <1>6 DEF RInv, Shaped
  <1>8. a # None
    BY Zenon, RelayAssumption
  <1> QED
    BY Zenon, <1>1, <1>2, <1>3, <1>5, <1>7, <1>8 DEF RInv, Shaped

\* The attempt is given up before there is a socket.
LEMMA GivenUpRests ==
    ASSUME NEW x, Shaped(x), x.up = NoSocket PROVE RInv(ConnectGivenUp(x))
  <1>1. PICK r : r = x.req
    BY Zenon
  <1>2. PICK z : z = [x EXCEPT !.pend = Without(@, r), !.tried = {}, !.slot = None]
    BY Zenon
  <1>3. DOMAIN z = Fields /\ z.slot = None /\ z.up = NoSocket /\ z.t = x.t
    BY Zenon, <1>2 DEF Shaped, Fields
  <1>4. Settled(z)
    BY Zenon, <1>3, NoSocketFacts DEF Settled, Shaped
  <1>5. PICK y : y = Ended(z, r)
    BY Zenon
  <1>6. Shaped(z)
    BY Zenon, <1>4 DEF Settled
  <1>7. Settled(y) /\ Shaped(y)
    BY Zenon, <1>4, <1>5, <1>6, EndedSame, SettledSame, SameShaped
  <1>8. RInv(Back(y)) /\ RInv(Finally(y))
    BY Zenon, <1>7, BackRests, FinallyRests
  <1>9. ConnectGivenUp(x) = IF x.client = "open" THEN Back(y) ELSE Finally(y)
    BY Zenon, <1>1, <1>2, <1>5 DEF ConnectGivenUp
  <1> QED
    BY Zenon, <1>8, <1>9

LEMMA SelectFailsStep == ASSUME RInv(w), SelectFails PROVE RInv(w')
  <1>1. w.up = NoSocket /\ Shaped(w)
    BY Zenon DEF RInv, SelectFails
  <1> QED
    BY Zenon, <1>1, GivenUpRests DEF SelectFails

LEMMA OpenFailsStep == ASSUME RInv(w), OpenFails PROVE RInv(w')
  <1>1. w.up = NoSocket /\ Shaped(w)
    BY Zenon DEF RInv, OpenFails
  <1> QED
    BY Zenon, <1>1, GivenUpRests DEF OpenFails

LEMMA TryNextStep == ASSUME RInv(w), TryNext PROVE RInv(w')
  <1>1. DOMAIN w = Fields /\ w.up = NoSocket
    BY Zenon DEF RInv, Shaped, TryNext
  <1>2. DOMAIN w' = Fields /\ w'.pc = "connect" /\ w'.slot = None /\ w'.up = w.up /\ w'.t = w.t
    BY Zenon, <1>1 DEF TryNext, Fields
  <1> QED
    BY Zenon, <1>1, <1>2, NoSocketFacts DEF RInv, Shaped

LEMMA OpenedStep == ASSUME RInv(w), Opened PROVE RInv(w')
  <1>1. PICK r : r = w.req
    BY Zenon
  <1>2. DOMAIN w = Fields /\ DOMAIN w.t = Requests /\ w.slot # None
    BY Zenon DEF RInv, Shaped, Opened
  <1>3. PICK u : u = [NoSocket EXCEPT !.account = w.slot, !.open = TRUE, !.reader = "run"]
    BY Zenon
  <1>4. DOMAIN u = UpFields /\ u.account = w.slot
    BY Zenon, <1>3 DEF NoSocket, UpFields
  <1>5. DOMAIN w' = Fields /\ w'.pc = "send" /\ w'.slot = w.slot /\ w'.up = u /\ w'.req = w.req
    BY <1>2, <1>3 DEF Opened, Fields
  <1>6. w'.t = [w.t EXCEPT ![r].force = None]
    BY <1>1, <1>2 DEF Opened, Fields
  <1>7. DOMAIN w'.t = Requests
    BY Zenon, <1>2, <1>6
  <1>8. ASSUME NEW s \in Requests PROVE IsRequest(w'.t[s]) /\ w'.t[s].shape = w.t[s].shape
    BY <1>2, <1>6 DEF RInv, Shaped, IsRequest, RequestFields
  <1>9. w.pc = "opening"
    BY Zenon DEF Opened
  <1> QED
    BY Zenon, <1>2, <1>4, <1>5, <1>7, <1>8, <1>9 DEF RInv, Shaped, Pinned

LEMMA SendStep == ASSUME RInv(w), Send PROVE RInv(w')
  <1>1. PICK r : r = w.req
    BY Zenon
  <1>2. DOMAIN w = Fields /\ DOMAIN w.t = Requests /\ DOMAIN w.up = UpFields /\ Settled(w)
    BY Zenon, IsSettled DEF RInv, Shaped, Send
  <1>3. PICK v : w' = Back([w EXCEPT !.t[r].lease = TRUE, !.t[r].sent = TRUE, !.up.wire = v])
    BY Zenon, <1>1 DEF Send
  <1>4. PICK x : x = [w EXCEPT !.t[r].lease = TRUE, !.t[r].sent = TRUE, !.up.wire = v]
    BY Zenon
  <1>5. /\ DOMAIN x = Fields /\ x.slot = w.slot /\ x.up = [w.up EXCEPT !.wire = v]
        /\ x.t = [w.t EXCEPT ![r].lease = TRUE, ![r].sent = TRUE]
    BY Zenon, <1>2, <1>4 DEF Fields
  <1>6. DOMAIN x.up = UpFields /\ x.up.account = w.up.account
    BY Zenon, <1>2, <1>5 DEF UpFields
  <1>7. w.up.account # None
    BY DEF RInv, Send, NoSocket
  <1>8. DOMAIN x.t = Requests /\ \A s \in Requests : IsRequest(x.t[s])
    BY <1>2, <1>5 DEF Settled, Shaped, IsRequest, RequestFields
  <1>9. Settled(x)
    BY Zenon, <1>2, <1>5, <1>6, <1>7, <1>8 DEF Settled, Shaped
  <1> QED
    BY Zenon, <1>3, <1>4, <1>9, BackRests

LEMMA RefusedStep == ASSUME RInv(w), SendRefused PROVE RInv(w')
  BY Zenon, IsSettled, EndsRest DEF SendRefused

LEMMA SendFailsStep == ASSUME RInv(w), SendFails PROVE RInv(w')
  <1>1. PICK r : r = w.req
    BY Zenon
  <1>2. PICK q : q = [w.t[r] EXCEPT !.lease = TRUE]
    BY Zenon
  <1>3. Shaped(w)
    BY Zenon DEF RInv
  <1>4. r \in Requests => IsRequest(q) /\ q.shape = w.t[r].shape
    BY Zenon, <1>2, <1>3 DEF Shaped, IsRequest, RequestFields
  <1>5. PICK x : x = [w EXCEPT !.t[r] = q]
    BY Zenon
  <1>6. Shaped(x)
    BY Zenon, <1>3, <1>4, <1>5, RequestSame, SameShaped
  <1>7. w' = Back(DropSocket(FailSequenced(x)))
    BY Zenon, <1>1, <1>2, <1>5 DEF SendFails
  <1> QED
    BY Zenon, <1>6, <1>7, FailSequencedSame, SameShaped, DropSettles, BackRests

LEMMA SendCrashesStep == ASSUME RInv(w), SendCrashes PROVE RInv(w')
  <1>1. Shaped(w)
    BY Zenon DEF RInv
  <1>2. PICK p : p = Popped(w)
    BY Zenon
  <1>3. Shaped(p)
    BY Zenon, <1>1, <1>2, PoppedEases, EasesShaped
  <1>4. PICK x : x = [p EXCEPT !.replay = Head(w.pend)]
    BY Zenon
  <1>5. Shaped(x)
    BY Zenon, <1>3, <1>4, PlainSame, SameShaped
  <1>6. Shaped(FailSequenced(w))
    BY Zenon, <1>1, FailSequencedSame, SameShaped
  <1>7. w' = Back(DropSocket(x)) \/ w' = Back(DropSocket(FailSequenced(w)))
    BY Zenon, <1>2, <1>4 DEF SendCrashes
  <1> QED
    BY Zenon, <1>5, <1>6, <1>7, DropSettles, BackRests

LEMMA LeaveStep == ASSUME RInv(w), Leave PROVE RInv(w')
  BY Zenon, FinallyRests DEF Leave, RInv

LEMMA DisconnectStep == ASSUME RInv(w), Disconnect PROVE RInv(w')
  <1>1. Shaped(w)
    BY Zenon DEF RInv
  <1> QED
    BY Zenon, <1>1, PlainSame, SameKeeps DEF Disconnect

-----------------------------------------------------------------------------
(* The reader *)

\* There is a socket while there is a reader of it.
LEMMA HasSocket == ASSUME RInv(w), w.up.reader # "none" PROVE w.up.account # None /\ Shaped(w)
  BY Zenon, NoSocketFacts DEF RInv

LEMMA StopsKeeps ==
    ASSUME RInv(w), w.up.account # None, NEW x, Eases(w, x), w' = Stops(x) PROVE RInv(w')
  <1>1. Eases(x, Stops(x))
    BY Zenon, EasesShaped, StopsEases
  <1>2. Eases(w, Stops(x))
    BY Zenon, <1>1, EasesTwice
  <1> QED
    BY Zenon, <1>2, EasesKeeps

LEMMA CreatedStep == ASSUME RInv(w), Created PROVE RInv(w')
  <1>1. w.up.account # None /\ Shaped(w)
    BY Zenon, HasSocket DEF Created, Reading
  <1>2. PICK i : i = NextUncreated
    BY Zenon
  <1>3. PICK u : u = [w.up EXCEPT !.wire[i].created = TRUE]
    BY Zenon
  <1>4. DOMAIN u = UpFields /\ u.account = w.up.account
    BY Zenon, <1>1, <1>3 DEF Shaped, UpFields
  <1>5. PICK x : x = [w EXCEPT !.up = u]
    BY Zenon
  <1>6. Eases(w, x) /\ Shaped(x)
    BY Zenon, <1>1, <1>4, <1>5, SocketEases, EasesShaped
  <1>7. PICK o, r : \/ w' = Stops(x)
                    \/ w' = Stops(ReleaseGate([x EXCEPT !.t[r].rid = o, !.t[r].seq = @ \/ w.numbered], r))
    <2>1. x = [w EXCEPT !.up.wire[i].created = TRUE]
      BY Zenon, <1>3, <1>5
    <2> QED
      BY Zenon, <1>2, <2>1 DEF Created
  <1>8. PICK q : q = [x.t[r] EXCEPT !.rid = o, !.seq = @ \/ w.numbered]
    BY Zenon
  <1>9. r \in Requests => IsRequest(q) /\ q.shape = x.t[r].shape
    BY Zenon, <1>6, <1>8 DEF Shaped, IsRequest, RequestFields
  <1>10. PICK y : y = [x EXCEPT !.t[r] = q]
    BY Zenon
  <1>11. Same(x, y) /\ Shaped(y)
    BY Zenon, <1>6, <1>9, <1>10, RequestSame, SameShaped
  <1>12. Eases(w, ReleaseGate(y, r))
    BY Zenon, <1>6, <1>11, ReleaseSame, SameEases, EasesTwice
  <1>13. y = [x EXCEPT !.t[r].rid = o, !.t[r].seq = @ \/ w.numbered]
    BY Zenon, <1>8, <1>10
  <1> QED
    BY Zenon, <1>1, <1>6, <1>7, <1>12, <1>13, StopsKeeps

LEMMA FrameStep == ASSUME RInv(w), NEW i, Frame(i) PROVE RInv(w')
  <1>1. w.up.account # None /\ Shaped(w)
    BY Zenon, HasSocket DEF Frame, Reading
  <1>2. PICK r : w' = Stops([w EXCEPT !.t[r].visible = TRUE, !.t[r].seq = @ \/ w.numbered])
    BY Zenon DEF Frame
  <1>3. PICK q : q = [w.t[r] EXCEPT !.visible = TRUE, !.seq = @ \/ w.numbered]
    BY Zenon
  <1>4. r \in Requests => IsRequest(q) /\ q.shape = w.t[r].shape
    BY Zenon, <1>1, <1>3 DEF Shaped, IsRequest, RequestFields
  <1>5. PICK y : y = [w EXCEPT !.t[r] = q]
    BY Zenon
  <1>6. Eases(w, y)
    BY Zenon, <1>1, <1>4, <1>5, RequestSame, SameEases
  <1>7. y = [w EXCEPT !.t[r].visible = TRUE, !.t[r].seq = @ \/ w.numbered]
    BY Zenon, <1>3, <1>5
  <1> QED
    BY Zenon, <1>1, <1>2, <1>6, <1>7, StopsKeeps

\* A pending request is taken off the list and ended.
LEMMA EndsEases ==
    ASSUME NEW x, Shaped(x), NEW v, NEW r PROVE Eases(x, Ended([x EXCEPT !.pend = v], r))
  <1>1. PICK y : y = [x EXCEPT !.pend = v]
    BY Zenon
  <1>2. Same(x, y)
    BY Zenon, <1>1, PlainSame
  <1>3. Same(y, Ended(y, r))
    BY Zenon, <1>2, SameShaped, EndedSame
  <1> QED
    BY Zenon, <1>1, <1>2, <1>3, SameTwice, SameEases

LEMMA CompletesStep == ASSUME RInv(w), NEW i, Completes(i) PROVE RInv(w')
  <1>1. w.up.account # None /\ Shaped(w)
    BY Zenon, HasSocket DEF Completes, Reading
  <1>2. PICK x : x = WithoutEntry(w, i)
    BY Zenon
  <1>3. Eases(w, x) /\ Shaped(x)
    BY Zenon, <1>1, <1>2, WithoutEntryEases, EasesShaped
  <1>4. PICK r, v : w' = Stops(x) \/ w' = Stops(Ended([x EXCEPT !.pend = v], r))
    BY Zenon, <1>2 DEF Completes
  <1>5. Eases(w, Ended([x EXCEPT !.pend = v], r))
    BY Zenon, <1>3, EndsEases, EasesTwice
  <1> QED
    BY Zenon, <1>1, <1>3, <1>4, <1>5, StopsKeeps

LEMMA FailedStep == ASSUME RInv(w), NEW i, NEW k, Failed(i, k) PROVE RInv(w')
  <1>1. w.up.account # None /\ Shaped(w)
    BY Zenon, HasSocket DEF Failed, Reading
  <1>2. PICK x : x = WithoutEntry(w, i)
    BY Zenon
  <1>3. Eases(w, x) /\ Shaped(x)
    BY Zenon, <1>1, <1>2, WithoutEntryEases, EasesShaped
  <1>4. CASE w' = Stops(x)
    BY Zenon, <1>1, <1>3, <1>4, StopsKeeps
  <1>5. CASE \E r, v : \E y \in Handled([x EXCEPT !.pend = v], r, k) : w' = Stops(y)
    <2>1. PICK r, v : \E y \in Handled([x EXCEPT !.pend = v], r, k) : w' = Stops(y)
      BY Zenon, <1>5
    <2>2. PICK z : z = [x EXCEPT !.pend = v]
      BY Zenon
    <2>3. Eases(w, z) /\ Shaped(z)
      BY Zenon, <1>3, <2>2, PlainSame, SameEases, SameShaped, EasesTwice
    <2>4. PICK y \in Handled(z, r, k) : w' = Stops(y)
      BY Zenon, <2>1, <2>2
    <2>5. Eases(w, y)
      BY Zenon, <2>3, HandledEases, EasesTwice
    <2> QED
      BY Zenon, <1>1, <2>4, <2>5, StopsKeeps
  <1> QED
    BY Zenon, <1>2, <1>4, <1>5 DEF Failed

LEMMA FailedForAllStep == ASSUME RInv(w), FailedForAll PROVE RInv(w')
  <1>1. w.up.account # None /\ Shaped(w)
    BY Zenon, HasSocket DEF FailedForAll, Reading
  <1>2. PICK x : x = FailAll(w)
    BY Zenon
  <1>3. Eases(w, x) /\ Shaped(x)
    BY Zenon, <1>1, <1>2, FailAllSame, SameEases, SameShaped
  <1>4. Eases(w, [x EXCEPT !.up.reconnect = TRUE])
    BY Zenon, <1>3, ReconnectEases, EasesTwice
  <1> QED
    BY Zenon, <1>1, <1>2, <1>4, StopsKeeps DEF FailedForAll

\* The reader stops after x.
LEMMA StoppingKeeps ==
    ASSUME RInv(w), w.up.account # None, NEW x, Eases(w, x),
           w' = [x EXCEPT !.up.reader = "stopping", !.up.open = FALSE]
    PROVE  RInv(w')
  <1>1. Eases(x, w')
    BY Zenon, EasesShaped, StoppingEases
  <1>2. Eases(w, w')
    BY Zenon, <1>1, EasesTwice
  <1> QED
    BY Zenon, <1>2, EasesKeeps

LEMMA LostStep == ASSUME RInv(w), Lost PROVE RInv(w')
  <1>1. w.up.account # None /\ Shaped(w)
    BY Zenon, HasSocket DEF Lost, Reading
  <1>2. PICK x : x = IF Replayable(w) THEN Parked(Popped(w), Head(w.pend)) ELSE FailSequenced(w)
    BY Zenon
  <1>3. Eases(w, Popped(w)) /\ Shaped(Popped(w))
    BY Zenon, <1>1, PoppedEases, EasesShaped
  <1>4. Eases(w, Parked(Popped(w), Head(w.pend)))
    BY Zenon, <1>3, ParkedEases, EasesTwice
  <1>5. Eases(w, FailSequenced(w))
    BY Zenon, <1>1, FailSequencedSame, SameEases
  <1>6. Eases(w, x)
    BY Zenon, <1>2, <1>4, <1>5
  <1> QED
    BY Zenon, <1>1, <1>2, <1>6, StoppingKeeps DEF Lost

LEMMA NetworkLostStep == ASSUME RInv(w), NetworkLost PROVE RInv(w')
  <1>1. w.up.account # None /\ Shaped(w)
    BY Zenon, HasSocket DEF NetworkLost, Reading
  <1>2. Eases(w, FailSequenced(w))
    BY Zenon, <1>1, FailSequencedSame, SameEases
  <1> QED
    BY Zenon, <1>1, <1>2, StoppingKeeps DEF NetworkLost

LEMMA IdleStep == ASSUME RInv(w), IdleTimeout PROVE RInv(w')
  <1>1. w.up.account # None /\ Shaped(w)
    BY Zenon, HasSocket DEF IdleTimeout, Reading
  <1>2. PICK x : x = FailAll(w)
    BY Zenon
  <1>3. Eases(w, x) /\ Shaped(x)
    BY Zenon, <1>1, <1>2, FailAllSame, SameEases, SameShaped
  <1>4. Eases(w, [x EXCEPT !.up.reconnect = TRUE])
    BY Zenon, <1>3, ReconnectEases, EasesTwice
  <1>5. w' = [[x EXCEPT !.up.reconnect = TRUE] EXCEPT !.up.reader = "stopping", !.up.open = FALSE]
    BY Zenon, <1>2 DEF IdleTimeout
  <1> QED
    BY Zenon, <1>1, <1>4, <1>5, StoppingKeeps

LEMMA ExpiresStep == ASSUME RInv(w), NEW r, Expires(r) PROVE RInv(w')
  <1>1. w.up.account # None /\ Shaped(w)
    BY Zenon, HasSocket DEF Expires, Reading
  <1> QED
    BY Zenon, <1>1, EndsEases, EasesKeeps DEF Expires

LEMMA ClientGoneStep == ASSUME RInv(w), FindsClientGone PROVE RInv(w')
  <1>1. w.up.account # None /\ Shaped(w)
    BY Zenon, HasSocket DEF FindsClientGone, Reading
  <1>2. PICK x : x = FailAll(w)
    BY Zenon
  <1>3. Eases(w, x) /\ Shaped(x)
    BY Zenon, <1>1, <1>2, FailAllSame, SameEases, SameShaped
  <1>4. Eases(w, [x EXCEPT !.client = "gone"])
    BY Zenon, <1>3, PlainSame, SameEases, EasesTwice
  <1>5. w' = [[x EXCEPT !.client = "gone"] EXCEPT !.up.reader = "stopping", !.up.open = FALSE]
    BY Zenon, <1>2 DEF FindsClientGone
  <1> QED
    BY Zenon, <1>1, <1>4, <1>5, StoppingKeeps

LEMMA ReaderExitsStep == ASSUME RInv(w), ReaderExits PROVE RInv(w')
  <1>1. w.up.account # None /\ Shaped(w)
    BY Zenon, HasSocket DEF ReaderExits
  <1>2. PICK u : u = [w.up EXCEPT !.reader = "done"]
    BY Zenon
  <1>3. DOMAIN u = UpFields /\ u.account = w.up.account
    BY Zenon, <1>1, <1>2 DEF Shaped, UpFields
  <1>4. PICK x : x = [w EXCEPT !.up = u]
    BY Zenon
  <1>5. Eases(w, x) /\ Shaped(x)
    BY Zenon, <1>1, <1>3, <1>4, SocketEases, EasesShaped
  <1>6. PICK v : w' = [x EXCEPT !.client = v]
    BY Zenon, <1>2, <1>4 DEF ReaderExits
  <1>7. Eases(w, w')
    BY Zenon, <1>5, <1>6, PlainSame, SameEases, EasesTwice
  <1> QED
    BY Zenon, <1>1, <1>7, EasesKeeps

-----------------------------------------------------------------------------
LEMMA InitHolds == ASSUME RelayInit PROVE RInv(w)
  <1>1. PICK shape \in Shapes, numbered \in BOOLEAN :
          w = [numbered |-> numbered, pc |-> "receive", req |-> None, replay |-> None,
               tried |-> {}, up |-> NoSocket, slot |-> None,
               pend |-> <<>>, client |-> "open", sockets |-> 0, permits |-> 1, asked |-> {},
               t |-> [r \in Requests |-> Fresh(shape[r])]]
    BY Zenon DEF RelayInit
  <1>2. /\ DOMAIN w = Fields /\ w.pc = "receive" /\ w.up = NoSocket /\ w.slot = None
        /\ w.t = [r \in Requests |-> Fresh(shape[r])]
    BY Zenon, <1>1 DEF Fields
  <1>3. ASSUME NEW r \in Requests PROVE IsRequest(w.t[r])
    <2>1. DOMAIN shape[r] = ShapeFields
      BY Zenon, RelayAssumption DEF ShapeFields
    <2>2. w.t[r] = Fresh(shape[r])
      BY Zenon, <1>2
    <2> QED
      BY <2>1, <2>2 DEF IsRequest, Fresh, RequestFields
  <1> QED
    BY Zenon, <1>2, <1>3, NoSocketFacts DEF RInv, Shaped

LEMMA NextKeeps == ASSUME RInv(w), [RelayNext]_w PROVE RInv(w')
  BY Zenon, CollectStep, TakeReplayStep, RejoinStep, ReceiveStep, GapStep, CollectAgainStep, ResolveStep,
     ConflictStep, AdmitStep, AdmissionFailsStep, SwitchStep, SelectStep, SelectFailsStep,
     TryNextStep, OpenFailsStep, OpenedStep, SendStep, RefusedStep, SendFailsStep,
     SendCrashesStep, LeaveStep, DisconnectStep, CreatedStep, FrameStep, CompletesStep,
     FailedStep, FailedForAllStep, LostStep, NetworkLostStep, IdleStep, ExpiresStep,
     ClientGoneStep, ReaderExitsStep DEF RelayNext

LEMMA Invariant == RelaySpec => []RInv(w)
  <1>1. RelayInit => RInv(w)
    BY Zenon, InitHolds
  <1>2. RInv(w) /\ [RelayNext]_w => RInv(w)'
    BY Zenon, NextKeeps
  <1> QED
    BY <1>1, <1>2, PTL DEF RelaySpec

(* The loop of a client connection (proxy_responses_websocket) holds exactly  *)
(* the stream lease of the account whose socket it has or is opening: none is *)
(* kept when a socket is replaced, lost or given up, none is missing.         *)
THEOREM LeaseOfSocket == RelaySpec => []SlotFollowsSocket
  <1>1. ASSUME RInv(w) PROVE SlotFollowsSocket
    BY Zenon, <1>1 DEF RInv, SlotFollowsSocket
  <1> QED
    BY <1>1, Invariant, PTL

(* A request that names a response of an account is never written to the     *)
(* socket of another one, however the reader retries, refreshes or moves it  *)
(* and whatever sockets are opened in between.                               *)
THEOREM PinnedHome == RelaySpec => PinnedGoesHome
  <1>1. ASSUME RInv(w), NEW r \in Requests, Writes(r), Pinned(w.t[r])
        PROVE  w.up.account = w.t[r].shape.owner
    BY Zenon, <1>1 DEF RInv, Writes
  <1>2. ASSUME RInv(w)
        PROVE  \A r \in Requests : Writes(r) /\ Pinned(w.t[r]) => w.up.account = w.t[r].shape.owner
    BY Zenon, <1>1, <1>2
  <1> QED
    BY <1>2, Invariant, PTL DEF PinnedGoesHome, RelaySpec

=============================================================================
