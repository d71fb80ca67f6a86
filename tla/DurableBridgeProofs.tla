-------------------------- MODULE DurableBridgeProofs --------------------------
(***************************************************************************)
(* The fence of a durable bridge row, for any number of replicas, sessions *)
(* and aliases: an epoch belongs to one replica, ownership passes only     *)
(* with a higher epoch, and a session that can still be reused keeps its   *)
(* row.                                                                    *)
(***************************************************************************)
EXTENDS DurableBridge, TLAPS

\* The stages in which a session has claimed a row, and has an epoch of it.
ClaimStages == {"readback", "header", "live", "closing"}
GrantStages == {"header", "live", "closing"}

\* A session t names one of the n rows that were inserted.
IdOK(t, n) == t.id <= n /\ (t.stage \in ClaimStages => t.id >= 1)

\* What session t on replica h knows of row r: an epoch that r has not
\* outgrown is r's own, and r's own epoch is granted only to the replica that
\* owns r.
EpochOK(t, h, r) ==
    t.stage \in GrantStages /\ t.id = r.id =>
        /\ t.epoch <= r.epoch
        /\ t.epoch = r.epoch /\ r.owner # NoInstance => h = r.owner

\* Row r was touched no earlier than session t that claimed it, unless a renewal
\* went missing or t is past its reuse.
SeenOK(t, r) ==
    t.stage \in {"readback", "header", "live"} /\ t.id = r.id /\ ~t.missed
        => r.seen <= t.idle \/ t.idle = IdleTtl

SessionOK(s, t, r, n) == IdOK(t, n) /\ EpochOK(t, Home[s], r) /\ SeenOK(t, r)

\* A row that is CLOSED has no owner.
ClosedUnowned == row.state = "CLOSED" => row.owner = NoInstance

IInv == /\ BridgeTypeOK
        /\ \A s \in Sessions : SessionOK(s, session[s], row, rows)
        /\ EpochOfOneReplica
        /\ ClosedUnowned

------------------------------------------------------------------------------
(* Facts the actions share. *)

\* The settings as numbers, and what the owner of a session is.
LEMMA Numbers ==
  /\ Ttl \in Nat /\ IdleTtl \in Nat /\ ClosedAge \in Nat /\ AbandonedAge \in Nat
  /\ IdleTtl <= AbandonedAge /\ MaxEpoch \in Nat /\ 1 <= MaxEpoch /\ MaxRows \in Nat
  /\ Max(ClosedAge, AbandonedAge) \in Nat
  /\ \A s \in Sessions : Home[s] \in Instances /\ Home[s] \in Owners /\ Home[s] # NoInstance
  BY BridgeAssumption DEF Max, Owners

\* A session that holds an epoch held it before, or has just read it from the row
\* its replica owns: then epochs still belong to one replica.
LEMMA PairsKept ==
  ASSUME IInv,
         \A s \in Sessions : session'[s].stage \in GrantStages =>
            \/ /\ session[s].stage \in GrantStages
               /\ session'[s].id = session[s].id /\ session'[s].epoch = session[s].epoch
            \/ session'[s].id = row.id /\ session'[s].epoch = row.epoch /\ row.owner = Home[s]
  PROVE  EpochOfOneReplica'
  <1> SUFFICES ASSUME NEW s \in Sessions, NEW t \in Sessions,
                      session'[s].stage \in GrantStages, session'[t].stage \in GrantStages,
                      session'[s].id = session'[t].id, session'[s].epoch = session'[t].epoch
               PROVE  Home[s] = Home[t]
    BY DEF EpochOfOneReplica, Granted, GrantStages
  <1>1. Home[s] # NoInstance /\ Home[t] # NoInstance
    BY Numbers
  <1>2. EpochOK(session[s], Home[s], row) /\ EpochOK(session[t], Home[t], row)
    BY DEF IInv, SessionOK
  <1>3. CASE /\ session[s].stage \in GrantStages /\ session[t].stage \in GrantStages
             /\ session[s].id = session[t].id /\ session[s].epoch = session[t].epoch
    BY <1>3 DEF IInv, EpochOfOneReplica, Granted, GrantStages
  <1>4. CASE row.owner = Home[s] /\ session'[s].id = row.id /\ session'[s].epoch = row.epoch
    BY <1>1, <1>2, <1>4, ZenonT(30) DEF EpochOK
  <1>5. CASE row.owner = Home[t] /\ session'[t].id = row.id /\ session'[t].epoch = row.epoch
    BY <1>1, <1>2, <1>5 DEF EpochOK
  <1> QED  BY <1>3, <1>4, <1>5

\* A step that changes one session, and of the rest at most the markers and the
\* aliases' owners.
LEMMA OneSession ==
  ASSUME IInv, NEW s \in Sessions, NEW t \in SessionStates, SetSession(s, t),
         UNCHANGED <<row, rows, alias, draining, marking, purging>>,
         creator' \in [Instances -> Sessions \cup {NoSession}],
         SessionOK(s, t, row, rows),
         t.stage \in GrantStages =>
            \/ session[s].stage \in GrantStages /\ t.id = session[s].id /\ t.epoch = session[s].epoch
            \/ t.id = row.id /\ t.epoch = row.epoch /\ row.owner = Home[s]
  PROVE  IInv'
  <1>1. /\ session' \in [Sessions -> SessionStates] /\ session'[s] = t
        /\ \A u \in Sessions \ {s} : session'[u] = session[u]
    BY DEF SetSession, IInv, BridgeTypeOK
  <1>2. BridgeTypeOK'
    BY <1>1 DEF IInv, BridgeTypeOK
  <1>3. \A u \in Sessions : SessionOK(u, session'[u], row', rows')
    BY <1>1 DEF IInv
  <1>4. EpochOfOneReplica'
    BY <1>1, PairsKept
  <1>5. ClosedUnowned'
    BY DEF IInv, ClosedUnowned
  <1> QED  BY <1>2, <1>3, <1>4, <1>5 DEF IInv

\* The markers stay markers when one is dropped.
LEMMA MarkerType ==
  ASSUME BridgeTypeOK, NEW s \in Sessions, DropMarker(s)
  PROVE  creator' \in [Instances -> Sessions \cup {NoSession}]
  BY ZenonT(30) DEF BridgeTypeOK, DropMarker

\* At the start there is no row and no session.
LEMMA InitInv == Init => IInv
  <1> SUFFICES ASSUME Init PROVE IInv
    OBVIOUS
  <1>1. row = NoRow /\ NoRow \in Rows /\ rows = 0
    BY Numbers DEF Init, NoRow, Rows, Owners, RowStates, Bindings
  <1>2. NewSession \in SessionStates /\ \A s \in Sessions : session[s] = NewSession
    BY Numbers DEF Init, NewSession, SessionStates, Stages, Bindings
  <1>3. BridgeTypeOK
    BY <1>1, <1>2, Numbers DEF Init, BridgeTypeOK, NoRow, NoAlias, NoPurge, Bindings, Filters
  <1>4. \A s \in Sessions : SessionOK(s, session[s], row, rows)
    BY <1>1, <1>2 DEF NewSession, SessionOK, IdOK, EpochOK, SeenOK, ClaimStages, GrantStages
  <1>5. EpochOfOneReplica
    BY <1>2 DEF EpochOfOneReplica, Granted, NewSession
  <1>6. ClosedUnowned
    BY <1>1 DEF ClosedUnowned, NoRow
  <1> QED  BY <1>3, <1>4, <1>5, <1>6 DEF IInv

\* A field of a session may be set to any value of its type.
LEMMA PutIn ==
  ASSUME NEW t \in SessionStates
  PROVE  /\ \A x \in Stages : [t EXCEPT !.stage = x] \in SessionStates
         /\ \A x \in Bindings : [t EXCEPT !.account = x] \in SessionStates
         /\ \A x \in BOOLEAN : [t EXCEPT !.takeover = x] \in SessionStates
         /\ \A x \in BOOLEAN : [t EXCEPT !.force = x] \in SessionStates
         /\ \A x \in {0, 1} : [t EXCEPT !.attempt = x] \in SessionStates
         /\ \A x \in 0..MaxRows : [t EXCEPT !.id = x] \in SessionStates
         /\ \A x \in 0..MaxEpoch : [t EXCEPT !.epoch = x] \in SessionStates
         /\ \A x \in 0..IdleTtl : [t EXCEPT !.idle = x] \in SessionStates
         /\ \A x \in BOOLEAN : [t EXCEPT !.missed = x] \in SessionStates
  <1>1. \A x \in Stages : [t EXCEPT !.stage = x] \in SessionStates
    BY DEF SessionStates
  <1>2. \A x \in Bindings : [t EXCEPT !.account = x] \in SessionStates
    BY DEF SessionStates
  <1>3. \A x \in BOOLEAN : [t EXCEPT !.takeover = x] \in SessionStates
    BY DEF SessionStates
  <1>4. \A x \in BOOLEAN : [t EXCEPT !.force = x] \in SessionStates
    BY DEF SessionStates
  <1>5. \A x \in {0, 1} : [t EXCEPT !.attempt = x] \in SessionStates
    BY DEF SessionStates
  <1>6. \A x \in 0..MaxRows : [t EXCEPT !.id = x] \in SessionStates
    BY DEF SessionStates
  <1>7. \A x \in 0..MaxEpoch : [t EXCEPT !.epoch = x] \in SessionStates
    BY DEF SessionStates
  <1>8. \A x \in 0..IdleTtl : [t EXCEPT !.idle = x] \in SessionStates
    BY DEF SessionStates
  <1>9. \A x \in BOOLEAN : [t EXCEPT !.missed = x] \in SessionStates
    BY DEF SessionStates
  <1> QED  BY <1>1, <1>2, <1>3, <1>4, <1>5, <1>6, <1>7, <1>8, <1>9

(* The records the actions build: their type and the fields the invariant
   reads. *)

\* A session object before any request has used it.
LEMMA NewOK == NewSession \in SessionStates
  BY Numbers DEF NewSession, SessionStates, Stages, Bindings

\* A session that has ended names no row.
LEMMA GoneOK ==
  /\ Gone \in SessionStates
  /\ Gone.stage = "gone" /\ Gone.id = 0
  <1>1. NewSession.id = 0 /\ "gone" \in Stages
    BY DEF NewSession, Stages
  <1>2. Gone \in SessionStates
    BY <1>1, NewOK, PutIn, ZenonT(30) DEF Gone
  <1> QED  BY <1>1, <1>2, NewOK DEF Gone, SessionStates

\* A session that is created names no row yet.
LEMMA CreatedOK ==
  ASSUME NEW a \in AccountIds, NEW takeover \in BOOLEAN, NEW force \in BOOLEAN
  PROVE  LET t == [NewSession EXCEPT !.stage = "claim", !.account = a,
                                     !.takeover = takeover, !.force = force]
         IN  t \in SessionStates /\ t.stage = "claim" /\ t.id = 0
  <1> DEFINE t == [NewSession EXCEPT !.stage = "claim", !.account = a,
                                     !.takeover = takeover, !.force = force]
             t1 == [NewSession EXCEPT !.stage = "claim"]
             t2 == [t1 EXCEPT !.account = a]
             t3 == [t2 EXCEPT !.takeover = takeover]
             t4 == [t3 EXCEPT !.force = force]
  <1>1. t1 \in SessionStates
    BY NewOK, PutIn, ZenonT(30) DEF Stages
  <1>2. t2 \in SessionStates
    <2> HIDE DEF t1
    <2> QED  BY <1>1, PutIn, ZenonT(30) DEF Bindings
  <1>3. t3 \in SessionStates
    <2> HIDE DEF t2
    <2> QED  BY <1>2, PutIn, ZenonT(30)
  <1>4. t4 \in SessionStates
    <2> HIDE DEF t3
    <2> QED  BY <1>3, PutIn, ZenonT(30)
  <1>5. t = t4
    OBVIOUS
  <1>6. t.stage = "claim" /\ t.id = 0
    BY DEF NewSession
  <1> HIDE DEF t, t4
  <1> QED  BY <1>4, <1>5, <1>6 DEF t

\* A takeover that lost its claim tries again.
LEMMA RetriedOK ==
  ASSUME NEW u \in SessionStates
  PROVE  LET t == [u EXCEPT !.stage = "claim", !.attempt = 1]
         IN  t \in SessionStates /\ t.stage = "claim" /\ t.id = u.id
  <1> DEFINE t == [u EXCEPT !.stage = "claim", !.attempt = 1]
             t1 == [u EXCEPT !.stage = "claim"]
             t2 == [t1 EXCEPT !.attempt = 1]
  <1>1. t1 \in SessionStates
    BY PutIn, ZenonT(30) DEF Stages
  <1>2. t2 \in SessionStates
    <2> HIDE DEF t1
    <2> QED  BY <1>1, PutIn, ZenonT(30)
  <1>3. t = t2
    OBVIOUS
  <1>4. t.stage = "claim" /\ t.id = u.id
    BY DEF SessionStates
  <1> HIDE DEF t, t2
  <1> QED  BY <1>2, <1>3, <1>4 DEF t

\* The read-back adopts the epoch e.
LEMMA GrantedOK ==
  ASSUME NEW u \in SessionStates, NEW e \in 0..MaxEpoch
  PROVE  LET t == [u EXCEPT !.stage = "header", !.epoch = e,
                            !.takeover = FALSE, !.force = FALSE, !.attempt = 0]
         IN  /\ t \in SessionStates /\ t.stage = "header" /\ t.id = u.id /\ t.epoch = e
             /\ t.idle = u.idle /\ t.missed = u.missed
  <1> DEFINE t == [u EXCEPT !.stage = "header", !.epoch = e,
                            !.takeover = FALSE, !.force = FALSE, !.attempt = 0]
             t1 == [u EXCEPT !.stage = "header"]
             t2 == [t1 EXCEPT !.epoch = e]
             t3 == [t2 EXCEPT !.takeover = FALSE]
             t4 == [t3 EXCEPT !.force = FALSE]
             t5 == [t4 EXCEPT !.attempt = 0]
  <1>1. t1 \in SessionStates
    BY PutIn, ZenonT(30) DEF Stages
  <1>2. t2 \in SessionStates
    <2> HIDE DEF t1
    <2> QED  BY <1>1, PutIn, ZenonT(30)
  <1>3. t3 \in SessionStates
    <2> HIDE DEF t2
    <2> QED  BY <1>2, PutIn, ZenonT(30)
  <1>4. t4 \in SessionStates
    <2> HIDE DEF t3
    <2> QED  BY <1>3, PutIn, ZenonT(30)
  <1>5. t5 \in SessionStates
    <2> HIDE DEF t4
    <2> QED  BY <1>4, PutIn, ZenonT(30)
  <1>6. t = t5
    OBVIOUS
  <1>7. /\ t.stage = "header" /\ t.id = u.id /\ t.epoch = e
        /\ t.idle = u.idle /\ t.missed = u.missed
    BY DEF SessionStates
  <1> HIDE DEF t, t5
  <1> QED  BY <1>5, <1>6, <1>7 DEF t

\* A field of a row may be set to any value of its type.
LEMMA PutRow ==
  ASSUME NEW r \in Rows
  PROVE  /\ \A x \in Owners : [r EXCEPT !.owner = x] \in Rows
         /\ \A x \in 0..Ttl : [r EXCEPT !.lease = x] \in Rows
         /\ \A x \in RowStates : [r EXCEPT !.state = x] \in Rows
         /\ \A x \in Bindings : [r EXCEPT !.account = x] \in Rows
         /\ \A x \in 0..Max(ClosedAge, AbandonedAge) : [r EXCEPT !.seen = x] \in Rows
  <1>1. \A x \in Owners : [r EXCEPT !.owner = x] \in Rows
    BY DEF Rows
  <1>2. \A x \in 0..Ttl : [r EXCEPT !.lease = x] \in Rows
    BY DEF Rows
  <1>3. \A x \in RowStates : [r EXCEPT !.state = x] \in Rows
    BY DEF Rows
  <1>4. \A x \in Bindings : [r EXCEPT !.account = x] \in Rows
    BY DEF Rows
  <1>5. \A x \in 0..Max(ClosedAge, AbandonedAge) : [r EXCEPT !.seen = x] \in Rows
    BY DEF Rows
  <1> QED  BY <1>1, <1>2, <1>3, <1>4, <1>5

(* The rows the statements write: their type, and that the id and the epoch
   stay. *)

\* A renewal keeps the owner.
LEMMA RenewedOK ==
  ASSUME NEW r \in Rows
  PROVE  LET q == [r EXCEPT !.lease = Ttl, !.seen = 0]
         IN  /\ q \in Rows /\ q.id = r.id /\ q.epoch = r.epoch /\ q.owner = r.owner
             /\ q.state = r.state /\ q.seen = 0
  <1> DEFINE q == [r EXCEPT !.lease = Ttl, !.seen = 0]
             q1 == [r EXCEPT !.lease = Ttl]
             q2 == [q1 EXCEPT !.seen = 0]
  <1>a. Ttl \in 0..Ttl /\ 0 \in 0..Max(ClosedAge, AbandonedAge)
    BY Numbers
  <1>1. q1 \in Rows
    BY <1>a, PutRow
  <1>2. q2 \in Rows
    <2> HIDE DEF q1
    <2> QED  BY <1>a, <1>1, PutRow
  <1>3. q = q2
    OBVIOUS
  <1>4. /\ q.id = r.id /\ q.epoch = r.epoch /\ q.owner = r.owner
        /\ q.state = r.state /\ q.seen = 0
    BY DEF Rows
  <1> HIDE DEF q, q2
  <1> QED  BY <1>2, <1>3, <1>4 DEF q

\* A release clears the owner.
LEMMA ReleasedOK ==
  ASSUME NEW r \in Rows, NEW st \in RowStates
  PROVE  LET q == [r EXCEPT !.owner = NoInstance, !.lease = 0, !.seen = 0, !.state = st]
         IN  q \in Rows /\ q.id = r.id /\ q.epoch = r.epoch /\ q.owner = NoInstance /\ q.seen = 0
  <1> DEFINE q == [r EXCEPT !.owner = NoInstance, !.lease = 0, !.seen = 0, !.state = st]
             q1 == [r EXCEPT !.owner = NoInstance]
             q2 == [q1 EXCEPT !.lease = 0]
             q3 == [q2 EXCEPT !.seen = 0]
             q4 == [q3 EXCEPT !.state = st]
  <1>a. 0 \in 0..Ttl /\ 0 \in 0..Max(ClosedAge, AbandonedAge) /\ NoInstance \in Owners
    BY Numbers DEF Owners
  <1>1. q1 \in Rows
    BY <1>a, PutRow
  <1>2. q2 \in Rows
    <2> HIDE DEF q1
    <2> QED  BY <1>a, <1>1, PutRow
  <1>3. q3 \in Rows
    <2> HIDE DEF q2
    <2> QED  BY <1>a, <1>2, PutRow
  <1>4. q4 \in Rows
    <2> HIDE DEF q3
    <2> QED  BY <1>3, PutRow
  <1>5. q = q4
    OBVIOUS
  <1>6. q.id = r.id /\ q.epoch = r.epoch /\ q.owner = NoInstance /\ q.seen = 0
    BY DEF Rows
  <1> HIDE DEF q, q4
  <1> QED  BY <1>4, <1>5, <1>6 DEF q

\* Closing the row of an account clears its owner and keeps its age.
LEMMA UnboundOK ==
  ASSUME NEW r \in Rows
  PROVE  LET q == [r EXCEPT !.account = NoAccount, !.state = "CLOSED",
                            !.owner = NoInstance, !.lease = 0]
         IN  q \in Rows /\ q.id = r.id /\ q.epoch = r.epoch /\ q.owner = NoInstance /\ q.seen = r.seen
  <1> DEFINE q == [r EXCEPT !.account = NoAccount, !.state = "CLOSED",
                            !.owner = NoInstance, !.lease = 0]
             q1 == [r EXCEPT !.account = NoAccount]
             q2 == [q1 EXCEPT !.state = "CLOSED"]
             q3 == [q2 EXCEPT !.owner = NoInstance]
             q4 == [q3 EXCEPT !.lease = 0]
  <1>a. /\ 0 \in 0..Ttl /\ NoInstance \in Owners /\ NoAccount \in Bindings
        /\ "CLOSED" \in RowStates
    BY Numbers DEF Owners, Bindings, RowStates
  <1>1. q1 \in Rows
    BY <1>a, PutRow
  <1>2. q2 \in Rows
    <2> HIDE DEF q1
    <2> QED  BY <1>a, <1>1, PutRow
  <1>3. q3 \in Rows
    <2> HIDE DEF q2
    <2> QED  BY <1>a, <1>2, PutRow
  <1>4. q4 \in Rows
    <2> HIDE DEF q3
    <2> QED  BY <1>a, <1>3, PutRow
  <1>5. q = q4
    OBVIOUS
  <1>6. q.id = r.id /\ q.epoch = r.epoch /\ q.owner = NoInstance /\ q.seen = r.seen
    BY DEF Rows
  <1> HIDE DEF q, q4
  <1> QED  BY <1>4, <1>5, <1>6 DEF q

\* Draining keeps the owner.
LEMMA DrainedOK ==
  ASSUME NEW r \in Rows
  PROVE  LET q == [r EXCEPT !.state = "DRAINING", !.seen = 0]
         IN  /\ q \in Rows /\ q.id = r.id /\ q.epoch = r.epoch /\ q.owner = r.owner
             /\ q.seen = 0 /\ q.state = "DRAINING"
  <1> DEFINE q == [r EXCEPT !.state = "DRAINING", !.seen = 0]
             q1 == [r EXCEPT !.state = "DRAINING"]
             q2 == [q1 EXCEPT !.seen = 0]
  <1>a. 0 \in 0..Max(ClosedAge, AbandonedAge) /\ "DRAINING" \in RowStates
    BY Numbers DEF RowStates
  <1>1. q1 \in Rows
    BY <1>a, PutRow
  <1>2. q2 \in Rows
    <2> HIDE DEF q1
    <2> QED  BY <1>a, <1>1, PutRow
  <1>3. q = q2
    OBVIOUS
  <1>4. /\ q.id = r.id /\ q.epoch = r.epoch /\ q.owner = r.owner
        /\ q.seen = 0 /\ q.state = "DRAINING"
    BY DEF Rows
  <1> HIDE DEF q, q2
  <1> QED  BY <1>2, <1>3, <1>4 DEF q

\* What a session knows stays true when its row is only touched or released.
LEMMA RowKept ==
  ASSUME NEW s \in Sessions, NEW t \in SessionStates, NEW r \in Rows, NEW q \in Rows, NEW n,
         SessionOK(s, t, r, n),
         q.id = r.id, q.epoch = r.epoch, q.owner \in {r.owner, NoInstance}, q.seen \in {r.seen, 0}
  PROVE  SessionOK(s, t, q, n)
  <1>1. t.idle \in Nat
    BY Numbers DEF SessionStates
  <1> QED  BY <1>1 DEF SessionOK, IdOK, EpochOK, SeenOK

------------------------------------------------------------------------------
(* The actions. *)

\* A step that only changes the stage of a session, without going back.
LEMMA StageInv ==
  ASSUME IInv, NEW s \in Sessions, NEW st \in {"live", "closing", "gone"},
         session[s].stage \in {"header", "live", "closing"},
         st = "live" => session[s].stage \in {"header", "live"},
         Stage(s, st),
         UNCHANGED <<row, rows, alias, draining, marking, purging>>,
         creator' \in [Instances -> Sessions \cup {NoSession}]
  PROVE  IInv'
  <1> DEFINE t == [session[s] EXCEPT !.stage = st]
  <1>1. session[s] \in SessionStates
    BY DEF IInv, BridgeTypeOK
  <1>2. /\ t \in SessionStates /\ t.stage = st /\ t.id = session[s].id /\ t.epoch = session[s].epoch
        /\ t.idle = session[s].idle /\ t.missed = session[s].missed
    BY <1>1 DEF SessionStates, Stages
  <1>3. SetSession(s, t)
    BY DEF Stage
  <1> HIDE DEF t
  <1>4. SessionOK(s, session[s], row, rows)
    BY DEF IInv
  <1>5. SessionOK(s, t, row, rows)
    BY <1>2, <1>4 DEF SessionOK, IdOK, EpochOK, SeenOK, ClaimStages, GrantStages
  <1> QED  BY <1>2, <1>3, <1>5, OneSession DEF GrantStages

\* Ending a session without a write.
LEMMA GoneInv ==
  ASSUME IInv, NEW s \in Sessions, SetSession(s, Gone),
         UNCHANGED <<row, rows, alias, draining, marking, purging>>,
         creator' \in [Instances -> Sessions \cup {NoSession}]
  PROVE  IInv'
  <1>1. SessionOK(s, Gone, row, rows)
    BY GoneOK DEF SessionOK, IdOK, EpochOK, SeenOK, ClaimStages, GrantStages, IInv, BridgeTypeOK
  <1> QED  BY <1>1, GoneOK, OneSession DEF GrantStages

\* Creating a session detaches the ones it replaces and claims nothing yet.
LEMMA CreateInv ==
  ASSUME IInv, NEW s \in Sessions, NEW a \in AccountIds, NEW takeover \in BOOLEAN,
         NEW force \in BOOLEAN, Create(s, a, takeover, force)
  PROVE  IInv'
  <1> DEFINE replaced == {t \in Sessions : Home[t] = Home[s] /\ session[t].stage = "live"}
             new == [NewSession EXCEPT !.stage = "claim", !.account = a,
                                       !.takeover = takeover, !.force = force]
  <1>1. new \in SessionStates /\ new.stage = "claim" /\ new.id = 0
    BY CreatedOK, ZenonT(30)
  <1>2. \A t \in Sessions :
           session'[t] = IF t = s THEN new
                         ELSE IF t \in replaced THEN [session[t] EXCEPT !.stage = "closing"]
                         ELSE session[t]
    BY DEF Create
  <1> HIDE DEF new
  <1>3. \A t \in Sessions : session[t] \in SessionStates
    BY DEF IInv, BridgeTypeOK
  <1>a. ASSUME NEW t \in Sessions
        PROVE  LET u == [session[t] EXCEPT !.stage = "closing"]
               IN  /\ u \in SessionStates /\ u.stage = "closing"
                   /\ u.id = session[t].id /\ u.epoch = session[t].epoch
    BY <1>3 DEF SessionStates, Stages
  <1>4. \A t \in Sessions \ {s} :
           /\ session'[t] \in SessionStates
           /\ session'[t].id = session[t].id /\ session'[t].epoch = session[t].epoch
           /\ \/ session'[t] = session[t]
              \/ session'[t].stage = "closing" /\ session[t].stage = "live"
    BY <1>2, <1>3, <1>a, ZenonT(30)
  <1>5. BridgeTypeOK'
    <2>1. session' \in [Sessions -> SessionStates]
      BY <1>1, <1>2, <1>4 DEF Create
    <2>2. creator' \in [Instances -> Sessions \cup {NoSession}]
      BY ZenonT(30) DEF Create, IInv, BridgeTypeOK
    <2> QED  BY <2>1, <2>2 DEF Create, IInv, BridgeTypeOK
  <1>6. ASSUME NEW t \in Sessions PROVE SessionOK(t, session'[t], row', rows')
    <2>1. row' = row /\ rows' = rows /\ rows \in Nat
      BY Numbers DEF Create, IInv, BridgeTypeOK
    <2>2. SessionOK(t, session[t], row, rows)
      BY DEF IInv
    <2>3. CASE t = s
      <3>1. session'[t].stage = "claim" /\ session'[t].id = 0
        BY <1>1, <1>2, <2>3, ZenonT(30)
      <3> QED  BY <2>1, <3>1 DEF SessionOK, IdOK, EpochOK, SeenOK, ClaimStages, GrantStages
    <2>4. CASE t # s
      <3>1. CASE session'[t] = session[t]
        BY <2>1, <2>2, <3>1
      <3>2. CASE session'[t].stage = "closing" /\ session[t].stage = "live"
        BY <1>4, <2>1, <2>2, <2>4, <3>2
           DEF SessionOK, IdOK, EpochOK, SeenOK, ClaimStages, GrantStages
      <3> QED  BY <1>4, <2>4, <3>1, <3>2
    <2> QED  BY <2>3, <2>4
  <1>7. EpochOfOneReplica'
    <2>1. session'[s].stage \notin GrantStages
      BY <1>1, <1>2, ZenonT(30) DEF GrantStages
    <2>2. \A t \in Sessions \ {s} : session'[t].stage \in GrantStages => session[t].stage \in GrantStages
      BY <1>4 DEF GrantStages
    <2> QED  BY <1>4, <2>1, <2>2, PairsKept
  <1>8. ClosedUnowned'
    BY DEF Create, IInv, ClosedUnowned
  <1> QED  BY <1>5, <1>6, <1>7, <1>8 DEF IInv

\* The read-back grants the epoch of the row its replica owns.
LEMMA ReadBackInv ==
  ASSUME IInv, NEW s \in Sessions, ClaimReadBack(s)
  PROVE  IInv'
  <1>1. session[s] \in SessionStates /\ row \in Rows /\ SessionOK(s, session[s], row, rows)
    BY DEF IInv, BridgeTypeOK
  <1>2. creator' \in [Instances -> Sessions \cup {NoSession}]
    BY DEF ClaimReadBack, IInv, BridgeTypeOK
  <1>3. CASE row.owner = Home[s]
    <2> DEFINE t == [session[s] EXCEPT !.stage = "header", !.epoch = row.epoch,
                                       !.takeover = FALSE, !.force = FALSE, !.attempt = 0]
    <2>1. /\ t \in SessionStates /\ t.stage = "header" /\ t.id = session[s].id
          /\ t.epoch = row.epoch /\ t.idle = session[s].idle /\ t.missed = session[s].missed
      <3>1. row.epoch \in 0..MaxEpoch
        BY <1>1 DEF Rows
      <3> QED  BY <1>1, <3>1, GrantedOK, ZenonT(30)
    <2>2. SetSession(s, t)
      BY <1>3 DEF ClaimReadBack
    <2> HIDE DEF t
    <2>3. row.epoch \in Nat
      BY <1>1, Numbers DEF Rows
    <2>4. SessionOK(s, t, row, rows)
      BY <1>1, <1>3, <2>1, <2>3 DEF SessionOK, IdOK, EpochOK, SeenOK, ClaimStages, GrantStages, ClaimReadBack
    <2> QED  BY <1>2, <1>3, <2>1, <2>2, <2>4, OneSession DEF ClaimReadBack
  <1>4. CASE row.owner # Home[s]
    <2> DEFINE t == [session[s] EXCEPT !.stage = "claim", !.attempt = 1]
    <2>1. t \in SessionStates /\ t.stage = "claim" /\ t.id = session[s].id
      BY <1>1, RetriedOK, ZenonT(30)
    <2>2. SetSession(s, t)
      BY <1>4 DEF ClaimReadBack
    <2> HIDE DEF t
    <2>3. SessionOK(s, t, row, rows)
      BY <1>1, <2>1 DEF SessionOK, IdOK, EpochOK, SeenOK, ClaimStages, GrantStages
    <2> QED  BY <1>2, <2>1, <2>2, <2>3, OneSession DEF ClaimReadBack, GrantStages
  <1> QED  BY <1>3, <1>4

\* The sessions written by a claim.
LEMMA ClaimedOK ==
  ASSUME NEW u \in SessionStates, NEW id \in 0..MaxRows
  PROVE  LET t == [u EXCEPT !.stage = "readback", !.id = id]
         IN  /\ t \in SessionStates /\ t.stage = "readback" /\ t.id = id
             /\ t.idle = u.idle /\ t.missed = u.missed
  <1> DEFINE t == [u EXCEPT !.stage = "readback", !.id = id]
             t1 == [u EXCEPT !.stage = "readback"]
             t2 == [t1 EXCEPT !.id = id]
  <1>1. t1 \in SessionStates
    BY PutIn, ZenonT(30) DEF Stages
  <1>2. t2 \in SessionStates
    <2> HIDE DEF t1
    <2> QED  BY <1>1, PutIn, ZenonT(30)
  <1>3. t = t2
    OBVIOUS
  <1>4. t.stage = "readback" /\ t.id = id /\ t.idle = u.idle /\ t.missed = u.missed
    BY DEF SessionStates
  <1> HIDE DEF t, t2
  <1> QED  BY <1>2, <1>3, <1>4 DEF t

\* The row as a claim leaves it.
LEMMA LeasedOK ==
  ASSUME NEW s \in Sessions, session[s] \in SessionStates,
         NEW id \in 0..MaxRows, NEW epoch \in 0..MaxEpoch
  PROVE  LET q == Leased(s, id, epoch)
         IN  /\ q \in Rows /\ q.id = id /\ q.epoch = epoch /\ q.owner = Home[s] /\ q.seen = 0
             /\ q.state = "ACTIVE"
  <1>1. session[s].account \in Bindings
    BY DEF SessionStates
  <1>2. 0 \in 0..Max(ClosedAge, AbandonedAge) /\ Ttl \in 0..Ttl /\ Home[s] \in Owners
    BY Numbers
  <1> QED  BY <1>1, <1>2 DEF Leased, Rows, RowStates

\* The insert gives the key a row no session knows of.
LEMMA InsertInv ==
  ASSUME IInv, NEW s \in Sessions, ClaimInsert(s)
  PROVE  IInv'
  <1>1. /\ session[s] \in SessionStates /\ rows \in 0..MaxRows /\ rows + 1 \in 0..MaxRows
        /\ rows' = rows + 1 /\ rows \in Nat
    BY Numbers DEF ClaimInsert, IInv, BridgeTypeOK
  <1> DEFINE t == [session[s] EXCEPT !.stage = "readback", !.id = rows + 1]
  <1>2. /\ t \in SessionStates /\ t.stage = "readback" /\ t.id = rows + 1
        /\ t.idle = session[s].idle /\ t.missed = session[s].missed /\ t.idle \in Nat
    <2>1. session[s].idle \in Nat
      BY <1>1, Numbers DEF SessionStates
    <2> QED  BY <1>1, <2>1, ClaimedOK, ZenonT(30)
  <1>3. /\ row' \in Rows /\ row'.id = rows + 1 /\ row'.epoch = 1 /\ row'.owner = Home[s]
        /\ row'.seen = 0 /\ row'.state = "ACTIVE"
    <2>1. 1 \in 0..MaxEpoch
      BY Numbers
    <2> QED  BY <1>1, <2>1, LeasedOK DEF ClaimInsert
  <1>4. /\ session' \in [Sessions -> SessionStates] /\ session'[s] = t
        /\ \A u \in Sessions \ {s} : session'[u] = session[u]
    BY <1>2 DEF ClaimInsert, SetSession, IInv, BridgeTypeOK
  <1> HIDE DEF t
  <1>5. BridgeTypeOK'
    <2>1. alias' \in [Aliases -> [id : 0..rows', account : Bindings]]
      BY <1>1 DEF ClaimInsert, IInv, BridgeTypeOK
    <2>2. marking' \in [Instances -> 0..rows'] /\ purging' \in [filter : Filters, id : 0..rows']
      BY <1>1 DEF ClaimInsert, IInv, BridgeTypeOK
    <2>3. rows' \in 0..MaxRows /\ row'.id \in {0, rows'}
      BY <1>1, <1>3
    <2> QED  BY <1>3, <1>4, <2>1, <2>2, <2>3 DEF ClaimInsert, IInv, BridgeTypeOK
  <1>6. ASSUME NEW u \in Sessions PROVE SessionOK(u, session'[u], row', rows')
    <2>1. CASE u = s
      BY <1>1, <1>2, <1>3, <1>4, <2>1
         DEF SessionOK, IdOK, EpochOK, SeenOK, ClaimStages, GrantStages
    <2>2. CASE u # s
      <3>1. session'[u] = session[u] /\ SessionOK(u, session[u], row, rows) /\ session[u] \in SessionStates
        BY <1>4, <2>2 DEF IInv, BridgeTypeOK
      <3>2. session[u].id \in Nat
        BY <3>1, Numbers DEF SessionStates
      <3> QED  BY <1>1, <1>3, <3>1, <3>2 DEF SessionOK, IdOK, EpochOK, SeenOK
    <2> QED  BY <2>1, <2>2
  <1>7. EpochOfOneReplica'
    <2>1. \A u \in Sessions : session'[u].stage \in GrantStages => session'[u] = session[u]
      BY <1>2, <1>4 DEF GrantStages
    <2> QED  BY <2>1, PairsKept
  <1>8. ClosedUnowned'
    BY <1>3 DEF ClosedUnowned
  <1> QED  BY <1>5, <1>6, <1>7, <1>8 DEF IInv

\* Aliases that are dropped leave aliases.
LEMMA AliasesType ==
  ASSUME BridgeTypeOK, NEW id
  PROVE  WithoutAliasesOf(id) \in [Aliases -> [id : 0..rows, account : Bindings]]
  <1>1. NoAlias \in [id : 0..rows, account : Bindings]
    BY Numbers DEF NoAlias, Bindings, BridgeTypeOK
  <1> QED  BY <1>1 DEF WithoutAliasesOf, BridgeTypeOK

\* The claim of an existing row: the epoch advances whenever the owner changes.
LEMMA UpdateInv ==
  ASSUME IInv, NEW s \in Sessions, ClaimUpdate(s)
  PROVE  /\ IInv'
         /\ row'.owner = Home[s] /\ row'.id = row.id
         /\ row.owner # Home[s] => row'.epoch = row.epoch + 1
         /\ row.epoch \in Nat
         /\ row'.seen = 0
  <1> DEFINE epoch == NextEpoch(s, session[s].force \/ session[s].attempt > 0)
             t == [session[s] EXCEPT !.stage = "readback", !.id = row.id]
  <1>1. /\ session[s] \in SessionStates /\ row \in Rows /\ rows \in Nat /\ row.id \in 0..MaxRows
        /\ row.id \in {0, rows} /\ row.id # 0 /\ row.epoch \in 0..MaxEpoch
        /\ row.epoch \in Nat
    BY Numbers DEF ClaimUpdate, Exists, IInv, BridgeTypeOK, Rows
  <1>2. /\ epoch \in {row.epoch, row.epoch + 1}
        /\ row.owner # Home[s] => epoch = row.epoch + 1
    BY DEF NextEpoch
  <1>3. epoch \in 0..MaxEpoch
    BY <1>1, <1>2, Numbers DEF ClaimUpdate
  <1> HIDE DEF epoch
  <1>4. /\ row' \in Rows /\ row'.id = row.id /\ row'.epoch = epoch /\ row'.owner = Home[s]
        /\ row'.seen = 0 /\ row'.state = "ACTIVE"
    BY <1>1, <1>3, LeasedOK DEF ClaimUpdate, epoch
  <1>5. /\ t \in SessionStates /\ t.stage = "readback" /\ t.id = row.id
        /\ t.idle = session[s].idle /\ t.missed = session[s].missed /\ t.idle \in Nat
    <2>1. session[s].idle \in Nat
      BY <1>1, Numbers DEF SessionStates
    <2> QED  BY <1>1, <2>1, ClaimedOK, ZenonT(30)
  <1>6. /\ session' \in [Sessions -> SessionStates] /\ session'[s] = t
        /\ \A u \in Sessions \ {s} : session'[u] = session[u]
    BY <1>5 DEF ClaimUpdate, SetSession, IInv, BridgeTypeOK
  <1> HIDE DEF t
  <1>7. BridgeTypeOK'
    <2>1. alias' \in [Aliases -> [id : 0..rows, account : Bindings]]
      BY AliasesType DEF ClaimUpdate, IInv, BridgeTypeOK
    <2> QED  BY <1>4, <1>6, <2>1 DEF ClaimUpdate, IInv, BridgeTypeOK
  <1>8. ASSUME NEW u \in Sessions PROVE SessionOK(u, session'[u], row', rows')
    <2>1. rows' = rows
      BY DEF ClaimUpdate
    <2>2. CASE u = s
      BY <1>1, <1>4, <1>5, <1>6, <2>1, <2>2
         DEF SessionOK, IdOK, EpochOK, SeenOK, ClaimStages, GrantStages
    <2>3. CASE u # s
      <3>1. session'[u] = session[u] /\ SessionOK(u, session[u], row, rows) /\ session[u] \in SessionStates
        BY <1>6, <2>3 DEF IInv, BridgeTypeOK
      <3>2. session[u].idle \in Nat /\ session[u].epoch \in Nat
        BY <3>1, Numbers DEF SessionStates
      <3>3. Home[s] # NoInstance
        BY Numbers
      <3>4. EpochOK(session[u], Home[u], row')
        BY <1>1, <1>2, <1>4, <3>1, <3>2, <3>3 DEF SessionOK, EpochOK
      <3> QED  BY <1>4, <2>1, <3>1, <3>2, <3>4 DEF SessionOK, IdOK, SeenOK
    <2> QED  BY <2>2, <2>3
  <1>9. EpochOfOneReplica'
    <2>1. \A u \in Sessions : session'[u].stage \in GrantStages => session'[u] = session[u]
      BY <1>5, <1>6 DEF GrantStages
    <2> QED  BY <2>1, PairsKept
  <1>10. ClosedUnowned'
    BY <1>4 DEF ClosedUnowned
  <1> QED  BY <1>1, <1>2, <1>4, <1>7, <1>8, <1>9, <1>10 DEF IInv

\* What a write under the fence, a drain or a close does to the row.
Touches(r, q) ==
    /\ q \in Rows /\ q.id = r.id /\ q.epoch = r.epoch
    /\ q.owner \in {r.owner, NoInstance} /\ q.seen \in {r.seen, 0}
    /\ q.state = "CLOSED" => q.owner = NoInstance

\* The tables other than the row and the sessions keep their types.
OthersOK ==
    /\ alias' \in [Aliases -> [id : 0..rows, account : Bindings]]
    /\ creator' \in [Instances -> Sessions \cup {NoSession}]
    /\ draining' \in [Instances -> BOOLEAN]
    /\ marking' \in [Instances -> 0..rows]
    /\ purging' \in [filter : Filters, id : 0..rows]

\* A step that touches the row and changes no grant.
LEMMA TouchInv ==
  ASSUME IInv, Touches(row, row'), OthersOK, rows' = rows,
         session' \in [Sessions -> SessionStates],
         \A u \in Sessions :
            \/ session'[u] = session[u]
            \/ /\ SessionOK(u, session'[u], row', rows)
               /\ session'[u].stage \in GrantStages =>
                    /\ session[u].stage \in GrantStages
                    /\ session'[u].id = session[u].id /\ session'[u].epoch = session[u].epoch
  PROVE  IInv'
  <1>1. BridgeTypeOK'
    BY DEF IInv, BridgeTypeOK, Touches, OthersOK
  <1>2. ASSUME NEW u \in Sessions PROVE SessionOK(u, session'[u], row', rows')
    <2>1. SessionOK(u, session[u], row, rows) /\ session[u] \in SessionStates /\ row \in Rows
      BY DEF IInv, BridgeTypeOK
    <2>2. SessionOK(u, session[u], row', rows)
      BY <2>1, RowKept DEF Touches
    <2> QED  BY <2>2
  <1>3. EpochOfOneReplica'
    BY PairsKept
  <1>4. ClosedUnowned'
    BY DEF ClosedUnowned, Touches
  <1> QED  BY <1>1, <1>2, <1>3, <1>4 DEF IInv

\* Leaving the row alone, or renewing it, touches it.
LEMMA TouchesSelf ==
  ASSUME IInv
  PROVE  Touches(row, row) /\ Touches(row, Renewed) /\ Renewed.seen = 0
  <1>1. row \in Rows /\ ClosedUnowned
    BY DEF IInv, BridgeTypeOK
  <1>2. Ttl \in 0..Ttl /\ 0 \in 0..Max(ClosedAge, AbandonedAge)
    BY Numbers
  <1>3. /\ Renewed \in Rows /\ Renewed.id = row.id /\ Renewed.epoch = row.epoch
        /\ Renewed.owner = row.owner /\ Renewed.state = row.state /\ Renewed.seen = 0
    BY <1>1, RenewedOK, ZenonT(30) DEF Renewed
  <1> QED  BY <1>1, <1>3 DEF Touches, ClosedUnowned

\* The session a renewal writes.
LEMMA UsedOK ==
  ASSUME NEW u \in SessionStates, NEW st \in Stages
  PROVE  LET t == [u EXCEPT !.idle = 0, !.missed = FALSE, !.stage = st]
         IN  t \in SessionStates /\ t.stage = st /\ t.id = u.id /\ t.epoch = u.epoch
  <1> DEFINE t == [u EXCEPT !.idle = 0, !.missed = FALSE, !.stage = st]
             t1 == [u EXCEPT !.idle = 0]
             t2 == [t1 EXCEPT !.missed = FALSE]
             t3 == [t2 EXCEPT !.stage = st]
  <1>a. 0 \in 0..IdleTtl
    BY Numbers
  <1>1. t1 \in SessionStates
    BY <1>a, PutIn, ZenonT(30)
  <1>2. t2 \in SessionStates
    <2> HIDE DEF t1
    <2> QED  BY <1>1, PutIn, ZenonT(30)
  <1>3. t3 \in SessionStates
    <2> HIDE DEF t2
    <2> QED  BY <1>2, PutIn, ZenonT(30)
  <1>4. t = t3
    OBVIOUS
  <1>5. t.stage = st /\ t.id = u.id /\ t.epoch = u.epoch
    BY DEF SessionStates
  <1> HIDE DEF t, t3
  <1> QED  BY <1>3, <1>4, <1>5 DEF t

\* The session whose renewal raised.
LEMMA MissedOK ==
  ASSUME NEW u \in SessionStates
  PROVE  LET t == [u EXCEPT !.idle = 0, !.missed = TRUE]
         IN  /\ t \in SessionStates /\ t.stage = u.stage /\ t.id = u.id /\ t.epoch = u.epoch
             /\ t.missed = TRUE
  <1> DEFINE t == [u EXCEPT !.idle = 0, !.missed = TRUE]
             t1 == [u EXCEPT !.idle = 0]
             t2 == [t1 EXCEPT !.missed = TRUE]
  <1>a. 0 \in 0..IdleTtl
    BY Numbers
  <1>1. t1 \in SessionStates
    BY <1>a, PutIn, ZenonT(30)
  <1>2. t2 \in SessionStates
    <2> HIDE DEF t1
    <2> QED  BY <1>1, PutIn, ZenonT(30)
  <1>3. t = t2
    OBVIOUS
  <1>4. t.stage = u.stage /\ t.id = u.id /\ t.epoch = u.epoch /\ t.missed = TRUE
    BY DEF SessionStates
  <1> HIDE DEF t, t2
  <1> QED  BY <1>2, <1>3, <1>4 DEF t

\* A renewal under the fence, or the end of a session that was fenced out.
LEMMA RenewInv ==
  ASSUME IInv, NEW s \in Sessions, Renew(s)
  PROVE  IInv'
  <1> DEFINE st == IF Owns(s) \/ row.id # session[s].id THEN "live" ELSE "closing"
             t == [session[s] EXCEPT !.idle = 0, !.missed = FALSE, !.stage = st]
  <1>1. session[s] \in SessionStates /\ SessionOK(s, session[s], row, rows)
    BY DEF IInv, BridgeTypeOK
  <1>2. /\ t \in SessionStates /\ t.stage = st /\ t.id = session[s].id /\ t.epoch = session[s].epoch
    <2>1. st \in Stages /\ FALSE \in BOOLEAN
      BY DEF Stages
    <2> HIDE DEF st
    <2> QED  BY <1>1, <2>1, UsedOK, ZenonT(30)
  <1>3. /\ session' \in [Sessions -> SessionStates] /\ session'[s] = t
        /\ \A u \in Sessions \ {s} : session'[u] = session[u]
    BY <1>2 DEF Renew, SetSession, IInv, BridgeTypeOK
  <1> HIDE DEF t
  <1>4. Touches(row, row')
    BY TouchesSelf DEF Renew
  <1>5. OthersOK /\ rows' = rows
    BY DEF OthersOK, Renew, IInv, BridgeTypeOK
  <1>6. SessionOK(s, t, row', rows)
    <2>1. SessionOK(s, session[s], row', rows)
      <3>1. row \in Rows
        BY DEF IInv, BridgeTypeOK
      <3> QED  BY <1>1, <1>4, <3>1, RowKept DEF Touches
    <2>2. IdOK(t, rows) /\ EpochOK(t, Home[s], row')
      BY <1>2, <2>1 DEF SessionOK, IdOK, EpochOK, Renew, ClaimStages, GrantStages
    <2>3. SeenOK(t, row')
      <3>1. CASE Owns(s)
        <4>1. row'.seen = 0 /\ t.idle \in Nat
          BY <1>2, <3>1, TouchesSelf, Numbers DEF Renew, SessionStates
        <4> QED  BY <4>1 DEF SeenOK
      <3>2. CASE ~Owns(s)
        BY <1>2, <3>2 DEF SeenOK, Renew
      <3> QED  BY <3>1, <3>2
    <2> QED  BY <2>2, <2>3 DEF SessionOK
  <1>7. session[s].stage \in GrantStages
    BY DEF Renew, GrantStages
  <1> QED  BY <1>2, <1>3, <1>4, <1>5, <1>6, <1>7, TouchInv

\* A renewal that raises is missed.
LEMMA RenewFailsInv ==
  ASSUME IInv, NEW s \in Sessions, RenewFails(s)
  PROVE  IInv'
  <1> DEFINE t == [session[s] EXCEPT !.idle = 0, !.missed = TRUE]
  <1>1. session[s] \in SessionStates /\ SessionOK(s, session[s], row, rows)
    BY DEF IInv, BridgeTypeOK
  <1>2. /\ t \in SessionStates /\ t.stage = session[s].stage /\ t.id = session[s].id
        /\ t.epoch = session[s].epoch /\ t.missed = TRUE
    BY <1>1, MissedOK, ZenonT(30)
  <1>3. SetSession(s, t)
    BY DEF RenewFails
  <1> HIDE DEF t
  <1>4. SessionOK(s, t, row, rows)
    BY <1>1, <1>2 DEF SessionOK, IdOK, EpochOK, SeenOK
  <1>5. creator' \in [Instances -> Sessions \cup {NoSession}]
    BY DEF RenewFails, IInv, BridgeTypeOK
  <1> QED  BY <1>2, <1>3, <1>4, <1>5, OneSession DEF RenewFails, GrantStages

\* An alias is registered under the fence and renews the row with it.
LEMMA RegisterAliasInv ==
  ASSUME IInv, NEW s \in Sessions, NEW a \in Aliases, RegisterAlias(s, a)
  PROVE  IInv'
  <1>1. session[s] \in SessionStates /\ row \in Rows /\ SessionOK(s, session[s], row, rows)
    BY DEF IInv, BridgeTypeOK
  <1>2. CASE Owns(s)
    <2> DEFINE t == [session[s] EXCEPT !.missed = FALSE]
    <2>1. /\ t \in SessionStates /\ t.stage = session[s].stage /\ t.id = session[s].id
          /\ t.epoch = session[s].epoch /\ t.idle \in Nat
      <3>1. t \in SessionStates
        BY <1>1, PutIn, ZenonT(30)
      <3>2. t.idle \in Nat
        BY <3>1, Numbers DEF SessionStates
      <3> QED  BY <1>1, <3>1, <3>2 DEF SessionStates
    <2>2. /\ session' \in [Sessions -> SessionStates] /\ session'[s] = t
          /\ \A u \in Sessions \ {s} : session'[u] = session[u]
      BY <1>2, <2>1, ZenonT(30) DEF RegisterAlias, SetSession, IInv, BridgeTypeOK
    <2> HIDE DEF t
    <2>3. Touches(row, row') /\ row'.seen = 0
      BY <1>2, TouchesSelf DEF RegisterAlias
    <2>4. OthersOK /\ rows' = rows
      <3>1. row.id \in 0..rows /\ session[s].account \in Bindings
        BY <1>1, Numbers DEF IInv, BridgeTypeOK, SessionStates
      <3>2. alias' \in [Aliases -> [id : 0..rows, account : Bindings]]
        BY <1>2, <3>1 DEF RegisterAlias, IInv, BridgeTypeOK
      <3> QED  BY <3>2 DEF OthersOK, RegisterAlias, IInv, BridgeTypeOK
    <2>5. SessionOK(s, t, row', rows)
      <3>1. SessionOK(s, session[s], row', rows)
        BY <1>1, <2>3, RowKept DEF Touches
      <3>2. IdOK(t, rows) /\ EpochOK(t, Home[s], row')
        BY <2>1, <3>1 DEF SessionOK, IdOK, EpochOK
      <3>3. SeenOK(t, row')
        BY <2>1, <2>3 DEF SeenOK
      <3> QED  BY <3>2, <3>3 DEF SessionOK
    <2> QED  BY <2>1, <2>2, <2>3, <2>4, <2>5, TouchInv
  <1>3. CASE ~Owns(s)
    <2>1. creator' \in [Instances -> Sessions \cup {NoSession}]
      BY DEF RegisterAlias, IInv, BridgeTypeOK
    <2> QED  BY <1>3, <2>1, StageInv DEF RegisterAlias
  <1> QED  BY <1>2, <1>3

\* The creation ends with a registered session or a closing one.
LEMMA RegisterInv ==
  ASSUME IInv, NEW s \in Sessions, Register(s)
  PROVE  IInv'
  <1> DEFINE st == IF row.id = session[s].id /\ creator[Home[s]] = s THEN "live" ELSE "closing"
  <1>1. st \in {"live", "closing", "gone"}
    OBVIOUS
  <1>2. creator' \in [Instances -> Sessions \cup {NoSession}]
    BY MarkerType DEF Register, IInv
  <1>3. Stage(s, st)
    BY DEF Register
  <1> HIDE DEF st
  <1> QED  BY <1>1, <1>2, <1>3, StageInv DEF Register

\* The heartbeat and the registry let a live session go.
LEMMA DetachInv ==
  ASSUME IInv, NEW s \in Sessions, Reconcile(s) \/ Detach(s)
  PROVE  IInv'
  <1>1. creator' \in [Instances -> Sessions \cup {NoSession}]
    BY DEF Reconcile, Detach, IInv, BridgeTypeOK
  <1> QED  BY <1>1, StageInv DEF Reconcile, Detach

\* A release clears the owner of the row under the fence, and ends the session.
LEMMA ReleaseInv ==
  ASSUME IInv, NEW s \in Sessions, Release(s)
  PROVE  IInv' /\ Touches(row, row')
  <1>1. row \in Rows /\ rows \in Nat
    BY Numbers DEF IInv, BridgeTypeOK
  <1>2. Touches(row, row')
    <2>1. CASE Owns(s)
      <3> DEFINE st == IF draining[Home[s]] THEN "DRAINING" ELSE "CLOSED"
      <3>1. st \in RowStates
        BY DEF RowStates
      <3>2. row' = [row EXCEPT !.owner = NoInstance, !.lease = 0, !.seen = 0, !.state = st]
        BY <2>1 DEF Release
      <3> HIDE DEF st
      <3> QED  BY <1>1, <3>1, <3>2, ReleasedOK, ZenonT(30) DEF Touches
    <2>2. CASE ~Owns(s)
      BY <2>2, TouchesSelf DEF Release
    <2> QED  BY <2>1, <2>2
  <1>3. /\ session' \in [Sessions -> SessionStates] /\ session'[s] = Gone
        /\ \A u \in Sessions \ {s} : session'[u] = session[u]
    BY GoneOK DEF Release, SetSession, IInv, BridgeTypeOK
  <1>4. SessionOK(s, Gone, row', rows) /\ Gone.stage \notin GrantStages
    BY <1>1, GoneOK DEF SessionOK, IdOK, EpochOK, SeenOK, ClaimStages, GrantStages
  <1>5. OthersOK /\ rows' = rows
    BY DEF OthersOK, Release, IInv, BridgeTypeOK
  <1> QED  BY <1>2, <1>3, <1>4, <1>5, TouchInv

\* Every step of a session.
LEMMA SessionInv ==
  ASSUME IInv, NEW s \in Sessions, SessionStep(s)
  PROVE  IInv'
  <1>1. CASE ClaimFails(s)
    <2>1. creator' \in [Instances -> Sessions \cup {NoSession}]
      BY <1>1, MarkerType DEF ClaimFails, IInv
    <2> QED  BY <1>1, <2>1, GoneInv DEF ClaimFails
  <1>2. CASE ReleaseFails(s)
    <2>1. creator' \in [Instances -> Sessions \cup {NoSession}]
      BY <1>2 DEF ReleaseFails, IInv, BridgeTypeOK
    <2> QED  BY <1>2, <2>1, GoneInv DEF ReleaseFails
  <1> QED
    BY <1>1, <1>2, CreateInv, InsertInv, UpdateInv, ReadBackInv, RegisterInv, RenewInv,
       RenewFailsInv, RegisterAliasInv, DetachInv, ReleaseInv
       DEF SessionStep

\* A crash ends the sessions of a replica and writes nothing.
LEMMA CrashInv ==
  ASSUME IInv, NEW i \in Instances, Crash(i)
  PROVE  IInv'
  <1>1. rows \in Nat /\ session \in [Sessions -> SessionStates]
    BY Numbers DEF IInv, BridgeTypeOK
  <1>2. \A u \in Sessions : session'[u] \in {session[u], Gone}
    BY DEF Crash
  <1>3. session' \in [Sessions -> SessionStates]
    BY <1>1, GoneOK DEF Crash
  <1>4. \A u \in Sessions : SessionOK(u, Gone, row', rows) /\ Gone.stage \notin GrantStages
    BY <1>1, GoneOK DEF SessionOK, IdOK, EpochOK, SeenOK, ClaimStages, GrantStages
  <1>5. OthersOK /\ rows' = rows
    <2>1. 0 \in 0..rows
      BY <1>1
    <2> QED  BY <2>1 DEF OthersOK, Crash, IInv, BridgeTypeOK
  <1>6. Touches(row, row')
    BY TouchesSelf DEF Crash
  <1> QED  BY <1>2, <1>3, <1>4, <1>5, <1>6, TouchInv

\* Draining a replica keeps every owner and epoch.
LEMMA InstanceInv ==
  ASSUME IInv, NEW i \in Instances, InstanceStep(i)
  PROVE  IInv' /\ Touches(row, row')
  <1>1. row \in Rows /\ session \in [Sessions -> SessionStates] /\ row.id \in 0..rows /\ 0 \in 0..rows
    BY Numbers DEF IInv, BridgeTypeOK
  <1>2. CASE Crash(i)
    BY <1>2, CrashInv, TouchesSelf, ZenonT(30) DEF Crash
  <1>3. CASE DrainUpdate(i)
    <2>1. Touches(row, row')
      BY <1>1, <1>3, DrainedOK, TouchesSelf, ZenonT(30) DEF DrainUpdate, Touches
    <2>2. OthersOK /\ rows' = rows /\ session' = session
      BY <1>1, <1>3 DEF OthersOK, DrainUpdate, IInv, BridgeTypeOK
    <2> QED  BY <1>1, <2>1, <2>2, TouchInv
  <1>4. CASE EvictMarker(i) \/ DrainSelect(i) \/ DrainStop(i)
    <2>1. Touches(row, row')
      BY <1>4, TouchesSelf DEF EvictMarker, DrainSelect, DrainStop
    <2>2. OthersOK /\ rows' = rows /\ session' = session
      BY <1>1, <1>4, ZenonT(30) DEF OthersOK, EvictMarker, DrainSelect, DrainStop, IInv, BridgeTypeOK
    <2> QED  BY <1>1, <2>1, <2>2, TouchInv
  <1> QED  BY <1>2, <1>3, <1>4 DEF InstanceStep

\* Closing the row of an account leaves it without an owner.
LEMMA CloseInv ==
  ASSUME IInv, NEW a \in AccountIds, CloseForAccount(a)
  PROVE  IInv' /\ Touches(row, row')
  <1>1. row \in Rows /\ session \in [Sessions -> SessionStates]
    BY DEF IInv, BridgeTypeOK
  <1>2. Touches(row, row')
    BY <1>1, UnboundOK, ZenonT(30) DEF CloseForAccount, Touches
  <1>3. OthersOK /\ rows' = rows /\ session' = session
    BY AliasesType DEF OthersOK, CloseForAccount, IInv, BridgeTypeOK
  <1> QED  BY <1>1, <1>2, <1>3, TouchInv

\* The first statement of a purge deletes aliases only.
LEMMA PurgeAliasesInv ==
  ASSUME IInv, NEW filter \in Filters, PurgeAliases(filter)
  PROVE  IInv' /\ Touches(row, row')
  <1>1. session \in [Sessions -> SessionStates] /\ row.id \in 0..rows
    BY Numbers DEF IInv, BridgeTypeOK
  <1>2. Touches(row, row')
    BY TouchesSelf DEF PurgeAliases
  <1>3. OthersOK /\ rows' = rows /\ session' = session
    BY <1>1, AliasesType DEF OthersOK, PurgeAliases, IInv, BridgeTypeOK
  <1> QED  BY <1>1, <1>2, <1>3, TouchInv

\* The second one deletes the row, or leaves it: no session names the empty row.
LEMMA PurgeRowInv ==
  ASSUME IInv, PurgeRow
  PROVE  IInv'
  <1>1. session \in [Sessions -> SessionStates] /\ rows \in Nat /\ 0 \in 0..rows
    BY Numbers DEF IInv, BridgeTypeOK
  <1>2. OthersOK /\ rows' = rows /\ session' = session
    BY <1>1, AliasesType DEF OthersOK, PurgeRow, NoPurge, Filters, IInv, BridgeTypeOK
  <1>3. CASE row' = NoRow
    <2>1. NoRow \in Rows /\ NoRow.id = 0 /\ NoRow.owner = NoInstance
      BY Numbers DEF NoRow, Rows, Owners, RowStates, Bindings
    <2>2. BridgeTypeOK'
      BY <1>1, <1>2, <1>3, <2>1 DEF OthersOK, IInv, BridgeTypeOK
    <2>3. \A u \in Sessions : SessionOK(u, session'[u], row', rows')
      <3>1. \A u \in Sessions : IdOK(session[u], rows)
        BY DEF IInv, SessionOK
      <3> QED  BY <1>2, <1>3, <2>1, <3>1
               DEF SessionOK, IdOK, EpochOK, SeenOK, ClaimStages, GrantStages
    <2>4. EpochOfOneReplica'
      BY <1>2, PairsKept
    <2>5. ClosedUnowned'
      BY <1>3, <2>1 DEF ClosedUnowned
    <2> QED  BY <2>2, <2>3, <2>4, <2>5 DEF IInv
  <1>4. CASE row' = row
    BY <1>1, <1>2, <1>4, TouchesSelf, TouchInv
  <1> QED  BY <1>3, <1>4 DEF PurgeRow

\* Time ages the row and its sessions alike.
LEMMA TickInv ==
  ASSUME IInv, Tick
  PROVE  IInv' /\ row'.id = row.id /\ row'.owner = row.owner
  <1> DEFINE l == IF row.lease > 0 THEN row.lease - 1 ELSE 0
             n == IF Exists THEN Older(row.seen, Max(ClosedAge, AbandonedAge)) ELSE 0
  <1>1. /\ row \in Rows /\ row.seen \in 0..Max(ClosedAge, AbandonedAge)
        /\ row.lease \in 0..Ttl
    BY DEF IInv, BridgeTypeOK, Rows
  <1>2. l \in 0..Ttl /\ n \in 0..Max(ClosedAge, AbandonedAge) /\ (Exists => n <= row.seen + 1)
    BY <1>1, Numbers DEF Older
  <1>3. row' = [row EXCEPT !.lease = l, !.seen = n]
    BY DEF Tick
  <1> HIDE DEF l, n
  <1>4. row' \in Rows
    <2> DEFINE q1 == [row EXCEPT !.lease = l]
               q2 == [q1 EXCEPT !.seen = n]
    <2>1. q1 \in Rows
      BY <1>1, <1>2, PutRow
    <2>2. q2 \in Rows
      <3> HIDE DEF q1
      <3> QED  BY <1>2, <2>1, PutRow
    <2>3. row' = q2
      BY <1>3
    <2> QED  BY <2>2, <2>3
  <1>5. /\ row'.id = row.id /\ row'.epoch = row.epoch /\ row'.owner = row.owner
        /\ row'.state = row.state /\ row'.seen = n
    BY <1>1, <1>3 DEF Rows
  <1>6. ASSUME NEW u \in Sessions
        PROVE  /\ session'[u] \in SessionStates /\ session'[u].stage = session[u].stage
               /\ session'[u].id = session[u].id /\ session'[u].epoch = session[u].epoch
               /\ session'[u].missed = session[u].missed
               /\ session[u].stage \in {"readback", "header", "live"} =>
                     session'[u].idle = Older(session[u].idle, IdleTtl)
               /\ session[u].idle \in 0..IdleTtl
    <2> DEFINE m == Older(session[u].idle, IdleTtl)
               t == [session[u] EXCEPT !.idle = m]
    <2>1. session[u] \in SessionStates
      BY DEF IInv, BridgeTypeOK
    <2>2. session[u].idle \in 0..IdleTtl
      BY <2>1 DEF SessionStates
    <2>3. m \in 0..IdleTtl
      BY <2>2, Numbers DEF Older
    <2>4. session'[u] = IF session[u].stage \in {"claim", "readback", "header", "live"}
                        THEN t ELSE session[u]
      BY DEF Tick
    <2> HIDE DEF m
    <2>5. /\ t \in SessionStates /\ t.stage = session[u].stage /\ t.id = session[u].id
          /\ t.epoch = session[u].epoch /\ t.missed = session[u].missed /\ t.idle = m
      <3>1. t \in SessionStates
        BY <2>1, <2>3, PutIn, ZenonT(30)
      <3> QED  BY <2>1, <3>1 DEF SessionStates
    <2> HIDE DEF t
    <2> QED  BY <2>1, <2>2, <2>4, <2>5 DEF m
  <1>7. BridgeTypeOK'
    <2>1. session' \in [Sessions -> SessionStates]
      BY <1>6 DEF Tick
    <2> QED  BY <1>4, <1>5, <2>1 DEF Tick, IInv, BridgeTypeOK
  <1>8. ASSUME NEW u \in Sessions PROVE SessionOK(u, session'[u], row', rows')
    <2>1. SessionOK(u, session[u], row, rows) /\ rows' = rows
      BY DEF Tick, IInv
    <2>2. IdOK(session'[u], rows') /\ EpochOK(session'[u], Home[u], row')
      BY <1>5, <1>6, <2>1 DEF SessionOK, IdOK, EpochOK
    <2>3. SeenOK(session'[u], row')
      <3> SUFFICES ASSUME session[u].stage \in {"readback", "header", "live"},
                          session[u].id = row.id, ~session[u].missed
                   PROVE  row'.seen <= session'[u].idle \/ session'[u].idle = IdleTtl
        BY <1>5, <1>6 DEF SeenOK
      <3>1. row.seen <= session[u].idle \/ session[u].idle = IdleTtl
        BY <2>1 DEF SessionOK, SeenOK
      <3>2. Exists
        BY <2>1 DEF SessionOK, IdOK, ClaimStages, Exists
      <3>3. session'[u].idle = Older(session[u].idle, IdleTtl) /\ session[u].idle \in 0..IdleTtl
        BY <1>6
      <3>4. row'.seen <= row.seen + 1 /\ row'.seen \in Nat /\ row.seen \in Nat
        BY <1>1, <1>2, <1>5, <3>2, Numbers
      <3> QED  BY <3>1, <3>3, <3>4, Numbers DEF Older
    <2> QED  BY <2>2, <2>3 DEF SessionOK
  <1>9. EpochOfOneReplica'
    BY <1>6, PairsKept
  <1>10. ClosedUnowned'
    BY <1>5 DEF ClosedUnowned, IInv
  <1> QED  BY <1>5, <1>7, <1>8, <1>9, <1>10 DEF IInv

------------------------------------------------------------------------------
(* The theorems. *)

\* Every step preserves the invariant.
LEMMA NextInv == IInv /\ [Next]_vars => IInv'
  <1> SUFFICES ASSUME IInv, [Next]_vars PROVE IInv'
    OBVIOUS
  <1>1. CASE UNCHANGED vars
    <2>1. session \in [Sessions -> SessionStates]
      BY DEF IInv, BridgeTypeOK
    <2>2. OthersOK
      BY <1>1 DEF vars, OthersOK, IInv, BridgeTypeOK
    <2> QED  BY <1>1, <2>1, <2>2, TouchesSelf, TouchInv DEF vars
  <1> QED
    BY <1>1, SessionInv, InstanceInv, CloseInv, PurgeAliasesInv, PurgeRowInv, TickInv DEF Next

\* The invariant holds throughout.
LEMMA Inductive == Spec => []IInv
  BY InitInv, NextInv, PTL DEF Spec

\* Types: an alias, a session, a drain and a purge only name rows that existed.
THEOREM TypeCorrect == Spec => []BridgeTypeOK
  <1>1. IInv => BridgeTypeOK
    BY DEF IInv
  <1> QED  BY <1>1, Inductive, PTL

\* An epoch of a row is granted to one replica only.
THEOREM EpochBelongsToOneReplica == Spec => []EpochOfOneReplica
  <1>1. IInv => EpochOfOneReplica
    BY DEF IInv
  <1> QED  BY <1>1, Inductive, PTL

\* Apart from claims, purges and time, the steps only touch the row.
LEMMA RowSteps ==
  ASSUME IInv, [Next]_vars
  PROVE  \/ Touches(row, row')
         \/ \E s \in Sessions : ClaimInsert(s) \/ ClaimUpdate(s)
         \/ PurgeRow /\ row' = NoRow /\ Purgeable(purging.filter)
         \/ Tick
  <1>1. CASE row' = row
    BY <1>1, TouchesSelf
  <1>2. ASSUME NEW s \in Sessions, SessionStep(s), ~ClaimInsert(s), ~ClaimUpdate(s)
        PROVE  Touches(row, row')
    <2>1. CASE Renew(s) \/ (\E a \in Aliases : RegisterAlias(s, a))
      BY <2>1, TouchesSelf DEF Renew, RegisterAlias
    <2>2. CASE Release(s)
      BY <2>2, ReleaseInv
    <2>3. CASE ~Release(s) /\ ~Renew(s) /\ ~(\E a \in Aliases : RegisterAlias(s, a))
      <3>1. row' = row
        BY <1>2, <2>3, ZenonT(30) DEF SessionStep, Create, ClaimFails, ClaimReadBack, Register, RenewFails,
                          Reconcile, Detach, ReleaseFails
      <3> QED  BY <3>1, TouchesSelf
    <2> QED  BY <2>1, <2>2, <2>3
  <1>3. CASE UNCHANGED vars
    BY <1>1, <1>3 DEF vars
  <1>4. CASE PurgeRow
    BY <1>1, <1>4 DEF PurgeRow
  <1> QED  BY <1>2, <1>3, <1>4, InstanceInv, CloseInv, PurgeAliasesInv DEF Next

\* Ownership passes only with a higher epoch, and within a lease only to a session
\* that takes over.
THEOREM OwnershipPassesFenced == Spec => PassesFenced
  <1>1. ASSUME IInv, [Next]_vars, Passes PROVE PassedInOrder
    <2>1. CASE Touches(row, row')
      BY <1>1, <2>1 DEF Touches, Passes
    <2>2. ASSUME NEW s \in Sessions, ClaimInsert(s) PROVE FALSE
      BY <1>1, <2>2 DEF ClaimInsert, Passes
    <2>3. ASSUME NEW s \in Sessions, ClaimUpdate(s) PROVE PassedInOrder
      <3>1. /\ row'.owner = Home[s] /\ row.epoch \in Nat
            /\ row.owner # Home[s] => row'.epoch = row.epoch + 1
        BY <1>1, <2>3, UpdateInv
      <3>2. row'.epoch > row.epoch
        BY <1>1, <3>1 DEF Passes
      <3>3. row.lease > 0 /\ row.state = "ACTIVE" => session[s].takeover
        BY <1>1, <2>3, <3>1 DEF ClaimUpdate, ClaimRefused, Passes
      <3> QED  BY <3>1, <3>2, <3>3 DEF PassedInOrder
    <2>4. CASE row' = NoRow
      BY <1>1, <2>4 DEF NoRow, Passes, Exists
    <2>5. CASE Tick
      BY <1>1, <2>5, TickInv DEF Passes
    <2> QED  BY <1>1, <2>1, <2>2, <2>3, <2>4, <2>5, RowSteps
  <1>2. IInv /\ [Next]_vars => [Passes => PassedInOrder]_vars
    BY <1>1
  <1> QED  BY <1>2, Inductive, PTL DEF Spec, PassesFenced

\* A session that may still be reused, and whose last renewal was stored, keeps
\* its row: the row is not CLOSED while it has an owner, and it was seen too
\* recently to count as abandoned.
THEOREM ReusableRowsKept == Spec => ReusableKeepsRow
  <1>1. ASSUME IInv, [Next]_vars, NEW s \in Sessions, Reusable(s) PROVE row'.id = row.id
    <2>1. Exists /\ row.id = session[s].id /\ row.owner = Home[s] /\ row.owner # NoInstance
      BY <1>1, Numbers DEF Reusable, Owns
    <2>2. CASE Touches(row, row')
      BY <2>2 DEF Touches
    <2>3. ASSUME NEW t \in Sessions, ClaimInsert(t) PROVE FALSE
      BY <2>1, <2>3 DEF ClaimInsert
    <2>4. ASSUME NEW t \in Sessions, ClaimUpdate(t) PROVE row'.id = row.id
      BY <1>1, <2>4, UpdateInv
    <2>5. CASE Purgeable(purging.filter)
      <3>1. row.state # "CLOSED"
        BY <1>1, <2>1 DEF IInv, ClosedUnowned
      <3>2. row \in Rows /\ session[s] \in SessionStates /\ SeenOK(session[s], row)
        BY <1>1 DEF IInv, BridgeTypeOK, SessionOK
      <3>3. row.seen \in Nat /\ session[s].idle \in Nat
        BY <3>2, Numbers DEF Rows, SessionStates
      <3>4. session[s].idle < IdleTtl /\ row.seen <= session[s].idle
        <4>1. session[s].idle < IdleTtl /\ session[s].stage = "live" /\ ~session[s].missed
          BY <1>1, ZenonT(30) DEF Reusable
        <4>2. row.seen <= session[s].idle \/ session[s].idle = IdleTtl
          BY <2>1, <3>2, <4>1, ZenonT(30) DEF SeenOK
        <4> QED BY <3>3, <4>1, <4>2, Numbers
      <3> QED  BY <2>5, <3>1, <3>3, <3>4, Numbers DEF Purgeable
    <2>6. CASE Tick
      BY <1>1, <2>6, TickInv
    <2> QED  BY <1>1, <2>2, <2>3, <2>4, <2>5, <2>6, RowSteps
  <1>2. IInv /\ [Next]_vars => [\A s \in Sessions : Reusable(s) => row'.id = row.id]_vars
    BY <1>1
  <1> QED  BY <1>2, Inductive, PTL DEF Spec, ReusableKeepsRow

\* Both: no step takes a row past the fence or away from a session in use.
THEOREM RowIsGuarded == Spec => RowGuarded
  BY OwnershipPassesFenced, ReusableRowsKept DEF RowGuarded
===============================================================================
