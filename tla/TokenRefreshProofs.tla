------------------------ MODULE TokenRefreshProofs ------------------------
(***************************************************************************)
(* Proofs about TokenRefresh, for any number of replicas, callers, tokens, *)
(* retries and disturbances and for any timing the settings validator      *)
(* accepts.  IInv carries the claim and the stored row.  HInv, inductive   *)
(* relative to it, carries the history of the tokens: SentOK says which    *)
(* were sent, and SettledOK where the outcome of one that was sent is now. *)
(* Leaves that need no arithmetic are sent straight to Zenon.              *)
(***************************************************************************)
EXTENDS TokenRefresh, TLAPS

Dead == used \cup revoked

\* The time a holder of the claim may still need once its present wait is
\* over, up to the end of its persist section, and one tick to spare.
Ahead(point) ==
    IF point = "reread" THEN AdmissionWait + RefreshTimeout + PersistTime + 1
    ELSE IF point = "admit" THEN RefreshTimeout + PersistTime + 1
    ELSE IF point = "exchange" THEN PersistTime + 1
    ELSE 1

\* A task in the protected section owns a claim that outlives the section.
Covered(t, task, c) ==
    task.pc \in Protected => c.by = t /\ c.left >= task.clock + Ahead(task.pc)

\* What a task remembers is true of the upstream: it compares the row with a
\* ciphertext of its own token, holds the successor of that token, and acts on
\* a failure only when the token is dead.
Grounded(t, task, us, rv, mi, par) ==
    /\ task.seen.token \in {0, t[2]}
    /\ task.pc \in {"write", "check"} =>
          task.new \in 1..mi /\ task.newNonce \in Nonces /\ par[task.new] = t[2]
    /\ task.pc \in {"write", "check", "flag", "flagWrite"} => t[2] \in us
    /\ task.pc \in {"fail", "failWrite"} => t[2] \in us \cup rv
    /\ task.pc = "release" /\ task.out = "permanent" => t[2] \in us \cup rv

TasksOK ==
    \A t \in Keys : /\ Covered(t, tasks[t], claim)
                    /\ Grounded(t, tasks[t], used, revoked, minted, parent)

\* Nobody has read the token k from the row.
Unread(k, cs, ts) ==
    /\ \A c \in Callers : cs[c].snap.token # k
    /\ \A p \in Procs : ts[<<p, k>>].pc = "idle"

\* A flagged token is dead, unless the rotation that stored it found the flag
\* of its predecessor in the row, and then no request can have read it.
RowOK == row.status \in Terminal => row.token \in Dead \/ Unread(row.token, callers, tasks)
SuccessorOK ==
    \A t \in Keys : tasks[t].pc \in {"write", "check"} =>
        row.token # tasks[t].new /\ Unread(tasks[t].new, callers, tasks)

\* A token that is remembered as failed, or about to be condemned, is dead.
CooledOK == \A p \in Procs : cooled[p] \subseteq Dead
CallersOK == \A c \in Callers : callers[c].pc = "condemn" => callers[c].snap.token \in Dead

\* Only minted tokens are around, and one not minted yet has no parent.
MintedOK ==
    /\ row.token <= minted
    /\ \A c \in Callers : callers[c].snap.token <= minted
    /\ \A t \in Keys : tasks[t].pc # "idle" => t[2] <= minted
    /\ \A k \in Tokens : k > minted => parent[k] = 0

IInv == TypeOK /\ TasksOK /\ RowOK /\ SuccessorOK /\ CooledOK /\ CallersOK /\ MintedOK

-----------------------------------------------------------------------------
(* Facts about the data.                                                   *)

Bookkeeping ==
    /\ refreshes \in 0..MaxRefreshes
    /\ upsets \in 0..MaxUpsets
    /\ sent \in [once: SUBSET Tokens, again: SUBSET Tokens]
    /\ lost \subseteq Tokens

\* The settings are natural numbers, and there is a first token and nonce.
LEMMA Numbers ==
    /\ ClaimTtl \in Nat /\ AdmissionWait \in Nat /\ RefreshTimeout \in Nat
    /\ RereadTime \in Nat /\ PersistTime \in Nat
    /\ MaxToken \in Nat /\ MaxToken > 0 /\ MaxNonce \in Nat /\ MaxNonce > 0
    /\ MaxPolls \in Nat /\ MaxRefreshes \in Nat /\ MaxUpsets \in Nat
    /\ CasAttempts \in Nat /\ CasAttempts > 0 /\ FinalAttempts \in Nat /\ FinalAttempts > 0
    /\ AdmissionWait + 2 * RefreshTimeout <= ClaimTtl
    /\ RereadTime + PersistTime < RefreshTimeout
BY RefreshAssumption

\* What the upstream has minted are tokens.
LEMMA MintedTokens == \A m \in 0..MaxToken : 1..m \subseteq Tokens
BY Numbers DEF Tokens

\* Zero, which stands for no token, is none.
LEMMA TokenRange == 0 \notin Tokens /\ Tokens \subseteq 0..MaxToken
BY Numbers DEF Tokens

\* One more token is minted: it is new, and what was minted is minted.
LEMMA OneMore ==
    /\ \A m \in Nat : m + 1 \notin 1..m /\ m + 1 <= m + 1
    /\ \A m \in Nat, k \in 0..MaxToken : k <= m => k <= m + 1
BY Numbers

\* The key of a task (_refresh_singleflight_key) is its process and token.
LEMMA KeyParts ==
    /\ \A t \in Keys : t[1] \in Procs /\ t[2] \in Tokens /\ t = <<t[1], t[2]>>
    /\ \A p \in Procs, k \in Tokens : <<p, k>> \in Keys /\ <<p, k>>[1] = p /\ <<p, k>>[2] = k
BY DEF Keys

\* A row that is there has a token, and a missing one no status of an account.
LEMMA RowParts ==
    \A r \in Rows :
        /\ r.token \in 0..MaxToken /\ r.nonce \in 0..MaxNonce
        /\ r.token = 0 <=> r = NoRow
        /\ r # NoRow => r.token \in Tokens /\ r.nonce \in Nonces /\ r.status \in Statuses
        /\ r.status \in Terminal \cup {"active", "limited", "paused"} => r # NoRow
<1> SUFFICES ASSUME NEW r \in Rows
             PROVE  /\ r.token \in 0..MaxToken /\ r.nonce \in 0..MaxNonce
                    /\ r.token = 0 <=> r = NoRow
                    /\ r # NoRow => r.token \in Tokens /\ r.nonce \in Nonces /\ r.status \in Statuses
                    /\ r.status \in Terminal \cup {"active", "limited", "paused"} => r # NoRow
    OBVIOUS
<1>1. CASE r = NoRow
    BY <1>1, Numbers DEF NoRow, Terminal
<1>2. CASE r \in [token: Tokens, nonce: Nonces, status: Statuses]
    BY <1>2, Numbers DEF Tokens, Nonces, NoRow
<1> QED BY Zenon, <1>1, <1>2 DEF Rows

\* An UPDATE of the status keeps the row a row.
LEMMA RowStatus ==
    ASSUME NEW r \in Rows, r # NoRow, NEW s \in Statuses
    PROVE  /\ [r EXCEPT !.status = s] \in Rows
           /\ [r EXCEPT !.status = s].token = r.token
           /\ [r EXCEPT !.status = s].status = s
BY Zenon DEF Rows

\* What is idle, absent or free is well typed.
LEMMA IdleTypes ==
    /\ IdleTask \in TaskStates /\ IdleTask.pc = "idle" /\ IdleTask.seen.token = 0
    /\ IdleCaller \in CallerStates /\ IdleCaller.pc = "idle" /\ IdleCaller.snap.token = 0
    /\ NoClaim \in [by: Keys \cup {<<Nobody, 0>>}, left: 0..ClaimTtl]
    /\ NoRow \in Rows
BY Numbers DEF IdleTask, TaskStates, Points, Rows, NoRow, Outcomes, IdleCaller, CallerStates, NoClaim

\* The types of a task's fields.
LEMMA TaskParts ==
    ASSUME NEW v \in TaskStates
    PROVE  /\ v.pc \in Points /\ v.seen \in Rows /\ v.new \in 0..MaxToken /\ v.newNonce \in 0..MaxNonce
           /\ v.tries \in Nat /\ v.clock \in Nat /\ v.out \in Outcomes
BY Zenon DEF TaskStates

\* The time still ahead of a task is a number.
LEMMA AheadType == \A point : Ahead(point) \in Nat /\ Ahead(point) >= 1
BY Numbers DEF Ahead

\* The TTL covers the section, and every wait what is ahead of it.
LEMMA AheadSteps ==
    /\ ClaimTtl >= RereadTime + Ahead("reread")
    /\ \A n \in Nat : RefreshTimeout + Ahead("exchange") <= n + Ahead("admit")
BY Numbers DEF Ahead

\* What covers a wait covers a shorter one.
LEMMA Shorter == \A a, b, c, d, n \in Nat : a + b <= c + d /\ n >= c + d => n >= a + b
OBVIOUS

-----------------------------------------------------------------------------
(* The shapes of the steps.                                                *)

\* A row that keeps its token, or is deleted, and is flagged only if dead.
RowKept ==
    /\ row' \in Rows
    /\ row'.token \in {0, row.token}
    /\ row'.status \in Terminal => row.status \in Terminal \/ row.token \in Dead

\* What is true of the tokens a task remembers stays true.
LEMMA GroundedGrows ==
    ASSUME NEW t \in Keys, NEW v \in TaskStates, NEW us, NEW us2, NEW rv, NEW rv2,
           NEW mi \in Nat, NEW mi2 \in Nat, NEW par, NEW par2,
           Grounded(t, v, us, rv, mi, par),
           us \subseteq us2, rv \subseteq rv2, mi <= mi2,
           \A k \in 1..mi : par2[k] = par[k]
    PROVE  Grounded(t, v, us2, rv2, mi2, par2)
<1>1. v.new \in 1..mi => v.new \in 1..mi2 /\ par2[v.new] = par[v.new]
    OBVIOUS
<1> QED BY Zenon, <1>1 DEF Grounded

\* While one task moves, and takes or gives back the claim only if it is free
\* or its own, every other task keeps the claim it holds.
LEMMA OthersCovered ==
    ASSUME IInv, NEW t \in Keys, NEW u \in Keys, u # t,
           claim' = claim \/ claim.left = 0 \/ claim.by = t
    PROVE  Covered(u, tasks[u], claim')
<1>1. Covered(u, tasks[u], claim) /\ tasks[u] \in TaskStates
    BY Zenon DEF IInv, TasksOK, TypeOK
<1>2. claim.left \in 0..ClaimTtl
    BY Zenon DEF IInv, TypeOK
<1>3. CASE tasks[u].pc \in Protected
  <2>1. claim.by = u /\ claim.left >= tasks[u].clock + Ahead(tasks[u].pc)
    BY Zenon, <1>1, <1>3 DEF Covered
  <2>2. tasks[u].clock \in Nat
    BY Zenon, <1>1, TaskParts
  <2>3. claim.left # 0
    BY <2>1, <2>2, <1>2, AheadType
  <2> QED BY Zenon, <2>1, <2>3, <1>1
<1> QED BY Zenon, <1>3 DEF Covered

\* One task moves; the row keeps its token and the upstream at most uses one.
LEMMA TaskMove ==
    ASSUME IInv, NEW t \in Keys, NEW v \in TaskStates, tasks[t].pc # "idle",
           tasks' = [tasks EXCEPT ![t] = v], Bookkeeping',
           claim' \in [by: Keys \cup {<<Nobody, 0>>}, left: 0..ClaimTtl],
           claim' = claim \/ claim.left = 0 \/ claim.by = t,
           RowKept, used \subseteq used', used' \subseteq Tokens,
           UNCHANGED <<cooled, callers, minted, parent, revoked>>,
           Covered(t, v, claim'), Grounded(t, v, used', revoked, minted, parent),
           v.pc \in {"write", "check"} => row'.token # v.new /\ Unread(v.new, callers, tasks)
    PROVE  IInv'
<1> USE DEF IInv
<1>1. TypeOK'
    BY Zenon DEF TypeOK, Bookkeeping, RowKept
<1>2. \A u \in Keys : tasks[u] \in TaskStates /\ tasks'[u] = IF u = t THEN v ELSE tasks[u]
    BY Zenon DEF TypeOK
<1>3. minted \in Nat
    BY Numbers DEF TypeOK
<1>4. TasksOK'
  <2> SUFFICES ASSUME NEW u \in Keys
               PROVE  /\ Covered(u, tasks'[u], claim')
                      /\ Grounded(u, tasks'[u], used', revoked, minted, parent)
    BY Zenon DEF TasksOK
  <2>1. CASE u = t
    BY Zenon, <2>1, <1>2
  <2>2. CASE u # t
    <3>1. Covered(u, tasks[u], claim')
      BY Zenon, <2>2, OthersCovered
    <3>2. Grounded(u, tasks[u], used, revoked, minted, parent)
      BY Zenon DEF TasksOK
    <3>3. Grounded(u, tasks[u], used', revoked, minted, parent)
      BY <3>2, <1>2, <1>3, GroundedGrows
    <3> QED BY Zenon, <2>2, <3>1, <3>3, <1>2
  <2> QED BY Zenon, <2>1, <2>2
<1>5. ASSUME NEW k \in Tokens, Unread(k, callers, tasks)
      PROVE  Unread(k, callers', tasks')
  <2>1. \A p \in Procs : tasks[<<p, k>>].pc = "idle" /\ <<p, k>> \in Keys
    BY Zenon, <1>5, KeyParts DEF Unread
  <2>2. \A p \in Procs : tasks'[<<p, k>>] = tasks[<<p, k>>]
    BY Zenon, <2>1, <1>2
  <2> QED BY Zenon, <1>5, <2>1, <2>2 DEF Unread
<1>6. RowOK'
  <2> SUFFICES ASSUME row'.status \in Terminal
               PROVE  row'.token \in used' \cup revoked' \/ Unread(row'.token, callers', tasks')
    BY Zenon DEF RowOK, Dead
  <2>1. row' # NoRow /\ row'.token = row.token /\ row.token \in Tokens
    BY Zenon, RowParts DEF RowKept, Terminal
  <2>2. row.token \in Dead \/ Unread(row.token, callers, tasks)
    BY Zenon DEF RowOK, RowKept
  <2>3. CASE row.token \in Dead
    BY Zenon, <2>1, <2>3 DEF Dead
  <2>4. CASE Unread(row.token, callers, tasks)
    BY <2>1, <2>4, <1>5, Zenon
  <2> QED BY Zenon, <2>2, <2>3, <2>4
<1>7. SuccessorOK'
  <2> SUFFICES ASSUME NEW u \in Keys, tasks'[u].pc \in {"write", "check"}
               PROVE  row'.token # tasks'[u].new /\ Unread(tasks'[u].new, callers', tasks')
    BY Zenon DEF SuccessorOK
  <2>1. tasks'[u].new \in Tokens
    <3>1. Grounded(u, tasks'[u], used', revoked, minted, parent)
      BY Zenon, <1>4 DEF TasksOK
    <3>2. tasks'[u].new \in 1..minted /\ minted \in 0..MaxToken
      BY Zenon, <3>1 DEF Grounded, TypeOK
    <3> QED BY <3>2, Numbers DEF Tokens
  <2>2. row'.token # tasks'[u].new /\ Unread(tasks'[u].new, callers, tasks)
    <3>1. CASE u = t
      BY Zenon, <3>1, <1>2
    <3>2. CASE u # t
      <4>1. row.token # tasks[u].new /\ Unread(tasks[u].new, callers, tasks)
        BY Zenon, <3>2, <1>2 DEF SuccessorOK
      <4>2. row'.token # tasks[u].new
        BY <4>1, <2>1, <3>2, <1>2, Numbers DEF RowKept, Tokens
      <4> QED BY Zenon, <4>1, <4>2, <3>2, <1>2
    <3> QED BY Zenon, <3>1, <3>2
  <2> QED BY <2>1, <2>2, <1>5, Zenon
<1>8. CooledOK' /\ CallersOK'
    BY Zenon DEF CooledOK, CallersOK, Dead
<1>9. MintedOK'
  <2>1. row'.token <= minted
    BY <1>3 DEF RowKept, MintedOK
  <2> QED BY Zenon, <2>1, <1>2 DEF MintedOK
<1> QED BY Zenon, <1>1, <1>4, <1>6, <1>7, <1>8, <1>9

\* The row keeps its token; tasks end, or start for a token that some caller
\* has read; callers forget or keep their snapshot, or read an account that is
\* not flagged; nothing is remembered or condemned but dead tokens.
LEMMA QuietMove ==
    ASSUME IInv, Bookkeeping', RowKept,
           claim' \in [by: Keys \cup {<<Nobody, 0>>}, left: 0..ClaimTtl],
           tasks' \in [Keys -> TaskStates], callers' \in [Callers -> CallerStates],
           cooled' \in [Procs -> SUBSET Tokens],
           used \subseteq used', used' \subseteq Tokens,
           revoked \subseteq revoked', revoked' \subseteq Tokens,
           UNCHANGED <<minted, parent>>,
           \A u \in Keys :
               \/ tasks'[u] = tasks[u] /\ (tasks[u].pc \in Protected => claim' = claim)
               \/ tasks'[u] = IdleTask
               \/ /\ tasks'[u].pc = "claim" /\ tasks'[u].seen.token = 0
                  /\ \E c \in Callers : callers[c].snap.token = u[2],
           \A c \in Callers :
               \/ callers'[c].snap.token \in {0, callers[c].snap.token}
               \/ callers'[c].snap = row /\ row' = row /\ row.status \notin Terminal,
           \A c \in Callers :
               callers'[c].pc = "condemn" => callers'[c].snap.token \in used' \cup revoked',
           \A p \in Procs : cooled'[p] \subseteq used' \cup revoked'
    PROVE  IInv'
<1> USE DEF IInv
<1>1. TypeOK'
    BY Zenon DEF TypeOK, Bookkeeping, RowKept
<1>2. minted \in Nat /\ \A u \in Keys : tasks[u] \in TaskStates
    BY Numbers DEF TypeOK
<1>3. TasksOK'
  <2> SUFFICES ASSUME NEW u \in Keys
               PROVE  /\ Covered(u, tasks'[u], claim')
                      /\ Grounded(u, tasks'[u], used', revoked', minted, parent)
    BY Zenon DEF TasksOK
  <2>1. CASE tasks'[u] = tasks[u] /\ (tasks[u].pc \in Protected => claim' = claim)
    <3>1. Covered(u, tasks[u], claim')
      BY Zenon, <2>1 DEF TasksOK, Covered
    <3>2. Grounded(u, tasks[u], used, revoked, minted, parent)
      BY Zenon DEF TasksOK
    <3>3. Grounded(u, tasks[u], used', revoked', minted, parent)
      BY <3>2, <1>2, GroundedGrows
    <3> QED BY Zenon, <2>1, <3>1, <3>3
  <2>2. CASE tasks'[u].pc \in {"idle", "claim"} /\ tasks'[u].seen.token = 0
    BY Zenon, <2>2 DEF Covered, Grounded, Protected, Persisting
  <2> QED BY <2>1, <2>2, IdleTypes, ZenonT(30)
<1>4. ASSUME NEW k \in Tokens, Unread(k, callers, tasks),
             k # row.token \/ row.status \in Terminal
      PROVE  Unread(k, callers', tasks')
  <2>1. ASSUME NEW c \in Callers PROVE callers'[c].snap.token # k
    <3>1. callers[c].snap.token # k /\ k # 0
      BY <1>4, Numbers DEF Unread, Tokens
    <3> QED BY Zenon, <3>1, <1>4
  <2>2. ASSUME NEW p \in Procs PROVE tasks'[<<p, k>>].pc = "idle"
    <3>1. tasks[<<p, k>>].pc = "idle" /\ <<p, k>> \in Keys /\ <<p, k>>[2] = k
      BY Zenon, <1>4, KeyParts DEF Unread
    <3>2. \A c \in Callers : callers[c].snap.token # k
      BY Zenon, <1>4 DEF Unread
    <3> QED BY Zenon, <3>1, <3>2, IdleTypes
  <2> QED BY Zenon, <2>1, <2>2 DEF Unread
<1>5. RowOK'
  <2> SUFFICES ASSUME row'.status \in Terminal
               PROVE  row'.token \in used' \cup revoked' \/ Unread(row'.token, callers', tasks')
    BY Zenon DEF RowOK, Dead
  <2>1. row' # NoRow /\ row'.token = row.token /\ row.token \in Tokens
    BY Zenon, RowParts DEF RowKept, Terminal
  <2>2. row.token \in Dead \/ (row.status \in Terminal /\ Unread(row.token, callers, tasks))
    BY Zenon DEF RowOK, RowKept
  <2>3. CASE row.token \in Dead
    BY Zenon, <2>1, <2>3 DEF Dead
  <2>4. CASE row.status \in Terminal /\ Unread(row.token, callers, tasks)
    BY Zenon, <2>1, <2>4, <1>4
  <2> QED BY Zenon, <2>2, <2>3, <2>4
<1>6. SuccessorOK'
  <2> SUFFICES ASSUME NEW u \in Keys, tasks'[u].pc \in {"write", "check"}
               PROVE  row'.token # tasks'[u].new /\ Unread(tasks'[u].new, callers', tasks')
    BY Zenon DEF SuccessorOK
  <2>1. tasks'[u] = tasks[u]
    BY Zenon, IdleTypes
  <2>2. tasks[u].new \in 1..minted /\ minted \in 0..MaxToken
    BY Zenon, <2>1 DEF TasksOK, Grounded, TypeOK
  <2>3. tasks[u].new \in Tokens
    BY <2>2, MintedTokens, Zenon
  <2>4. row.token # tasks[u].new /\ Unread(tasks[u].new, callers, tasks)
    BY <2>1, ZenonT(30) DEF SuccessorOK
  <2>5. row'.token # tasks[u].new
    BY <2>3, <2>4, TokenRange, Zenon DEF RowKept
  <2> QED BY Zenon, <2>1, <2>3, <2>4, <2>5, <1>4
<1>7. CooledOK' /\ CallersOK'
    BY Zenon DEF CooledOK, CallersOK, Dead
<1>8. MintedOK'
  <2>1. row'.token <= minted
    BY <1>2 DEF RowKept, MintedOK
  <2>2. \A c \in Callers : callers'[c].snap.token <= minted
    BY <1>2 DEF MintedOK
  <2>3. \A u \in Keys : tasks'[u].pc # "idle" => u[2] <= minted
    BY Zenon, IdleTypes DEF MintedOK
  <2>4. \A k \in Tokens : k > minted' => parent'[k] = 0
    BY Zenon DEF MintedOK
  <2> QED BY Zenon, <2>1, <2>2, <2>3, <2>4 DEF MintedOK
<1> QED BY Zenon, <1>1, <1>3, <1>5, <1>6, <1>7, <1>8

-----------------------------------------------------------------------------
(* The actions.                                                            *)

\* What the invariant says of the parts an action leaves alone.
LEMMA Unmoved ==
    ASSUME IInv
    PROVE  /\ row' = row => RowKept
           /\ claim' = claim => claim' \in [by: Keys \cup {<<Nobody, 0>>}, left: 0..ClaimTtl]
           /\ tasks' = tasks => tasks' \in [Keys -> TaskStates]
           /\ callers' = callers =>
                 /\ callers' \in [Callers -> CallerStates]
                 /\ \A c \in Callers : callers'[c].pc = "condemn" => callers'[c].snap.token \in Dead
           /\ cooled' = cooled =>
                 /\ cooled' \in [Procs -> SUBSET Tokens]
                 /\ \A p \in Procs : cooled'[p] \subseteq Dead
           /\ used \subseteq Tokens /\ revoked \subseteq Tokens
           /\ UNCHANGED <<refreshes, upsets, sent, lost>> => Bookkeeping'
           /\ Upset /\ UNCHANGED <<refreshes, sent, lost>> => Bookkeeping'
BY Numbers DEF IInv, TypeOK, RowKept, CooledOK, CallersOK, Bookkeeping, Upset

\* The deletion of a row, or a status that is no flag of a live token, keeps it.
LEMMA KeptRows ==
    ASSUME IInv
    PROVE  /\ row' = NoRow => RowKept
           /\ \A s \in Statuses :
                 /\ row # NoRow /\ row' = [row EXCEPT !.status = s]
                 /\ s \in Terminal => row.token \in Dead
                 => RowKept
<1>1. row \in Rows
    BY Zenon DEF IInv, TypeOK
<1>2. row' = NoRow => RowKept
    BY Zenon, IdleTypes, RowParts DEF RowKept, NoRow, Terminal
<1>3. ASSUME NEW s \in Statuses, row # NoRow, row' = [row EXCEPT !.status = s],
             s \in Terminal => row.token \in Dead
      PROVE  RowKept
    BY <1>1, <1>3, RowStatus, ZenonT(30) DEF RowKept
<1> QED BY Zenon, <1>2, <1>3

\* A caller that moves and forgets or keeps its snapshot, or reads the row.
LEMMA CallerMove ==
    ASSUME IInv, NEW c \in Callers, NEW w \in CallerStates,
           callers' = [callers EXCEPT ![c] = w], RowKept, Bookkeeping',
           \/ w.snap.token \in {0, callers[c].snap.token}
           \/ w.snap = row /\ row' = row /\ row.status \notin Terminal,
           w.pc = "condemn" => w.snap.token \in Dead,
           UNCHANGED <<claim, tasks, cooled, minted, parent, used, revoked>>
    PROVE  IInv'
<1>1. /\ callers \in [Callers -> CallerStates]
      /\ \A d \in Callers : callers[d].pc = "condemn" => callers[d].snap.token \in Dead
    BY ZenonT(30) DEF IInv, TypeOK, CallersOK
<1>2. callers' \in [Callers -> CallerStates]
    BY <1>1, ZenonT(30)
<1>3. \A d \in Callers : callers'[d] = IF d = c THEN w ELSE callers[d]
    BY Zenon, <1>1
<1>4. \A d \in Callers :
          \/ callers'[d].snap.token \in {0, callers[d].snap.token}
          \/ callers'[d].snap = row /\ row' = row /\ row.status \notin Terminal
    BY Zenon, <1>3
<1>5. \A d \in Callers :
          callers'[d].pc = "condemn" => callers'[d].snap.token \in used' \cup revoked'
    BY Zenon, <1>1, <1>3 DEF Dead
<1>6. \A u \in Keys : tasks'[u] = tasks[u] /\ (tasks[u].pc \in Protected => claim' = claim)
    OBVIOUS
<1>7. \A p \in Procs : cooled'[p] \subseteq used' \cup revoked'
    BY Zenon, Unmoved DEF Dead
<1> QED BY <1>2, <1>4, <1>5, <1>6, <1>7, Unmoved, QuietMove, ZenonT(30)

\* LoadBalancer.mark_permanent_failure flags the row of a snapshot only, and
\* what is condemned is dead; mark_rate_limit flags nothing.
LEMMA MarksKept ==
    ASSUME IInv, NEW c \in Callers, MarkPermanentFailure(c) \/ MarkRateLimit(c)
    PROVE  RowKept
<1>1. CASE MarkPermanentFailure(c)
  <2>1. callers[c].snap.token \in Dead
    BY Zenon, <1>1 DEF MarkPermanentFailure, IInv, CallersOK
  <2>2. PICK verdict \in Terminal :
            row' = IF row = callers[c].snap THEN [row EXCEPT !.status = verdict] ELSE row
    BY Zenon, <1>1 DEF MarkPermanentFailure
  <2>3. CASE row = NoRow
    <3>1. callers[c].snap.token \in Tokens
      BY Zenon, <2>1, Unmoved DEF Dead
    <3>2. row # callers[c].snap
      BY <3>1, <2>3, Numbers DEF NoRow, Tokens
    <3> QED BY Zenon, <2>2, <3>2, Unmoved
  <2>4. CASE row # NoRow
    BY Zenon, <2>1, <2>2, <2>4, Unmoved, KeptRows DEF Statuses
  <2> QED BY Zenon, <2>3, <2>4
<1>2. CASE MarkRateLimit(c)
    BY Zenon, <1>2, Unmoved, KeptRows DEF MarkRateLimit, Statuses, Terminal
<1> QED BY Zenon, <1>1, <1>2

\* Every step of a caller keeps the invariant.
LEMMA CallerStepOK ==
    ASSUME IInv, NEW c \in Callers, CallerStep(c)
    PROVE  IInv'
<1> USE DEF upstream, history
<1>1. callers[c] \in CallerStates /\ row \in Rows
    BY Zenon DEF IInv, TypeOK
<1>2. \A point \in {"idle", "ready", "waiting", "condemn"} :
          /\ [callers[c] EXCEPT !.pc = point] \in CallerStates
          /\ [callers[c] EXCEPT !.pc = point].pc = point
          /\ [callers[c] EXCEPT !.pc = point].snap = callers[c].snap
    BY Zenon, <1>1 DEF CallerStates
<1>4. CASE Select(c)
  <2> DEFINE w == [pc |-> "ready", snap |-> row]
  <2>1. w \in CallerStates /\ w.snap = row /\ w.pc # "condemn"
    BY Zenon, <1>1 DEF CallerStates
  <2>2. row.status \notin Terminal
    BY Zenon, <1>4 DEF Select, Terminal
  <2>3. callers' = [callers EXCEPT ![c] = w] /\ RowKept /\ Bookkeeping'
    BY Zenon, <1>4, Unmoved DEF Select
  <2> QED BY <2>1, <2>2, <2>3, <1>4, CallerMove, Zenon DEF Select
<1>5. CASE Leave(c)
  <2>1. callers' = [callers EXCEPT ![c] = IdleCaller] /\ RowKept /\ Bookkeeping'
    BY Zenon, <1>5, Unmoved DEF Leave
  <2> QED BY <2>1, <1>5, IdleTypes, CallerMove, Zenon DEF Leave
<1>6. CASE Rejected(c)
  <2> DEFINE w == [callers[c] EXCEPT !.pc = "condemn"]
  <2>1. callers' = [callers EXCEPT ![c] = w] /\ RowKept /\ Bookkeeping'
    BY Zenon, <1>1, <1>6, Unmoved DEF Rejected
  <2>2. w.snap.token \in Dead
    BY Zenon, <1>2, <1>6 DEF Rejected, Dead
  <2> QED BY <2>1, <2>2, <1>2, <1>6, CallerMove, Zenon DEF Rejected
<1>7. CASE MarkPermanentFailure(c)
  <2>1. RowKept
    BY Zenon, <1>7, MarksKept
  <2>2. callers' = [callers EXCEPT ![c] = IdleCaller] /\ Bookkeeping'
    BY Zenon, <1>7, Unmoved DEF MarkPermanentFailure
  <2> QED BY <2>1, <2>2, <1>7, IdleTypes, CallerMove, Zenon DEF MarkPermanentFailure
<1>8. CASE MarkRateLimit(c)
  <2>1. RowKept
    BY Zenon, <1>8, MarksKept
  <2>2. callers' = [callers EXCEPT ![c] = IdleCaller]
    BY Zenon, <1>8 DEF MarkRateLimit
  <2>3. Bookkeeping'
    <3>1. row.status \in Terminal => row.token \in Tokens
      BY <1>1, RowParts, ZenonT(30)
    <3> QED BY <3>1, <1>8, Numbers DEF MarkRateLimit, Upset, Bookkeeping, IInv, TypeOK
  <2> QED BY <2>1, <2>2, <2>3, <1>8, IdleTypes, CallerMove, Zenon DEF MarkRateLimit
<1>9. CASE EnsureFresh(c)
  <2> DEFINE p == Home[c]
             k == callers[c].snap.token
             t == <<p, k>>
             Joined(point) == [callers EXCEPT ![c].pc = point]
  <2>1. p \in Procs
    BY Zenon, RefreshAssumption
  <2>2. /\ cooled \in [Procs -> SUBSET Tokens]
        /\ \A q \in Procs : cooled[q] \subseteq Dead
        /\ callers \in [Callers -> CallerStates]
        /\ tasks \in [Keys -> TaskStates]
        /\ \A d \in Callers : callers[d].pc = "condemn" => callers[d].snap.token \in Dead
    BY Zenon DEF IInv, TypeOK, CooledOK, CallersOK
  <2>3. /\ cooled' \in [Procs -> SUBSET Tokens]
        /\ \A q \in Procs : cooled'[q] \subseteq used' \cup revoked'
    BY <1>9, <2>1, <2>2, Zenon DEF EnsureFresh, Dead
  <2>4. \A point \in {"waiting", "condemn"}, d \in Callers :
            /\ Joined(point)[d] = IF d = c THEN [callers[c] EXCEPT !.pc = point] ELSE callers[d]
            /\ Joined(point) \in [Callers -> CallerStates]
    BY Zenon, <2>2, <1>2
  <2>5. \/ callers' = Joined("waiting")
        \/ callers' = Joined("condemn") /\ k \in cooled[p]
    BY <1>9, Zenon DEF EnsureFresh
  <2>6. callers' \in [Callers -> CallerStates]
    BY Zenon, <2>4, <2>5
  <2>7. \A d \in Callers : callers'[d].snap.token \in {0, callers[d].snap.token}
    BY <2>4, <2>5, <1>2, Zenon
  <2>8. \A d \in Callers :
            callers'[d].pc = "condemn" => callers'[d].snap.token \in used' \cup revoked'
    BY <2>1, <2>2, <2>4, <2>5, <1>2, <1>9, ZenonT(30) DEF EnsureFresh, Dead
  <2>9. /\ tasks' \in [Keys -> TaskStates]
        /\ refreshes' \in 0..MaxRefreshes
        /\ \A u \in Keys :
              \/ tasks'[u] = tasks[u]
              \/ /\ tasks'[u].pc = "claim" /\ tasks'[u].seen.token = 0
                 /\ \E d \in Callers : callers[d].snap.token = u[2]
    <3>1. CASE UNCHANGED <<tasks, refreshes>>
      BY Zenon, <3>1, <2>2 DEF IInv, TypeOK
    <3>2. CASE /\ refreshes < MaxRefreshes /\ refreshes' = refreshes + 1
               /\ \E polls \in 0..MaxPolls :
                     tasks' = [tasks EXCEPT ![t] = [IdleTask EXCEPT !.pc = "claim", !.tries = polls]]
      <4>1. PICK polls \in 0..MaxPolls :
                tasks' = [tasks EXCEPT ![t] = [IdleTask EXCEPT !.pc = "claim", !.tries = polls]]
        BY <3>2, Zenon
      <4> DEFINE v == [IdleTask EXCEPT !.pc = "claim", !.tries = polls]
      <4>2. v \in TaskStates /\ v.pc = "claim" /\ v.seen.token = 0
        <5>1. "claim" \in Points /\ polls \in Nat
          BY Numbers DEF Points
        <5> QED BY <5>1, IdleTypes, Zenon DEF TaskStates
      <4>3. refreshes' \in 0..MaxRefreshes
        BY <3>2, Numbers DEF IInv, TypeOK
      <4>4. tasks' = [tasks EXCEPT ![t] = v] /\ t[2] = k
        BY Zenon, <4>1
      <4> HIDE DEF v
      <4>5. tasks' \in [Keys -> TaskStates]
        BY <4>2, <4>4, <2>2, ZenonT(30)
      <4>6. \A u \in Keys : tasks'[u] = IF u = t THEN v ELSE tasks[u]
        BY Zenon, <4>4, <2>2
      <4> QED BY Zenon, <4>2, <4>3, <4>4, <4>5, <4>6
    <3> QED BY <3>1, <3>2, <1>9, ZenonT(30) DEF EnsureFresh
  <2>10. Bookkeeping'
    BY <2>9, <1>9, Zenon DEF EnsureFresh, Bookkeeping, IInv, TypeOK
  <2>11. /\ UNCHANGED <<row, claim, minted, parent, used, revoked>> /\ RowKept
    BY <1>9, Unmoved, Zenon DEF EnsureFresh
  <2> HIDE DEF p, k, t, Joined
  <2> QED BY <2>3, <2>6, <2>7, <2>8, <2>9, <2>10, <2>11, Unmoved, QuietMove, ZenonT(30)
<1> QED BY Zenon, <1>4, <1>5, <1>6, <1>7, <1>8, <1>9 DEF CallerStep

\* Where a task is sent (At), its other fields stay.
LEMMA AtParts ==
    ASSUME IInv, NEW t \in Keys, NEW point \in Points
    PROVE  /\ At(t, point) \in TaskStates /\ At(t, point).pc = point
           /\ At(t, point).seen = tasks[t].seen /\ At(t, point).new = tasks[t].new
           /\ At(t, point).newNonce = tasks[t].newNonce /\ At(t, point).tries = tasks[t].tries
           /\ At(t, point).clock = tasks[t].clock /\ At(t, point).out = tasks[t].out
<1>1. tasks[t] \in TaskStates
    BY Zenon DEF IInv, TypeOK
<1> QED BY Zenon, <1>1 DEF At, TaskStates

\* What the invariant says of one task.
LEMMA TaskFacts ==
    ASSUME IInv, NEW t \in Keys
    PROVE  /\ tasks[t] \in TaskStates /\ tasks \in [Keys -> TaskStates]
           /\ row \in Rows /\ t[2] \in Tokens
           /\ Covered(t, tasks[t], claim)
           /\ Grounded(t, tasks[t], used, revoked, minted, parent)
           /\ tasks[t].pc \in {"write", "check"} =>
                 row.token # tasks[t].new /\ Unread(tasks[t].new, callers, tasks)
BY Zenon, KeyParts DEF IInv, TypeOK, TasksOK, SuccessorOK

\* The clocks that a task and its claim run on are numbers.
LEMMA Times ==
    ASSUME IInv, NEW t \in Keys
    PROVE  tasks[t].clock \in Nat /\ claim.left \in Nat
<1>1. tasks[t] \in TaskStates /\ claim.left \in 0..ClaimTtl
    BY Zenon DEF IInv, TypeOK
<1> QED BY <1>1, TaskParts, Numbers

\* A section that ends leaves the task nothing to protect.
LEMMA SectionEnds ==
    ASSUME IInv, NEW t \in Keys, NEW out \in Outcomes, tasks[t].pc # "idle",
           EndSection(t, out), out = "permanent" => t[2] \in used' \cup revoked,
           RowKept, Bookkeeping', used \subseteq used', used' \subseteq Tokens,
           UNCHANGED <<claim, cooled, callers, minted, parent, revoked>>
    PROVE  IInv'
<1> DEFINE v == [At(t, "release") EXCEPT !.seen = NoRow, !.clock = 0, !.out = out]
<1>1. v \in TaskStates /\ v.pc = "release" /\ v.seen = NoRow /\ v.out = out
  <2>1. At(t, "release") \in TaskStates /\ At(t, "release").pc = "release"
    BY AtParts, ZenonT(30) DEF Points
  <2>2. NoRow \in Rows
    BY IdleTypes, ZenonT(30)
  <2> QED BY <2>1, <2>2, Zenon DEF TaskStates
<1>2. tasks' = [tasks EXCEPT ![t] = v]
    BY Zenon DEF EndSection, Become
<1> HIDE DEF v
<1>3. Covered(t, v, claim')
    BY Zenon, <1>1 DEF Covered, Protected, Persisting
<1>4. Grounded(t, v, used', revoked, minted, parent)
    BY <1>1 DEF Grounded, NoRow
<1> QED BY <1>1, <1>2, <1>3, <1>4, Unmoved, TaskMove, Zenon

\* Acquiring: the TTL covers all that the section may take.
LEMMA TryAcquireOK ==
    ASSUME IInv, NEW t \in Keys, TryAcquire(t)
    PROVE  IInv'
<1> USE DEF upstream, history
<1>1. /\ tasks[t].pc = "claim" /\ RowKept /\ Bookkeeping' /\ used' = used /\ used' \subseteq Tokens
      /\ UNCHANGED <<cooled, callers, minted, parent, revoked>>
    BY Zenon, Unmoved DEF TryAcquire
<1>2. CASE claim.left = 0 \/ claim.by = t
  <2> DEFINE v == [At(t, "reread") EXCEPT !.clock = RereadTime]
  <2>1. v \in TaskStates /\ v.pc = "reread" /\ v.seen = tasks[t].seen /\ v.clock = RereadTime
    <3>1. "reread" \in Points /\ RereadTime \in Nat
      BY Zenon, Numbers DEF Points, Protected
    <3> QED BY <3>1, AtParts DEF TaskStates
  <2>2. tasks' = [tasks EXCEPT ![t] = v] /\ claim' = [by |-> t, left |-> ClaimTtl]
    BY Zenon, <1>2 DEF TryAcquire, Become
  <2> HIDE DEF v
  <2>3. claim' \in [by: Keys \cup {<<Nobody, 0>>}, left: 0..ClaimTtl]
    BY <2>2, Numbers
  <2>4. Covered(t, v, claim')
    BY <2>1, <2>2, AheadSteps, ZenonT(30) DEF Covered
  <2>5. Grounded(t, v, used', revoked, minted, parent)
    BY <2>1, TaskFacts, ZenonT(30) DEF Grounded
  <2> QED BY <1>1, <1>2, <2>1, <2>2, <2>3, <2>4, <2>5, TaskMove, Zenon
<1>3. CASE ~(claim.left = 0 \/ claim.by = t)
  <2>1. At(t, "peek") \in TaskStates /\ At(t, "peek").pc = "peek" /\ At(t, "peek").seen = tasks[t].seen
    BY Zenon, AtParts DEF Points
  <2>2. tasks' = [tasks EXCEPT ![t] = At(t, "peek")] /\ claim' = claim
    BY Zenon, <1>3 DEF TryAcquire, Become
  <2>3. Covered(t, At(t, "peek"), claim')
    BY <2>1, ZenonT(30) DEF Covered, Protected, Persisting
  <2>4. Grounded(t, At(t, "peek"), used', revoked, minted, parent)
    BY <2>1, TaskFacts, ZenonT(30) DEF Grounded
  <2> QED BY <1>1, <2>1, <2>2, <2>3, <2>4, Unmoved, TaskMove, ZenonT(30)
<1> QED BY Zenon, <1>2, <1>3

\* A task that finishes wakes its waiters with the fate of its own token.
LEMMA Finishes ==
    ASSUME IInv, NEW t \in Keys, NEW out \in Outcomes, Finish(t, out),
           out = "permanent" => t[2] \in Dead, Bookkeeping',
           claim' = claim \/ (claim.by = t /\ claim' = NoClaim),
           UNCHANGED <<row, minted, parent, used, revoked>>
    PROVE  IInv'
<1>1. /\ tasks \in [Keys -> TaskStates] /\ callers \in [Callers -> CallerStates]
      /\ cooled \in [Procs -> SUBSET Tokens]
      /\ \A p \in Procs : cooled[p] \subseteq Dead
      /\ \A c \in Callers : callers[c].pc = "condemn" => callers[c].snap.token \in Dead
    BY Zenon DEF IInv, TypeOK, CooledOK, CallersOK
<1>2. t[1] \in Procs /\ t[2] \in Tokens
    BY Zenon, KeyParts
<1>3. tasks' \in [Keys -> TaskStates] /\ \A u \in Keys : tasks'[u] = IF u = t THEN IdleTask ELSE tasks[u]
    BY Zenon, <1>1, IdleTypes DEF Finish, Become
<1>4. \A u \in Keys :
          \/ tasks'[u] = tasks[u] /\ (tasks[u].pc \in Protected => claim' = claim)
          \/ tasks'[u] = IdleTask
  <2> SUFFICES ASSUME NEW u \in Keys, u # t, tasks[u].pc \in Protected
               PROVE  claim' = claim
    BY Zenon, <1>3
  <2>1. claim.by = u
    BY Zenon DEF IInv, TasksOK, Covered
  <2> QED BY Zenon, <2>1
<1>5. claim' \in [by: Keys \cup {<<Nobody, 0>>}, left: 0..ClaimTtl]
    BY Zenon, Unmoved, IdleTypes
<1>6. cooled' = [cooled EXCEPT ![t[1]] =
                     IF out = "permanent" THEN cooled[t[1]] \cup {t[2]} ELSE cooled[t[1]] \ {t[2]}]
    BY ZenonT(30) DEF Finish
<1>7. cooled' \in [Procs -> SUBSET Tokens] /\ \A p \in Procs : cooled'[p] \subseteq used' \cup revoked'
    BY <1>1, <1>2, <1>6, ZenonT(30) DEF Dead
<1>8. ASSUME NEW c \in Callers
      PROVE  /\ callers'[c] \in CallerStates
             /\ callers'[c].snap.token \in {0, callers[c].snap.token}
             /\ callers'[c].pc = "condemn" => callers'[c].snap.token \in used' \cup revoked'
  <2>1. callers'[c] =
            IF callers[c].pc = "waiting" /\ t = <<Home[c], callers[c].snap.token>>
            THEN IF out = "permanent" THEN [callers[c] EXCEPT !.pc = "condemn"] ELSE IdleCaller
            ELSE callers[c]
    BY Zenon DEF Finish
  <2>2. callers[c] \in CallerStates
    BY <1>1, ZenonT(30)
  <2>3. CASE /\ callers[c].pc = "waiting" /\ t = <<Home[c], callers[c].snap.token>>
             /\ out = "permanent"
    <3>1. /\ [callers[c] EXCEPT !.pc = "condemn"] \in CallerStates
          /\ [callers[c] EXCEPT !.pc = "condemn"].snap = callers[c].snap
      BY Zenon, <2>2 DEF CallerStates
    <3>2. callers[c].snap.token \in Dead
      BY Zenon, <2>3
    <3> QED BY Zenon, <2>1, <2>3, <3>1, <3>2 DEF Dead
  <2>4. CASE callers'[c] = IdleCaller
    BY Zenon, <2>4, IdleTypes
  <2>5. CASE callers'[c] = callers[c]
    BY Zenon, <2>5, <1>1 DEF Dead
  <2> QED BY Zenon, <2>1, <2>3, <2>4, <2>5
<1>9. callers' \in [Callers -> CallerStates]
  <2>1. callers' = [c \in Callers |-> callers'[c]]
    BY Zenon DEF Finish
  <2> QED BY Zenon, <2>1, <1>8
<1> QED BY <1>3, <1>4, <1>5, <1>7, <1>8, <1>9, Unmoved, QuietMove, ZenonT(30)

\* Waiting for a foreign claim, and releasing one's own.
LEMMA PeekOK ==
    ASSUME IInv, NEW t \in Keys, Peek(t)
    PROVE  IInv'
<1> USE DEF upstream, history
<1>1. /\ tasks[t].pc = "peek" /\ RowKept /\ Bookkeeping' /\ used' \subseteq Tokens
      /\ UNCHANGED <<row, claim, minted, parent, used, revoked>>
    BY Zenon, Unmoved DEF Peek
<1>2. CASE Finish(t, "fresh") \/ Finish(t, "transient")
    BY Zenon, <1>1, <1>2, Finishes DEF Outcomes
<1>3. CASE /\ tasks[t].tries > 0
           /\ Become(t, [At(t, "claim") EXCEPT !.tries = @ - 1])
           /\ UNCHANGED <<callers, cooled>>
  <2> DEFINE v == [At(t, "claim") EXCEPT !.tries = tasks[t].tries - 1]
  <2>1. v \in TaskStates /\ v.pc = "claim" /\ v.seen = tasks[t].seen
    <3>1. /\ At(t, "claim") \in TaskStates /\ At(t, "claim").pc = "claim"
          /\ At(t, "claim").seen = tasks[t].seen
      BY Zenon, AtParts DEF Points
    <3>2. tasks[t].tries - 1 \in Nat
      BY <1>3, TaskFacts, TaskParts
    <3> QED BY Zenon, <3>1, <3>2 DEF TaskStates
  <2>2. tasks' = [tasks EXCEPT ![t] = v]
    <3>1. At(t, "claim").tries = tasks[t].tries
      BY Zenon, AtParts DEF Points
    <3> QED BY <1>3, <3>1, ZenonT(30) DEF Become
  <2> HIDE DEF v
  <2>3. Covered(t, v, claim')
    BY <2>1, ZenonT(30) DEF Covered, Protected, Persisting
  <2>4. Grounded(t, v, used', revoked, minted, parent)
    BY <1>1, <2>1, TaskFacts, ZenonT(30) DEF Grounded
  <2> QED BY <1>1, <1>3, <2>1, <2>2, <2>3, <2>4, Unmoved, TaskMove, Zenon
<1> QED BY Zenon, <1>2, <1>3 DEF Peek

\* _release_claim_quietly: the task's own claim goes, and its waiters learn
\* the outcome it recorded.
LEMMA ReleaseOK ==
    ASSUME IInv, NEW t \in Keys, Release(t)
    PROVE  IInv'
<1> USE DEF upstream, history
<1>1. Finish(t, tasks[t].out) /\ tasks[t].out \in Outcomes
    BY TaskFacts, TaskParts, ZenonT(30) DEF Release
<1>2. tasks[t].out = "permanent" => t[2] \in Dead
    BY TaskFacts, ZenonT(30) DEF Release, Grounded, Dead
<1>3. Bookkeeping' /\ UNCHANGED <<row, minted, parent, used, revoked>>
    BY Zenon, Unmoved DEF Release
<1>4. claim' = claim \/ (claim.by = t /\ claim' = NoClaim)
    BY Zenon DEF Release
<1> QED BY <1>1, <1>2, <1>3, <1>4, Finishes, ZenonT(30)

\* A step inside the section takes no longer than the claim still allows.
LEMMA Proceeds ==
    ASSUME IInv, NEW t \in Keys, NEW v \in TaskStates, tasks[t].pc \in Protected,
           tasks' = [tasks EXCEPT ![t] = v],
           v.clock + Ahead(v.pc) <= tasks[t].clock + Ahead(tasks[t].pc),
           Bookkeeping', Grounded(t, v, used, revoked, minted, parent),
           v.pc \in {"write", "check"} => row.token # v.new /\ Unread(v.new, callers, tasks),
           UNCHANGED <<row, claim, cooled, callers, minted, parent, used, revoked>>
    PROVE  IInv'
<1>1. tasks[t].pc # "idle"
    BY ZenonT(30) DEF Protected, Persisting
<1>2. Covered(t, v, claim')
  <2>1. claim.by = t /\ claim.left >= tasks[t].clock + Ahead(tasks[t].pc)
    BY TaskFacts, ZenonT(30) DEF Covered
  <2>2. claim.left \in Nat /\ v.clock \in Nat /\ tasks[t].clock \in Nat
    <3>1. claim.left \in Nat /\ tasks[t].clock \in Nat
      BY Times, Zenon
    <3>2. v.clock \in Nat
      BY TaskParts, Zenon
    <3> QED BY <3>1, <3>2, Zenon
  <2>3. Ahead(v.pc) \in Nat /\ Ahead(tasks[t].pc) \in Nat
    BY AheadType, ZenonT(30)
  <2> QED BY <2>1, <2>2, <2>3, Shorter, ZenonT(30) DEF Covered
<1> QED BY <1>1, <1>2, Unmoved, TaskMove, ZenonT(30)

\* A flag that a task reads on the row of its own token is deserved.
LEMMA FlagDeserved ==
    ASSUME IInv, NEW t \in Keys, tasks[t].pc # "idle", row.token = t[2], row.status \in Terminal
    PROVE  t[2] \in Dead
<1>1. t = <<t[1], t[2]>> /\ t[1] \in Procs
    BY Zenon, KeyParts
<1>2. ~Unread(t[2], callers, tasks)
    BY Zenon, <1>1 DEF Unread
<1> QED BY Zenon, <1>2 DEF IInv, RowOK

\* The re-read under the claim (auth_manager): the flag it trusts is deserved.
LEMMA RereadOK ==
    ASSUME IInv, NEW t \in Keys, Reread(t)
    PROVE  IInv'
<1> USE DEF upstream, history
<1>1. /\ tasks[t].pc = "reread" /\ RowKept /\ Bookkeeping' /\ used' = used /\ used' \subseteq Tokens
      /\ UNCHANGED <<row, claim, cooled, callers, minted, parent, revoked>>
    BY Unmoved, ZenonT(30) DEF Reread
<1>2. CASE EndSection(t, "fresh")
    BY <1>1, <1>2, SectionEnds, ZenonT(30) DEF Outcomes
<1>3. CASE row.token = t[2] /\ row.status \in Terminal /\ EndSection(t, "permanent")
    BY Zenon, <1>1, <1>3, FlagDeserved, SectionEnds DEF Outcomes, Dead
<1>4. CASE /\ row = NoRow \/ (row.token = t[2] /\ row.status \notin Terminal)
           /\ Become(t, [At(t, "admit") EXCEPT !.clock = AdmissionWait, !.seen = row])
  <2> DEFINE v == [At(t, "admit") EXCEPT !.clock = AdmissionWait, !.seen = row]
  <2>1. v \in TaskStates /\ v.pc = "admit" /\ v.seen = row /\ v.clock = AdmissionWait
    <3>1. At(t, "admit") \in TaskStates /\ At(t, "admit").pc = "admit"
      BY AtParts, ZenonT(30) DEF Points, Protected
    <3>2. row \in Rows /\ AdmissionWait \in Nat
      BY TaskFacts, Numbers, ZenonT(30)
    <3> QED BY <3>1, <3>2, ZenonT(30) DEF TaskStates
  <2>2. tasks' = [tasks EXCEPT ![t] = v]
    BY Zenon, <1>4 DEF Become
  <2> HIDE DEF v
  <2>3. v.clock + Ahead(v.pc) <= tasks[t].clock + Ahead(tasks[t].pc)
    <3>1. tasks[t].clock \in Nat
      BY Times, Zenon
    <3>2. AdmissionWait + Ahead("admit") <= Ahead("reread") /\ Ahead("reread") \in Nat
      BY Numbers DEF Ahead
    <3>3. AdmissionWait + Ahead("admit") <= tasks[t].clock + Ahead("reread")
      BY <3>1, <3>2, AheadType, Numbers
    <3> QED BY <1>1, <2>1, <3>3, Zenon
  <2>4. Grounded(t, v, used, revoked, minted, parent)
    BY <1>4, <2>1 DEF Grounded, NoRow
  <2> QED BY <1>1, <2>1, <2>2, <2>3, <2>4, Proceeds, Zenon DEF Protected
<1> QED BY Zenon, <1>2, <1>3, <1>4 DEF Reread

\* The request that is sent, refused, lost or never admitted.
LEMMA ExchangeOK ==
    ASSUME IInv, NEW t \in Keys,
           SendExchange(t) \/ NotAdmitted(t) \/ ExchangeRefused(t) \/ ExchangeLost(t)
    PROVE  IInv'
<1> USE DEF upstream, history
<1>1. t[2] \in Tokens /\ tasks[t] \in TaskStates /\ tasks[t].clock \in Nat
    BY TaskFacts, TaskParts, ZenonT(30)
<1>2. CASE SendExchange(t)
  <2> DEFINE v == [At(t, "exchange") EXCEPT !.clock = RefreshTimeout]
  <2>1. v \in TaskStates /\ v.pc = "exchange" /\ v.seen = tasks[t].seen /\ v.clock = RefreshTimeout
    <3>1. /\ At(t, "exchange") \in TaskStates /\ At(t, "exchange").pc = "exchange"
          /\ At(t, "exchange").seen = tasks[t].seen
      BY Zenon, AtParts DEF Points, Protected
    <3> QED BY Zenon, <3>1, Numbers DEF TaskStates
  <2>2. tasks' = [tasks EXCEPT ![t] = v] /\ tasks[t].pc = "admit"
    BY Zenon, <1>2 DEF SendExchange, Become
  <2> HIDE DEF v
  <2>3. v.clock + Ahead(v.pc) <= tasks[t].clock + Ahead(tasks[t].pc)
    BY <1>1, <2>1, <2>2, AheadSteps, ZenonT(30)
  <2>4. Grounded(t, v, used, revoked, minted, parent)
    BY <2>1, TaskFacts, ZenonT(30) DEF Grounded
  <2>5. Bookkeeping'
    <3>1. sent \in [once: SUBSET Tokens, again: SUBSET Tokens]
      BY Zenon DEF IInv, TypeOK
    <3>2. sent' \in [once: SUBSET Tokens, again: SUBSET Tokens]
      BY Zenon, <1>1, <1>2, <3>1 DEF SendExchange
    <3> QED BY Zenon, <3>2, <1>2 DEF SendExchange, Bookkeeping, IInv, TypeOK
  <2> QED BY <1>2, <2>1, <2>2, <2>3, <2>4, <2>5, Proceeds, ZenonT(30) DEF Protected, SendExchange
<1>3. CASE NotAdmitted(t)
  <2>1. RowKept /\ Bookkeeping' /\ used' \subseteq Tokens
    BY <1>3, Unmoved, ZenonT(30) DEF NotAdmitted
  <2> QED BY <1>3, <2>1, SectionEnds, ZenonT(30) DEF NotAdmitted, Outcomes
<1>4. CASE ExchangeRefused(t)
  <2> DEFINE v == [At(t, "fail") EXCEPT !.tries = 0, !.clock = PersistTime]
  <2>1. v \in TaskStates /\ v.pc = "fail" /\ v.seen = tasks[t].seen /\ v.clock = PersistTime
    <3>1. At(t, "fail") \in TaskStates /\ At(t, "fail").pc = "fail" /\ At(t, "fail").seen = tasks[t].seen
      BY AtParts, ZenonT(30) DEF Points, Protected, Persisting
    <3> QED BY <3>1, Numbers, Zenon DEF TaskStates
  <2>2. tasks' = [tasks EXCEPT ![t] = v] /\ tasks[t].pc = "exchange" /\ t[2] \in used \cup revoked
    BY Zenon, <1>4 DEF ExchangeRefused, Become
  <2> HIDE DEF v
  <2>3. v.clock + Ahead(v.pc) <= tasks[t].clock + Ahead(tasks[t].pc)
    BY <1>1, <2>1, <2>2, Numbers DEF Ahead
  <2>4. Grounded(t, v, used, revoked, minted, parent)
    BY <2>1, <2>2, TaskFacts, Zenon DEF Grounded
  <2>5. Bookkeeping'
    BY <1>4, Unmoved, ZenonT(30) DEF ExchangeRefused
  <2> QED BY <1>4, <2>1, <2>2, <2>3, <2>4, <2>5, Proceeds, Zenon DEF Protected, ExchangeRefused
<1>5. CASE ExchangeLost(t)
  <2>1. RowKept /\ used \subseteq used' /\ used' \subseteq Tokens
    BY Zenon, <1>1, <1>5, Unmoved DEF ExchangeLost
  <2>2. Bookkeeping'
    BY Zenon, <1>1, <1>5 DEF ExchangeLost, Lose, Bookkeeping, IInv, TypeOK
  <2>3. \E out \in Outcomes : out # "permanent" /\ EndSection(t, out)
    BY <1>5, ZenonT(30) DEF ExchangeLost, Outcomes
  <2>4. UNCHANGED <<claim, cooled, callers, minted, parent, revoked>>
    BY <1>5, ZenonT(30) DEF ExchangeLost
  <2>5. tasks[t].pc # "idle"
    BY <1>5, ZenonT(30) DEF ExchangeLost
  <2> QED BY <2>1, <2>2, <2>3, <2>4, <2>5, SectionEnds, ZenonT(30)
<1> QED BY Zenon, <1>2, <1>3, <1>4, <1>5

\* A step within the persist section, where only the point, the attempt and
\* the ciphertext to compare with may change.
LEMMA PersistMove ==
    ASSUME IInv, NEW t \in Keys, NEW v \in TaskStates,
           tasks[t].pc \in Persisting, v.pc \in Persisting,
           tasks' = [tasks EXCEPT ![t] = v], v.clock = tasks[t].clock,
           v.new = tasks[t].new, v.newNonce = tasks[t].newNonce, v.seen.token \in {0, t[2]},
           v.pc \in {"write", "check"} => tasks[t].pc \in {"write", "check"},
           v.pc \in {"flag", "flagWrite"} => tasks[t].pc \in {"write", "check", "flag", "flagWrite"},
           Bookkeeping',
           UNCHANGED <<row, claim, cooled, callers, minted, parent, used, revoked>>
    PROVE  IInv'
<1>1. tasks[t].clock \in Nat
    BY TaskFacts, TaskParts, ZenonT(30)
<1>2. v.clock + Ahead(v.pc) <= tasks[t].clock + Ahead(tasks[t].pc)
    BY <1>1 DEF Ahead, Persisting
<1>3. Grounded(t, v, used, revoked, minted, parent)
    BY TaskFacts, ZenonT(30) DEF Grounded, Persisting
<1>4. v.pc \in {"write", "check"} => row.token # v.new /\ Unread(v.new, callers, tasks)
    BY TaskFacts, Zenon
<1> QED BY <1>2, <1>3, <1>4, Proceeds, ZenonT(30) DEF Protected

\* After a missed write, the reads of the row.
LEMMA CheckOK ==
    ASSUME IInv, NEW t \in Keys, Check(t) \/ FlagRead(t) \/ FailRead(t)
    PROVE  IInv'
<1> USE DEF upstream, history
<1>1. /\ tasks[t] \in TaskStates /\ tasks[t].tries \in Nat /\ tasks[t].seen.token \in {0, t[2]}
      /\ t[2] \in Tokens
    BY TaskFacts, TaskParts, ZenonT(30) DEF Grounded
<1>2. /\ tasks[t].pc \in {"check", "flag", "fail"} /\ RowKept /\ used' \subseteq Tokens
      /\ UNCHANGED <<row, claim, cooled, callers, minted, parent, used, revoked>>
    BY Unmoved, ZenonT(30) DEF Check, FlagRead, FailRead
<1>3. Bookkeeping'
    BY <1>1, Unmoved, ZenonT(30) DEF Check, FlagRead, FailRead, Lose, Bookkeeping, IInv, TypeOK
<1>4. CASE EndSection(t, "fresh") \/ EndSection(t, "transient")
    BY <1>2, <1>3, <1>4, SectionEnds, ZenonT(30) DEF Outcomes
<1>5. CASE tasks[t].pc = "fail" /\ EndSection(t, "permanent")
    BY <1>2, <1>3, <1>5, TaskFacts, SectionEnds, Zenon DEF Grounded, Outcomes
<1>6. CASE /\ tasks[t].pc = "check" /\ row.token = t[2]
           /\ \E n \in Nat : Become(t, [At(t, "write") EXCEPT !.seen = row, !.tries = n])
  <2>1. PICK n \in Nat : Become(t, [At(t, "write") EXCEPT !.seen = row, !.tries = n])
    BY <1>6, Zenon
  <2> DEFINE v == [At(t, "write") EXCEPT !.seen = row, !.tries = n]
  <2>2. v \in TaskStates /\ v.pc = "write" /\ v.seen = row /\ v.new = tasks[t].new
        /\ v.newNonce = tasks[t].newNonce /\ v.clock = tasks[t].clock
    <3>1. /\ At(t, "write") \in TaskStates /\ At(t, "write").pc = "write" /\ At(t, "write").seen = tasks[t].seen
          /\ At(t, "write").new = tasks[t].new /\ At(t, "write").newNonce = tasks[t].newNonce
          /\ At(t, "write").clock = tasks[t].clock
      BY AtParts, ZenonT(30) DEF Points, Protected, Persisting
    <3>2. row \in Rows
      BY TaskFacts, Zenon
    <3> QED BY <3>1, <3>2, ZenonT(30) DEF TaskStates
  <2>3. tasks' = [tasks EXCEPT ![t] = v]
    BY Zenon, <2>1 DEF Become
  <2> HIDE DEF v
  <2> QED BY <1>2, <1>3, <1>6, <2>2, <2>3, PersistMove, Zenon DEF Persisting
<1>7. CASE tasks[t].pc = "check" /\ Become(t, [At(t, "flag") EXCEPT !.tries = 1])
  <2> DEFINE v == [At(t, "flag") EXCEPT !.tries = 1]
  <2>1. v \in TaskStates /\ v.pc = "flag" /\ v.seen = tasks[t].seen /\ v.new = tasks[t].new
        /\ v.newNonce = tasks[t].newNonce /\ v.clock = tasks[t].clock
    <3>1. /\ At(t, "flag") \in TaskStates /\ At(t, "flag").pc = "flag" /\ At(t, "flag").seen = tasks[t].seen
          /\ At(t, "flag").new = tasks[t].new /\ At(t, "flag").newNonce = tasks[t].newNonce
          /\ At(t, "flag").clock = tasks[t].clock
      BY AtParts, ZenonT(30) DEF Points, Protected, Persisting
    <3>2. row \in Rows
      BY TaskFacts, Zenon
    <3> QED BY <3>1, <3>2, ZenonT(30) DEF TaskStates
  <2>2. tasks' = [tasks EXCEPT ![t] = v]
    BY Zenon, <1>7 DEF Become
  <2> HIDE DEF v
  <2> QED BY <1>1, <1>2, <1>3, <1>7, <2>1, <2>2, PersistMove, Zenon DEF Persisting
<1>8. ASSUME NEW point \in {"flagWrite", "failWrite"}, row.token = t[2],
             point = "flagWrite" => tasks[t].pc = "flag",
             Become(t, [At(t, point) EXCEPT !.seen = row])
      PROVE  IInv'
  <2> DEFINE v == [At(t, point) EXCEPT !.seen = row]
  <2>1. v \in TaskStates /\ v.pc = point /\ v.seen = row /\ v.new = tasks[t].new
        /\ v.newNonce = tasks[t].newNonce /\ v.clock = tasks[t].clock
    <3>1. /\ At(t, point) \in TaskStates /\ At(t, point).pc = point /\ At(t, point).seen = tasks[t].seen
          /\ At(t, point).new = tasks[t].new /\ At(t, point).newNonce = tasks[t].newNonce
          /\ At(t, point).clock = tasks[t].clock
      BY AtParts, ZenonT(30) DEF Points, Protected, Persisting
    <3>2. row \in Rows
      BY TaskFacts, ZenonT(30)
    <3> QED BY Zenon, <3>1, <3>2 DEF TaskStates
  <2>2. tasks' = [tasks EXCEPT ![t] = v]
    BY Zenon, <1>8 DEF Become
  <2> HIDE DEF v
  <2> QED BY <1>2, <1>3, <1>8, <2>1, <2>2, PersistMove, Zenon DEF Persisting
<1>9. CASE Check(t)
  <2>1. \A n \in {tasks[t].tries + 1} \cup (IF tasks[t].tries <= CasAttempts THEN {CasAttempts + 1} ELSE {}) :
            n \in Nat
    BY <1>1, Numbers
  <2> QED BY <1>4, <1>6, <1>7, <1>9, <2>1, ZenonT(30) DEF Check
<1>10. CASE FlagRead(t)
    BY Zenon, <1>4, <1>8, <1>10 DEF FlagRead
<1>11. CASE FailRead(t)
    BY Zenon, <1>4, <1>5, <1>8, <1>11 DEF FailRead
<1> QED BY <1>9, <1>10, <1>11, ZenonT(30)

\* update_status_if_current: a task flags the row of its own dead token.
LEMMA StatusWriteKept ==
    ASSUME IInv, NEW t \in Keys, FlagWrite(t) \/ FailWrite(t)
    PROVE  RowKept
<1>1. t[2] \in Dead
    BY Zenon, TaskFacts DEF FlagWrite, FailWrite, Grounded, Dead
<1>2. ASSUME NEW s \in Terminal, RowCurrent(t), row' = [row EXCEPT !.status = s]
      PROVE  RowKept
  <2>1. tasks[t].seen.token \in {0, t[2]} /\ row \in Rows
    BY TaskFacts, ZenonT(30) DEF Grounded
  <2>2. row # NoRow /\ row.token = t[2]
    BY Zenon, <2>1, <1>2, RowParts DEF RowCurrent
  <2> QED BY <2>2, <1>1, <1>2, KeptRows, ZenonT(30) DEF Statuses
<1> QED BY Zenon, <1>2, Unmoved DEF FlagWrite, FailWrite, Terminal

\* The compare-and-set writes of a status, and what follows a miss of one.
LEMMA StatusWriteOK ==
    ASSUME IInv, NEW t \in Keys, FlagWrite(t) \/ FailWrite(t)
    PROVE  IInv'
<1> USE DEF upstream, history
<1>1. /\ tasks[t] \in TaskStates /\ tasks[t].tries \in Nat /\ tasks[t].seen.token \in {0, t[2]}
      /\ t[2] \in Tokens /\ row \in Rows
    BY TaskFacts, TaskParts, ZenonT(30) DEF Grounded
<1>2. /\ tasks[t].pc \in {"flagWrite", "failWrite"} /\ used' \subseteq Tokens
      /\ UNCHANGED <<claim, cooled, callers, minted, parent, used, revoked>>
    BY Unmoved, ZenonT(30) DEF FlagWrite, FailWrite
<1>3. t[2] \in Dead
    BY <1>2, TaskFacts, ZenonT(30) DEF Grounded, Dead
<1>4. Bookkeeping'
    BY Zenon, <1>1, Unmoved DEF FlagWrite, FailWrite, Lose, Bookkeeping, IInv, TypeOK
<1>5. ASSUME NEW out \in Outcomes, EndSection(t, out)
      PROVE  IInv'
    BY Zenon, <1>2, <1>3, <1>4, <1>5, StatusWriteKept, SectionEnds DEF Dead
<1>7. ASSUME NEW point \in {"flag", "fail"}, point = "flag" => tasks[t].pc = "flagWrite",
             Become(t, [At(t, point) EXCEPT !.tries = @ + 1]), row' = row
      PROVE  IInv'
  <2> DEFINE v == [At(t, point) EXCEPT !.tries = tasks[t].tries + 1]
  <2>1. v \in TaskStates /\ v.pc = point /\ v.seen = tasks[t].seen /\ v.new = tasks[t].new
        /\ v.newNonce = tasks[t].newNonce /\ v.clock = tasks[t].clock
    <3>1. /\ At(t, point) \in TaskStates /\ At(t, point).pc = point /\ At(t, point).seen = tasks[t].seen
          /\ At(t, point).new = tasks[t].new /\ At(t, point).newNonce = tasks[t].newNonce
          /\ At(t, point).clock = tasks[t].clock
      BY AtParts, ZenonT(30) DEF Points, Protected, Persisting
    <3>2. tasks[t].tries + 1 \in Nat
      BY <1>1
    <3> QED BY <3>1, <3>2, ZenonT(30) DEF TaskStates
  <2>2. tasks' = [tasks EXCEPT ![t] = v]
    <3>1. At(t, point).tries = tasks[t].tries
      BY AtParts, ZenonT(30) DEF Points, Protected, Persisting
    <3> QED BY <1>7, <3>1, ZenonT(30) DEF Become
  <2> HIDE DEF v
  <2> QED BY <1>1, <1>2, <1>4, <1>7, <2>1, <2>2, PersistMove, Zenon DEF Persisting
<1>8. CASE FlagWrite(t)
    BY Zenon, <1>5, <1>7, <1>8 DEF FlagWrite, Outcomes
<1>9. CASE FailWrite(t)
    BY Zenon, <1>5, <1>7, <1>9 DEF FailWrite, Outcomes
<1> QED BY <1>8, <1>9, ZenonT(30)

\* A statement that raises ends the task, or its section, with no verdict.
LEMMA DatabaseFailsOK ==
    ASSUME IInv, NEW t \in Keys, DatabaseFails(t)
    PROVE  IInv'
<1> USE DEF upstream, history
<1>1. /\ RowKept /\ used' \subseteq Tokens /\ t[2] \in Tokens
      /\ UNCHANGED <<row, claim, minted, parent, used, revoked>>
    BY Zenon, Unmoved, TaskFacts DEF DatabaseFails
<1>2. Bookkeeping'
    BY <1>1, Numbers DEF DatabaseFails, Upset, Lose, Bookkeeping, IInv, TypeOK
<1>3. CASE Finish(t, "transient")
    BY <1>1, <1>2, <1>3, Finishes, ZenonT(30) DEF Outcomes
<1>4. CASE /\ tasks[t].pc \in {"reread"} \cup Persisting /\ EndSection(t, "transient")
           /\ UNCHANGED <<callers, cooled>>
    BY <1>1, <1>2, <1>4, SectionEnds, ZenonT(30) DEF Outcomes, Persisting
<1> QED BY <1>3, <1>4, ZenonT(30) DEF DatabaseFails

\* Only one task is in the section at a time.
LEMMA OneInSection ==
    ASSUME IInv, NEW t \in Keys, NEW u \in Keys,
           tasks[t].pc \in Protected, tasks[u].pc \in Protected
    PROVE  u = t
BY ZenonT(30) DEF IInv, TasksOK, Covered

\* Storing the rotated token: no other task has one to store, and nobody has
\* read it.
LEMMA GuardedWriteOK ==
    ASSUME IInv, NEW t \in Keys, GuardedWrite(t)
    PROVE  IInv'
<1> USE DEF upstream, history
<1>1. /\ tasks[t].pc = "write" /\ Bookkeeping' /\ used' \subseteq Tokens
      /\ UNCHANGED <<claim, cooled, callers, minted, parent, used, revoked>>
    BY Zenon, Unmoved DEF GuardedWrite
<1>2. CASE ~CipherCurrent(t)
  <2>1. /\ At(t, "check") \in TaskStates /\ At(t, "check").pc = "check"
        /\ At(t, "check").seen = tasks[t].seen /\ At(t, "check").new = tasks[t].new
        /\ At(t, "check").newNonce = tasks[t].newNonce /\ At(t, "check").clock = tasks[t].clock
    BY AtParts, ZenonT(30) DEF Points, Protected, Persisting
  <2>2. tasks' = [tasks EXCEPT ![t] = At(t, "check")] /\ row' = row
    BY Zenon, <1>2 DEF GuardedWrite, Become
  <2>3. tasks[t].seen.token \in {0, t[2]}
    BY TaskFacts, ZenonT(30) DEF Grounded
  <2> QED BY <1>1, <2>1, <2>2, <2>3, PersistMove, ZenonT(30) DEF Persisting
<1>3. CASE CipherCurrent(t)
  <2> DEFINE k == tasks[t].new
             v == [At(t, "release") EXCEPT !.seen = NoRow, !.clock = 0, !.out = "fresh"]
  <2>1. v \in TaskStates /\ v.pc = "release" /\ v.seen = NoRow /\ v.out = "fresh"
    <3>1. At(t, "release") \in TaskStates /\ At(t, "release").pc = "release"
      BY AtParts, ZenonT(30) DEF Points
    <3>2. NoRow \in Rows /\ "fresh" \in Outcomes
      BY IdleTypes, Zenon DEF Outcomes
    <3> QED BY <3>1, <3>2, ZenonT(30) DEF TaskStates
  <2>2. tasks' = [tasks EXCEPT ![t] = v] /\ row # NoRow
        /\ row' = [row EXCEPT !.token = k, !.nonce = tasks[t].newNonce]
    BY Zenon, <1>3 DEF GuardedWrite, EndSection, Become, RotateTokens, CipherCurrent
  <2>3. /\ k \in 1..minted /\ k \in Tokens /\ tasks[t].newNonce \in Nonces
        /\ Unread(k, callers, tasks)
    <3>1. k \in 1..minted /\ tasks[t].newNonce \in Nonces /\ Unread(k, callers, tasks)
      BY <1>1, TaskFacts, Zenon DEF Grounded
    <3>2. minted \in 0..MaxToken
      BY Zenon DEF IInv, TypeOK
    <3> QED BY <3>1, <3>2, Numbers DEF Tokens
  <2>4. row' \in Rows /\ row'.token = k
    BY <2>2, <2>3, TaskFacts, ZenonT(30) DEF Rows
  <2> HIDE DEF v, k
  <2>5. TypeOK'
    BY Zenon, <1>1, <2>1, <2>2, <2>4 DEF IInv, TypeOK, Bookkeeping
  <2>6. \A u \in Keys : tasks'[u] = IF u = t THEN v ELSE tasks[u]
    BY Zenon, <2>2, TaskFacts
  <2>7. TasksOK'
    <3> SUFFICES ASSUME NEW u \in Keys
                 PROVE  /\ Covered(u, tasks'[u], claim)
                        /\ Grounded(u, tasks'[u], used, revoked, minted, parent)
      BY <1>1, ZenonT(30) DEF TasksOK
    <3>1. CASE u = t
      <4>1. Covered(t, v, claim)
        BY <2>1, ZenonT(30) DEF Covered, Protected, Persisting
      <4>2. Grounded(t, v, used, revoked, minted, parent)
        <5>1. v.seen.token = 0
          BY <2>1 DEF NoRow
        <5> QED BY <2>1, <5>1, ZenonT(30) DEF Grounded
      <4> QED BY <3>1, <4>1, <4>2, <2>6, Zenon
    <3>2. CASE u # t
      BY <3>2, <2>6, TaskFacts, ZenonT(30)
    <3> QED BY <3>1, <3>2, ZenonT(30)
  <2>8. Unread(k, callers', tasks')
    <3>1. ASSUME NEW p \in Procs PROVE tasks'[<<p, k>>].pc = "idle"
      <4>1. tasks[<<p, k>>].pc = "idle" /\ <<p, k>> \in Keys
        BY Zenon, <2>3, KeyParts DEF Unread
      <4> QED BY <4>1, <2>6, <1>1, ZenonT(30)
    <3> QED BY <3>1, <2>3, <1>1, ZenonT(30) DEF Unread
  <2>9. RowOK'
    BY <2>4, <2>8, ZenonT(30) DEF RowOK
  <2>10. SuccessorOK'
    <3> SUFFICES ASSUME NEW u \in Keys, tasks'[u].pc \in {"write", "check"}
                 PROVE  FALSE
      BY Zenon DEF SuccessorOK
    <3>1. u # t /\ tasks[u].pc \in {"write", "check"}
      BY Zenon, <2>1, <2>6
    <3> QED BY <3>1, <1>1, OneInSection, ZenonT(30) DEF Protected, Persisting
  <2>11. CooledOK' /\ CallersOK'
    BY Zenon, <1>1 DEF IInv, CooledOK, CallersOK, Dead
  <2>12. MintedOK'
    <3>1. row'.token <= minted
      BY <2>3, <2>4
    <3> QED BY Zenon, <3>1, <1>1, <2>6 DEF IInv, MintedOK
  <2> QED BY Zenon, <2>5, <2>7, <2>9, <2>10, <2>11, <2>12 DEF IInv
<1> QED BY Zenon, <1>2, <1>3

\* Nobody has the token that the upstream mints next.
LEMMA NextUnread ==
    ASSUME IInv, minted < MaxToken
    PROVE  /\ minted \in Nat /\ minted + 1 \in Tokens /\ minted + 1 \in 0..MaxToken
           /\ row.token # minted + 1 /\ Unread(minted + 1, callers, tasks)
           /\ \A u \in Keys : tasks[u].pc # "idle" => u[2] # minted + 1
<1>1. minted \in Nat /\ minted + 1 \in Tokens /\ minted + 1 \in 0..MaxToken
    BY Numbers DEF IInv, TypeOK, Tokens
<1>2. row.token # minted + 1 /\ \A c \in Callers : callers[c].snap.token # minted + 1
    BY <1>1 DEF IInv, MintedOK
<1>3. \A u \in Keys : tasks[u].pc # "idle" => u[2] # minted + 1
    BY <1>1 DEF IInv, MintedOK
<1>4. ASSUME NEW p \in Procs PROVE tasks[<<p, minted + 1>>].pc = "idle"
  <2>1. <<p, minted + 1>> \in Keys /\ <<p, minted + 1>>[2] = minted + 1
    BY Zenon, <1>1, KeyParts
  <2> QED BY Zenon, <2>1, <1>3
<1> QED BY Zenon, <1>1, <1>2, <1>3, <1>4 DEF Unread

\* The exchange: the task takes up the successor of its token.
LEMMA ExchangedOK ==
    ASSUME IInv, NEW t \in Keys, Exchanged(t)
    PROVE  IInv'
<1>1. /\ tasks[t].pc = "exchange" /\ minted < MaxToken /\ minted' = minted + 1
      /\ parent' = [parent EXCEPT ![minted + 1] = t[2]] /\ used' = used \cup {t[2]}
      /\ UNCHANGED <<row, claim, cooled, callers, revoked>> /\ Bookkeeping'
    BY Zenon, Unmoved DEF Exchanged, Mint, history
<1>2. PICK n \in Nonces :
          tasks' = [tasks EXCEPT ![t] = [At(t, "write") EXCEPT !.new = minted + 1, !.newNonce = n,
                                                            !.tries = 1, !.clock = PersistTime]]
    BY ZenonT(30) DEF Exchanged, FreshNonce, Become
<1> DEFINE v == [At(t, "write") EXCEPT !.new = minted + 1, !.newNonce = n,
                                       !.tries = 1, !.clock = PersistTime]
<1>3. minted \in Nat /\ minted + 1 \in Tokens /\ minted + 1 \in 0..MaxToken
    BY Zenon, <1>1, NextUnread
<1>4. /\ v \in TaskStates /\ v.pc = "write" /\ v.seen = tasks[t].seen /\ v.new = minted + 1
      /\ v.newNonce = n /\ v.clock = PersistTime
  <2>1. At(t, "write") \in TaskStates /\ At(t, "write").pc = "write" /\ At(t, "write").seen = tasks[t].seen
    BY AtParts, ZenonT(30) DEF Points, Protected, Persisting
  <2>2. n \in 0..MaxNonce /\ PersistTime \in Nat /\ 1 \in Nat
    BY Numbers DEF Nonces
  <2> QED BY <2>1, <2>2, <1>3, Zenon DEF TaskStates
<1> HIDE DEF v
<1>5. tasks' = [tasks EXCEPT ![t] = v] /\ \A u \in Keys : tasks'[u] = IF u = t THEN v ELSE tasks[u]
    BY Zenon, <1>2, TaskFacts DEF v
<1>6. /\ parent' \in [Tokens -> 0..MaxToken] /\ parent'[minted + 1] = t[2]
      /\ \A k \in Tokens : k # minted + 1 => parent'[k] = parent[k]
  <2>1. parent \in [Tokens -> 0..MaxToken]
    BY ZenonT(30) DEF IInv, TypeOK
  <2>2. t[2] \in 0..MaxToken
    BY TaskFacts, TokenRange, Zenon
  <2>3. parent' = [parent EXCEPT ![minted + 1] = t[2]] /\ minted + 1 \in Tokens
    BY Zenon, <1>1, <1>3
  <2> QED BY Zenon, <2>1, <2>2, <2>3
<1>7. TypeOK'
  <2>1. tasks' \in [Keys -> TaskStates]
    BY <1>4, <1>5, TaskFacts, ZenonT(30)
  <2>2. used' \subseteq Tokens /\ minted' \in 0..MaxToken
    BY <1>1, <1>3, TaskFacts, Zenon DEF IInv, TypeOK
  <2> QED BY <1>1, <1>6, <2>1, <2>2, ZenonT(30) DEF IInv, TypeOK, Bookkeeping
<1>8. TasksOK'
  <2> SUFFICES ASSUME NEW u \in Keys
               PROVE  /\ Covered(u, tasks'[u], claim)
                      /\ Grounded(u, tasks'[u], used', revoked, minted', parent')
    BY <1>1, ZenonT(30) DEF TasksOK
  <2>1. CASE u = t
    <3>1. claim.by = t /\ claim.left >= tasks[t].clock + (PersistTime + 1)
      BY <1>1, TaskFacts, ZenonT(30) DEF Covered, Protected, Ahead
    <3>2. claim.left >= PersistTime + 1
      <4>1. tasks[t].clock \in Nat /\ claim.left \in Nat
        BY Times, Zenon
      <4> QED BY <3>1, <4>1, Numbers
    <3>3. Covered(t, v, claim)
      BY <3>1, <3>2, <1>4, Zenon DEF Covered, Ahead
    <3>4. Grounded(t, v, used', revoked, minted', parent')
      <4>1. tasks[t].seen.token \in {0, t[2]}
        BY TaskFacts, Zenon DEF Grounded
      <4>2. minted + 1 \in 1..minted'
        BY <1>1, <1>3
      <4>3. v.newNonce \in Nonces /\ parent'[v.new] = t[2] /\ t[2] \in used'
        BY <1>1, <1>4, <1>6, ZenonT(30)
      <4> QED BY Zenon, <1>4, <4>1, <4>2, <4>3 DEF Grounded
    <3> QED BY <2>1, <3>3, <3>4, <1>5, ZenonT(30)
  <2>2. CASE u # t
    <3>1. \A k \in 1..minted : parent'[k] = parent[k]
      BY <1>3, <1>6, Numbers DEF Tokens
    <3>2. tasks[u] \in TaskStates /\ Grounded(u, tasks[u], used, revoked, minted, parent)
      BY TaskFacts, Zenon
    <3>3. used \subseteq used' /\ minted' \in Nat /\ minted <= minted'
      BY <1>1, <1>3
    <3>4. Grounded(u, tasks[u], used', revoked, minted', parent')
      BY <1>3, <3>1, <3>2, <3>3, GroundedGrows, ZenonT(30)
    <3> QED BY <2>2, <3>4, <1>5, TaskFacts, ZenonT(30)
  <2> QED BY Zenon, <2>1, <2>2
<1>9. ASSUME NEW k \in Tokens, Unread(k, callers, tasks)
      PROVE  Unread(k, callers', tasks')
  <2>1. ASSUME NEW p \in Procs PROVE tasks'[<<p, k>>].pc = "idle"
    <3>1. tasks[<<p, k>>].pc = "idle" /\ <<p, k>> \in Keys
      BY Zenon, <1>9, KeyParts DEF Unread
    <3> QED BY Zenon, <3>1, <1>1, <1>5
  <2> QED BY <2>1, <1>1, <1>9, ZenonT(30) DEF Unread
<1>10. RowOK'
  <2>1. row.status \in Terminal => row.token \in Tokens
    BY TaskFacts, RowParts, ZenonT(30)
  <2> QED BY <2>1, <1>1, <1>9, ZenonT(30) DEF IInv, RowOK, Dead
<1>11. SuccessorOK'
  <2> SUFFICES ASSUME NEW u \in Keys, tasks'[u].pc \in {"write", "check"}
               PROVE  row'.token # tasks'[u].new /\ Unread(tasks'[u].new, callers', tasks')
    BY Zenon DEF SuccessorOK
  <2>1. u = t
    BY <1>1, <1>5, OneInSection, ZenonT(30) DEF Protected, Persisting
  <2>2. row.token # minted + 1 /\ Unread(minted + 1, callers, tasks)
    BY Zenon, <1>1, NextUnread
  <2> QED BY <2>1, <2>2, <1>1, <1>3, <1>4, <1>5, <1>9, Zenon
<1>12. CooledOK' /\ CallersOK'
    BY Zenon, <1>1 DEF IInv, CooledOK, CallersOK, Dead
<1>13. MintedOK'
  <2>1. /\ row.token \in 0..MaxToken
        /\ \A c \in Callers : callers[c].snap.token \in 0..MaxToken
    BY RowParts, ZenonT(30) DEF IInv, TypeOK, CallerStates
  <2>2. row'.token <= minted' /\ \A c \in Callers : callers'[c].snap.token <= minted'
    BY <2>1, <1>1, <1>3, OneMore, ZenonT(30) DEF IInv, MintedOK
  <2>3. \A u \in Keys : tasks'[u].pc # "idle" => u[2] <= minted'
    <3>1. \A u \in Keys : u[2] \in 0..MaxToken
      BY KeyParts, TokenRange, Zenon
    <3>2. \A u \in Keys : tasks'[u].pc # "idle" => tasks[u].pc # "idle"
      BY <1>1, <1>5, ZenonT(30)
    <3> QED BY <1>1, <1>3, <3>1, <3>2, OneMore, ZenonT(30) DEF IInv, MintedOK
  <2>4. \A k \in Tokens : k > minted' => parent'[k] = 0
    BY <1>1, <1>3, <1>6, Numbers DEF IInv, MintedOK, Tokens
  <2> QED BY Zenon, <2>2, <2>3, <2>4 DEF MintedOK
<1> QED BY Zenon, <1>7, <1>8, <1>10, <1>11, <1>12, <1>13 DEF IInv

\* The operator: a login replaces the row by a token that is new, everything
\* else keeps the token.
LEMMA LoginOK ==
    ASSUME IInv, Login
    PROVE  IInv'
<1>1. /\ minted < MaxToken /\ minted' = minted + 1
      /\ UNCHANGED <<claim, tasks, cooled, callers, parent, used, revoked>> /\ Bookkeeping'
    BY Zenon, Unmoved DEF Login, Import
<1>2. minted \in Nat /\ minted + 1 \in Tokens /\ minted + 1 \in 0..MaxToken
    BY Zenon, <1>1, NextUnread
<1>3. PICK n \in Nonces : row' = [token |-> minted + 1, nonce |-> n, status |-> "active"]
    BY Zenon DEF Login, Import, FreshNonce
<1>4. row' \in Rows /\ row'.token = minted + 1 /\ row'.status \notin Terminal
    BY <1>2, <1>3, ZenonT(30) DEF Rows, Statuses, Terminal
<1>5. TypeOK'
    BY Zenon, <1>1, <1>2, <1>4 DEF IInv, TypeOK, Bookkeeping
<1>6. TasksOK'
  <2> SUFFICES ASSUME NEW u \in Keys
               PROVE  /\ Covered(u, tasks[u], claim)
                      /\ Grounded(u, tasks[u], used, revoked, minted', parent)
    BY Zenon, <1>1 DEF TasksOK
  <2>1. minted' \in Nat /\ minted <= minted'
    BY <1>1, <1>2
  <2> QED BY <2>1, <1>2, TaskFacts, GroundedGrows, ZenonT(30)
<1>7. RowOK'
    BY <1>4, ZenonT(30) DEF RowOK
<1>8. SuccessorOK'
  <2> SUFFICES ASSUME NEW u \in Keys, tasks[u].pc \in {"write", "check"}
               PROVE  row'.token # tasks[u].new /\ Unread(tasks[u].new, callers, tasks)
    BY <1>1, ZenonT(30) DEF SuccessorOK
  <2>1. tasks[u].new \in 1..minted
    BY TaskFacts, ZenonT(30) DEF Grounded
  <2> QED BY <2>1, <1>2, <1>4, TaskFacts, OneMore, ZenonT(30)
<1>9. CooledOK' /\ CallersOK'
    BY Zenon, <1>1 DEF IInv, CooledOK, CallersOK, Dead
<1>10. MintedOK'
  <2>1. \A c \in Callers : callers[c].snap.token \in 0..MaxToken
    BY RowParts, ZenonT(30) DEF IInv, TypeOK, CallerStates
  <2>2. row'.token <= minted' /\ \A c \in Callers : callers'[c].snap.token <= minted'
    BY <2>1, <1>1, <1>2, <1>4, OneMore, ZenonT(30) DEF IInv, MintedOK
  <2>3. \A u \in Keys : tasks'[u].pc # "idle" => u[2] <= minted'
    BY <1>1, <1>2, KeyParts, Numbers DEF IInv, MintedOK, Tokens
  <2>4. \A k \in Tokens : k > minted' => parent'[k] = 0
    BY <1>1, <1>2, Numbers DEF IInv, MintedOK, Tokens
  <2> QED BY Zenon, <2>2, <2>3, <2>4 DEF MintedOK
<1> QED BY <1>5, <1>6, <1>7, <1>8, <1>9, <1>10, ZenonT(30) DEF IInv

\* A step that changes the row, the revoked logins or the memory of failures.
LEMMA RowMove ==
    ASSUME IInv, RowKept, Bookkeeping', revoked \subseteq revoked', revoked' \subseteq Tokens,
           cooled' \in [Procs -> SUBSET Tokens], \A p \in Procs : cooled'[p] \subseteq Dead,
           UNCHANGED <<claim, tasks, callers, minted, parent, used>>
    PROVE  IInv'
<1>1. \A u \in Keys : tasks'[u] = tasks[u] /\ (tasks[u].pc \in Protected => claim' = claim)
    OBVIOUS
<1>2. \A p \in Procs : cooled'[p] \subseteq used' \cup revoked'
    BY Zenon DEF Dead
<1>3. \A c \in Callers :
          /\ callers'[c].snap.token \in {0, callers[c].snap.token}
          /\ callers'[c].pc = "condemn" => callers'[c].snap.token \in used' \cup revoked'
    BY Unmoved, Zenon DEF Dead
<1> QED BY <1>1, <1>2, <1>3, Unmoved, QuietMove, Zenon

\* Re-import, pause, reactivation and deletion keep the token and flag nothing.
LEMMA OperatorKept ==
    ASSUME IInv, Reimport \/ Pause \/ Reactivate \/ Delete
    PROVE  RowKept
<1>1. CASE Reimport
  <2>1. PICK n \in Nonces : row' = [token |-> row.token, nonce |-> n, status |-> "active"]
    BY <1>1, ZenonT(30) DEF Reimport, Import, FreshNonce
  <2>2. row # NoRow /\ row.token \in Tokens
    BY <1>1, RowParts, ZenonT(30) DEF Reimport, Import, IInv, TypeOK
  <2> QED BY Zenon, <2>1, <2>2 DEF RowKept, Rows, Statuses, Terminal
<1>2. CASE Pause \/ Reactivate
  <2>1. row # NoRow
    BY <1>2 DEF Pause, Reactivate, NoRow
  <2> QED BY Zenon, <1>2, <2>1, KeptRows DEF Pause, Reactivate, SetStatus, Statuses, Terminal
<1>3. CASE Delete
    BY Zenon, <1>3, KeptRows DEF Delete
<1> QED BY Zenon, <1>1, <1>2, <1>3

\* The operator, the upstream's revocation and the end of a cooldown.
LEMMA OperatorStepOK ==
    ASSUME IInv, OperatorStep \/ Revoke \/ \E p \in Procs : CooldownEnds(p)
    PROVE  IInv'
<1> USE DEF upstream, history
<1>1. row \in Rows /\ (row.status \in Terminal => row.token \in Tokens) /\ (row # NoRow => row.token \in Tokens)
    BY Zenon, RowParts DEF IInv, TypeOK
<1>2. ASSUME RowKept, Bookkeeping', UNCHANGED <<claim, tasks, cooled, callers, minted, parent, used, revoked>>
      PROVE  IInv'
    BY Zenon, <1>2, Unmoved, RowMove
<1>3. CASE Login
    BY <1>3, LoginOK, ZenonT(30)
<1>4. CASE Reimport
  <2>1. Bookkeeping'
    BY <1>1, <1>4, ZenonT(30) DEF Reimport, Import, Bookkeeping, IInv, TypeOK
  <2> QED BY <1>2, <1>4, <2>1, OperatorKept, ZenonT(30) DEF Reimport, Import
<1>5. CASE Pause
  <2>1. Bookkeeping'
    BY Zenon, <1>5, Unmoved DEF Pause, SetStatus
  <2> QED BY Zenon, <1>2, <1>5, <2>1, OperatorKept DEF Pause, SetStatus
<1>6. CASE Reactivate
  <2>1. Bookkeeping'
    <3>1. refreshes' = refreshes /\ sent' = sent /\ upsets < MaxUpsets /\ upsets' = upsets + 1
      BY <1>6, ZenonT(30) DEF Reactivate, SetStatus, Upset
    <3>2. lost' \in {lost, lost \cup {row.token}} /\ (lost' = lost \/ row.token \in Tokens)
      BY <1>1, <1>6, ZenonT(30) DEF Reactivate
    <3>3. Bookkeeping
      BY ZenonT(30) DEF IInv, TypeOK, Bookkeeping
    <3>4. upsets' \in 0..MaxUpsets
      BY <3>1, <3>3, Numbers DEF Bookkeeping
    <3>5. lost' \subseteq Tokens
      BY <3>2, <3>3, ZenonT(30) DEF Bookkeeping
    <3> QED BY <3>1, <3>3, <3>4, <3>5, ZenonT(30) DEF Bookkeeping
  <2> QED BY Zenon, <1>2, <1>6, <2>1, OperatorKept DEF Reactivate, SetStatus
<1>7. CASE Delete
    BY <1>2, <1>7, Unmoved, OperatorKept, ZenonT(30) DEF Delete
<1>8. CASE Revoke
  <2>1. RowKept /\ Bookkeeping' /\ cooled' \in [Procs -> SUBSET Tokens]
        /\ (\A p \in Procs : cooled'[p] \subseteq Dead)
    BY <1>8, Unmoved, ZenonT(30) DEF Revoke
  <2>2. revoked \subseteq revoked' /\ revoked' \subseteq Tokens
    BY <1>1, <1>8, Unmoved, ZenonT(30) DEF Revoke
  <2> QED BY <1>8, <2>1, <2>2, RowMove, ZenonT(30) DEF Revoke
<1>9. CASE \E p \in Procs : CooldownEnds(p)
  <2>1. PICK p \in Procs : CooldownEnds(p)
    BY Zenon, <1>9
  <2>2. PICK k \in cooled[p] : cooled' = [cooled EXCEPT ![p] = cooled[p] \ {k}]
    BY <2>1, ZenonT(30) DEF CooldownEnds
  <2>3. cooled' \in [Procs -> SUBSET Tokens] /\ \A q \in Procs : cooled'[q] \subseteq Dead
    BY <2>2, ZenonT(30) DEF IInv, TypeOK, CooledOK
  <2>4. RowKept /\ Bookkeeping' /\ revoked' \subseteq Tokens
    BY <2>1, Unmoved, ZenonT(30) DEF CooldownEnds
  <2> QED BY Zenon, <2>1, <2>3, <2>4, RowMove DEF CooldownEnds
<1> QED BY Zenon, <1>3, <1>4, <1>5, <1>6, <1>7, <1>8, <1>9 DEF OperatorStep

\* A crash ends the tasks and callers of one process; another one's claim stays.
LEMMA CrashOK ==
    ASSUME IInv, NEW p \in Procs, Crash(p)
    PROVE  IInv'
<1>1. /\ UNCHANGED <<row, minted, parent, revoked>> /\ RowKept /\ revoked' \subseteq Tokens
    BY Zenon, Unmoved DEF Crash
<1>2. used \subseteq used' /\ used' \subseteq Tokens
    BY Unmoved, ZenonT(30) DEF Crash
<1>3. Bookkeeping'
    BY Numbers DEF Crash, Upset, Bookkeeping, IInv, TypeOK
<1>4. /\ tasks' \in [Keys -> TaskStates]
      /\ \A u \in Keys : tasks'[u] = IF u[1] = p THEN IdleTask ELSE tasks[u]
    BY Zenon, IdleTypes DEF Crash, IInv, TypeOK
<1>5. /\ callers' \in [Callers -> CallerStates]
      /\ \A c \in Callers : callers'[c] = IF Home[c] = p THEN IdleCaller ELSE callers[c]
    BY Zenon, IdleTypes DEF Crash, IInv, TypeOK
<1>6. cooled' \in [Procs -> SUBSET Tokens] /\ \A q \in Procs : cooled'[q] \subseteq used' \cup revoked'
    BY Zenon, <1>1, <1>2 DEF Crash, IInv, TypeOK, CooledOK, Dead
<1>7. claim' \in [by: Keys \cup {<<Nobody, 0>>}, left: 0..ClaimTtl]
    BY Zenon DEF Crash, IInv, TypeOK
<1>8. \A u \in Keys :
          \/ tasks'[u] = tasks[u] /\ (tasks[u].pc \in Protected => claim' = claim)
          \/ tasks'[u] = IdleTask
  <2> SUFFICES ASSUME NEW u \in Keys, u[1] # p, tasks[u].pc \in Protected
               PROVE  claim' = claim
    BY Zenon, <1>4
  <2>1. claim.by = u
    BY TaskFacts, ZenonT(30) DEF Covered
  <2> QED BY Zenon, <2>1 DEF Crash
<1>9. \A c \in Callers :
          /\ callers'[c].snap.token \in {0, callers[c].snap.token}
          /\ callers'[c].pc = "condemn" => callers'[c].snap.token \in used' \cup revoked'
    BY <1>1, <1>2, <1>5, IdleTypes, ZenonT(30) DEF IInv, CallersOK, Dead
<1> QED BY <1>1, <1>2, <1>3, <1>4, <1>5, <1>6, <1>7, <1>8, <1>9, QuietMove, Zenon

\* Time takes one from the claim and one from each protected wait.
LEMMA TickOK ==
    ASSUME IInv, Tick
    PROVE  IInv'
<1>1. /\ UNCHANGED <<row, cooled, callers, minted, parent, used, revoked>> /\ Bookkeeping'
    BY Zenon, Unmoved DEF Tick, upstream, history
<1>2. claim \in [by: Keys \cup {<<Nobody, 0>>}, left: 0..ClaimTtl] /\ tasks \in [Keys -> TaskStates]
    BY Zenon DEF IInv, TypeOK
<1>3. ASSUME NEW u \in Keys
      PROVE  /\ tasks'[u] \in TaskStates /\ tasks'[u].pc = tasks[u].pc
             /\ tasks'[u].seen = tasks[u].seen /\ tasks'[u].new = tasks[u].new
             /\ tasks'[u].newNonce = tasks[u].newNonce /\ tasks'[u].out = tasks[u].out
             /\ tasks[u].pc \in Protected =>
                   tasks[u].clock > 0 /\ tasks'[u].clock = tasks[u].clock - 1
  <2>1. tasks[u] \in TaskStates /\ tasks[u].clock \in Nat
    BY Zenon, <1>2, TaskParts
  <2>2. tasks'[u] = IF tasks[u].pc \in Protected THEN [tasks[u] EXCEPT !.clock = tasks[u].clock - 1]
                                                 ELSE tasks[u]
    BY Zenon DEF Tick
  <2>3. CASE tasks[u].pc \in Protected
    <3>1. tasks[u].clock > 0
      BY Zenon, <2>3 DEF Tick
    <3>2. tasks[u].clock - 1 \in Nat
      BY <2>1, <3>1
    <3> QED BY Zenon, <2>1, <2>2, <2>3, <3>1, <3>2 DEF TaskStates
  <2>4. CASE tasks[u].pc \notin Protected
    BY Zenon, <2>1, <2>2, <2>4
  <2> QED BY <2>3, <2>4, Zenon
<1>4. claim' \in [by: Keys \cup {<<Nobody, 0>>}, left: 0..ClaimTtl]
  <2>1. CASE claim.left > 1
    BY <2>1, <1>2, Numbers DEF Tick
  <2>2. CASE ~(claim.left > 1)
    BY Zenon, <2>2, IdleTypes DEF Tick
  <2> QED BY Zenon, <2>1, <2>2
<1>5. TypeOK'
  <2>1. tasks' = [u \in Keys |-> tasks'[u]]
    BY Zenon DEF Tick
  <2>2. tasks' \in [Keys -> TaskStates]
    BY Zenon, <2>1, <1>3
  <2> QED BY Zenon, <1>1, <1>4, <2>2 DEF IInv, TypeOK, Bookkeeping
<1>6. TasksOK'
  <2> SUFFICES ASSUME NEW u \in Keys
               PROVE  /\ Covered(u, tasks'[u], claim')
                      /\ Grounded(u, tasks'[u], used, revoked, minted, parent)
    BY Zenon, <1>1 DEF TasksOK
  <2>1. Grounded(u, tasks'[u], used, revoked, minted, parent)
    BY <1>3, TaskFacts, ZenonT(30) DEF Grounded
  <2>2. Covered(u, tasks'[u], claim')
    <3> SUFFICES ASSUME tasks[u].pc \in Protected
                 PROVE  claim'.by = u /\ claim'.left >= tasks'[u].clock + Ahead(tasks[u].pc)
      BY <1>3, ZenonT(30) DEF Covered
    <3>1. claim.by = u /\ claim.left >= tasks[u].clock + Ahead(tasks[u].pc)
      BY TaskFacts, ZenonT(30) DEF Covered
    <3>2. /\ tasks[u].clock > 0 /\ tasks[u].clock \in Nat /\ tasks'[u].clock = tasks[u].clock - 1
          /\ Ahead(tasks[u].pc) \in Nat /\ Ahead(tasks[u].pc) >= 1 /\ claim.left \in Nat
      <4>1. tasks[u].clock > 0 /\ tasks'[u].clock = tasks[u].clock - 1
        BY <1>3, Zenon
      <4>2. tasks[u].clock \in Nat
        BY <1>2, TaskParts, Zenon
      <4>3. claim.left \in Nat
        BY <1>2, Numbers
      <4> QED BY <4>1, <4>2, <4>3, AheadType, Zenon
    <3>3. claim.left > 1
      BY <3>1, <3>2
    <3>4. claim'.by = claim.by /\ claim'.left = claim.left - 1
      BY Zenon, <1>2, <3>3 DEF Tick
    <3>5. claim.left - 1 >= (tasks[u].clock - 1) + Ahead(tasks[u].pc)
      BY <3>1, <3>2
    <3> QED BY <3>1, <3>2, <3>4, <3>5, Zenon
  <2> QED BY Zenon, <2>1, <2>2
<1>7. \A k \in Tokens : Unread(k, callers, tasks) => Unread(k, callers', tasks')
    BY Zenon, <1>1, <1>3, KeyParts DEF Unread
<1>8. RowOK'
  <2>1. row.status \in Terminal => row.token \in Tokens
    BY Zenon, RowParts DEF IInv, TypeOK
  <2> QED BY Zenon, <2>1, <1>1, <1>7 DEF IInv, RowOK, Dead
<1>9. SuccessorOK'
  <2> SUFFICES ASSUME NEW u \in Keys, tasks[u].pc \in {"write", "check"}
               PROVE  row.token # tasks[u].new /\ Unread(tasks[u].new, callers', tasks')
    BY <1>1, <1>3, ZenonT(30) DEF SuccessorOK
  <2>1. tasks[u].new \in 1..minted /\ minted \in 0..MaxToken
    BY TaskFacts, ZenonT(30) DEF Grounded, IInv, TypeOK
  <2>2. tasks[u].new \in Tokens
    BY <2>1, MintedTokens, ZenonT(30)
  <2> QED BY <2>2, <1>7, TaskFacts, ZenonT(30)
<1>10. CooledOK' /\ CallersOK' /\ MintedOK'
    BY <1>1, <1>3, ZenonT(30) DEF IInv, CooledOK, CallersOK, MintedOK, Dead
<1> QED BY Zenon, <1>5, <1>6, <1>8, <1>9, <1>10 DEF IInv

-----------------------------------------------------------------------------
(* The theorems.                                                           *)

\* The stored, active token of an idle deployment.
LEMMA InitInv == Init => IInv
<1> SUFFICES ASSUME Init PROVE IInv
    OBVIOUS
<1>1. 1 \in Tokens /\ 1 \in Nonces /\ 1 \in 0..MaxToken
    BY Numbers DEF Tokens, Nonces
<1>2. row \in Rows /\ row.token = 1 /\ row.status = "active"
    BY Zenon, <1>1 DEF Init, Rows, Statuses
<1>3. /\ \A t \in Keys : tasks[t] = IdleTask
      /\ \A c \in Callers : callers[c] = IdleCaller
      /\ \A p \in Procs : cooled[p] = {}
    BY ZenonT(30) DEF Init
<1>4. TypeOK
  <2>1. /\ tasks \in [Keys -> TaskStates] /\ callers \in [Callers -> CallerStates]
        /\ claim \in [by: Keys \cup {<<Nobody, 0>>}, left: 0..ClaimTtl]
    BY IdleTypes, ZenonT(30) DEF Init
  <2>2. cooled \in [Procs -> SUBSET Tokens] /\ parent \in [Tokens -> 0..MaxToken]
    BY Numbers DEF Init
  <2>3. 0 \in 0..MaxRefreshes /\ 0 \in 0..MaxUpsets
    BY Numbers
  <2>4. used \subseteq Tokens /\ revoked \subseteq Tokens /\ minted \in 0..MaxToken
    BY <1>1, ZenonT(30) DEF Init
  <2>5. Bookkeeping
    BY <2>3, ZenonT(30) DEF Init, Bookkeeping
  <2> QED BY <1>2, <2>1, <2>2, <2>4, <2>5, Zenon DEF TypeOK, Bookkeeping
<1>5. TasksOK /\ SuccessorOK
    BY <1>3, IdleTypes, ZenonT(30) DEF TasksOK, Covered, Grounded, SuccessorOK, Protected, Persisting
<1>6. RowOK
    BY Zenon, <1>2 DEF RowOK, Terminal
<1>7. CooledOK /\ CallersOK
    BY <1>3, IdleTypes, ZenonT(30) DEF CooledOK, CallersOK
<1>8. MintedOK
  <2>1. minted = 1 /\ \A k \in Tokens : parent[k] = 0
    BY Zenon DEF Init
  <2>2. \A c \in Callers : callers[c].snap.token = 0
    BY <1>3, IdleTypes, ZenonT(30)
  <2>3. \A t \in Keys : tasks[t].pc = "idle"
    BY Zenon, <1>3, IdleTypes
  <2>4. row.token <= minted
    BY <1>2, <2>1
  <2>5. \A c \in Callers : callers[c].snap.token <= minted
    <3>1. 0 <= minted
      BY <2>1
    <3> QED BY <2>2, <3>1, Zenon
  <2> QED BY <2>1, <2>3, <2>4, <2>5, Zenon DEF MintedOK
<1> QED BY Zenon, <1>4, <1>5, <1>6, <1>7, <1>8 DEF IInv

\* Every step keeps the inductive invariant.
LEMMA NextInv == IInv /\ [Next]_vars => IInv'
<1> SUFFICES ASSUME IInv, [Next]_vars PROVE IInv'
    OBVIOUS
<1>1. CASE UNCHANGED vars
  <2>1. /\ UNCHANGED <<row, claim, tasks, callers, cooled, minted, parent, used, revoked>>
        /\ UNCHANGED <<refreshes, upsets, sent, lost>>
    BY <1>1, Zenon DEF vars, upstream, history
  <2>2. TypeOK'
    BY <2>1, Zenon DEF IInv, TypeOK
  <2>3. TasksOK'
    BY <2>1, Zenon DEF IInv, TasksOK, Covered, Grounded
  <2>4. RowOK' /\ SuccessorOK'
    BY <2>1, Zenon DEF IInv, RowOK, SuccessorOK, Dead, Unread
  <2>5. CooledOK' /\ CallersOK' /\ MintedOK'
    BY <2>1, Zenon DEF IInv, CooledOK, CallersOK, MintedOK, Dead
  <2> QED BY <2>2, <2>3, <2>4, <2>5, Zenon DEF IInv
<1>2. ASSUME NEW t \in Keys, TaskStep(t) PROVE IInv'
    BY Zenon, <1>2, TryAcquireOK, PeekOK, RereadOK, ExchangeOK, ExchangedOK, GuardedWriteOK, CheckOK,
       StatusWriteOK, DatabaseFailsOK, ReleaseOK DEF TaskStep
<1>3. ASSUME NEW c \in Callers, CallerStep(c) PROVE IInv'
    BY Zenon, <1>3, CallerStepOK
<1>4. CASE OperatorStep \/ Revoke \/ \E p \in Procs : CooldownEnds(p)
    BY Zenon, <1>4, OperatorStepOK
<1>5. ASSUME NEW p \in Procs, Crash(p) PROVE IInv'
    BY Zenon, <1>5, CrashOK
<1>6. CASE Tick
    BY Zenon, <1>6, TickOK
<1> QED BY Zenon, <1>1, <1>2, <1>3, <1>4, <1>5, <1>6 DEF Next

\* The inductive invariant holds throughout.
LEMMA Inductive == Spec => []IInv
BY InitInv, NextInv, PTL DEF Spec

\* Every reachable state of the refresh is well typed, however often rows are
\* written, tasks retried and processes restarted.
THEOREM TypeCorrect == Spec => []TypeOK
<1>1. IInv => TypeOK
    BY Zenon DEF IInv
<1> QED BY <1>1, Inductive, PTL

\* A task in the section between try_acquire and the end of the persist owns
\* an unexpired claim, so that at most one exchange of the account is under
\* way: for every number of replicas and every TTL that the settings validator
\* accepts.
THEOREM ClaimAlwaysProtects == Spec => []ClaimProtects
<1>1. IInv => ClaimProtects
  <2> SUFFICES ASSUME IInv, NEW t \in Keys, tasks[t].pc \in Protected
               PROVE  claim.by = t /\ claim.left > 0
    BY Zenon DEF ClaimProtects
  <2>1. claim.by = t /\ claim.left >= tasks[t].clock + Ahead(tasks[t].pc)
    BY TaskFacts, ZenonT(30) DEF Covered
  <2>2. tasks[t].clock \in Nat /\ claim.left \in Nat
    BY Times, Zenon
  <2> QED BY <2>1, <2>2, AheadType
<1> QED BY <1>1, Inductive, PTL

\* Every step keeps the row's token and flags only a dead one, or it is the
\* guarded write of a task that holds the successor, or it is a login.
LEMMA RowSteps ==
    ASSUME IInv, [Next]_vars
    PROVE  RowKept \/ Login \/ \E t \in Keys : GuardedWrite(t) /\ CipherCurrent(t)
<1> USE DEF upstream, history
<1>1. CASE UNCHANGED vars
    BY Zenon, <1>1, Unmoved DEF vars
<1>2. ASSUME NEW t \in Keys, TaskStep(t), ~(GuardedWrite(t) /\ CipherCurrent(t)) PROVE RowKept
  <2>1. CASE TryAcquire(t) \/ Peek(t) \/ Reread(t) \/ SendExchange(t) \/ NotAdmitted(t) \/ Exchanged(t)
    BY <2>1, Unmoved, ZenonT(30) DEF TryAcquire, Peek, Reread, SendExchange, NotAdmitted, Exchanged
  <2>2. CASE ExchangeRefused(t) \/ ExchangeLost(t) \/ Check(t) \/ FlagRead(t) \/ FailRead(t)
    BY <2>2, Unmoved, ZenonT(30) DEF ExchangeRefused, ExchangeLost, Check, FlagRead, FailRead
  <2>3. CASE GuardedWrite(t)
    BY <2>3, <1>2, Unmoved, ZenonT(30) DEF GuardedWrite
  <2>4. CASE FlagWrite(t) \/ FailWrite(t)
    BY <2>4, StatusWriteKept, ZenonT(30)
  <2>5. CASE DatabaseFails(t) \/ Release(t)
    BY <2>5, Unmoved, ZenonT(30) DEF DatabaseFails, Release
  <2> QED BY Zenon, <1>2, <2>1, <2>2, <2>3, <2>4, <2>5 DEF TaskStep
<1>3. ASSUME NEW c \in Callers, CallerStep(c) PROVE RowKept
    BY <1>3, MarksKept, Unmoved, Zenon DEF CallerStep, Select, Leave, EnsureFresh, Rejected
<1>4. CASE OperatorStep
    BY Zenon, <1>4, OperatorKept DEF OperatorStep
<1>5. CASE Revoke \/ Tick \/ \E p \in Procs : CooldownEnds(p) \/ Crash(p)
    BY Zenon, <1>5, Unmoved DEF Revoke, Tick, CooldownEnds, Crash
<1> QED BY Zenon, <1>1, <1>2, <1>3, <1>4, <1>5 DEF Next

\* A login's token has no parent, and a rotation stores the successor of the
\* token it found: rotate_tokens never drops a token for an unrelated one.
THEOREM NeverClobbers == Spec => NoClobber
<1>1. IInv /\ [Next]_vars =>
          [row # NoRow /\ row' # NoRow /\ row'.token # row.token
             => parent'[row'.token] \in {row.token, 0}]_vars
  <2> SUFFICES ASSUME IInv, [Next]_vars, row # NoRow, row' # NoRow, row'.token # row.token
               PROVE  parent'[row'.token] \in {row.token, 0}
    OBVIOUS
  <2>1. CASE RowKept
    BY <2>1, RowParts, ZenonT(30) DEF RowKept
  <2>2. CASE Login
    <3>1. minted < MaxToken /\ row'.token = minted + 1 /\ parent' = parent
      BY <2>2 DEF Login, Import
    <3>2. minted \in Nat /\ minted + 1 \in Tokens
      BY <3>1, NextUnread, Zenon
    <3> QED BY <3>1, <3>2 DEF IInv, MintedOK
  <2>3. ASSUME NEW t \in Keys, GuardedWrite(t), CipherCurrent(t)
        PROVE  parent'[row'.token] \in {row.token, 0}
    <3>1. row \in Rows /\ tasks[t].seen.token \in {0, t[2]} /\ parent[tasks[t].new] = t[2]
      BY <2>3, TaskFacts, ZenonT(30) DEF GuardedWrite, Grounded
    <3>2. row.token = t[2]
      <4>1. row.token = tasks[t].seen.token
        BY <2>3, ZenonT(30) DEF CipherCurrent, Cipher
      <4> QED BY <3>1, <4>1, RowParts, ZenonT(30)
    <3>3. row' = [row EXCEPT !.token = tasks[t].new, !.nonce = tasks[t].newNonce] /\ parent' = parent
      BY Zenon, <2>3 DEF GuardedWrite, RotateTokens, upstream
    <3>4. row'.token = tasks[t].new
      BY Zenon, <3>1, <3>3 DEF Rows, NoRow
    <3> QED BY Zenon, <3>1, <3>2, <3>3, <3>4
  <2> QED BY Zenon, <2>1, <2>2, <2>3, RowSteps
<1> QED BY <1>1, Inductive, PTL DEF Spec, NoClobber

\* mark_permanent_failure, _flag_persist_conflict_reauth and
\* _handle_permanent_refresh_failure flag only an account whose stored token
\* the upstream has used or revoked.
THEOREM FlagsOnlyDead == Spec => FlagsOnlyDeadToken
<1>1. IInv /\ [Next]_vars =>
          [row.status \notin Terminal /\ row'.status \in Terminal
             => row.token \in used \cup revoked]_vars
  <2> SUFFICES ASSUME IInv, [Next]_vars, row.status \notin Terminal, row'.status \in Terminal
               PROVE  row.token \in used \cup revoked
    BY ZenonT(30)
  <2>1. CASE RowKept
    BY Zenon, <2>1 DEF RowKept, Dead
  <2>2. CASE Login
    <3>1. row'.status = "active"
      BY <2>2 DEF Login, Import
    <3> QED BY Zenon, <3>1 DEF Terminal
  <2>3. ASSUME NEW t \in Keys, GuardedWrite(t), CipherCurrent(t)
        PROVE  row'.status = row.status
    BY <2>3, TaskFacts, Zenon DEF GuardedWrite, RotateTokens, Rows, NoRow
  <2> QED BY <2>1, <2>2, <2>3, RowSteps, ZenonT(30)
<1> QED BY <1>1, Inductive, PTL DEF Spec, FlagsOnlyDeadToken


-----------------------------------------------------------------------------
(* What has been sent upstream.                                            *)

\* The task has sent its token and has not stored the outcome yet.
Working(task) == task.pc \in {"exchange"} \cup Persisting

\* Only minted tokens were sent, and only sent ones are used; a task at work
\* has sent its token, and the successor it holds was never sent.
SentOK ==
    /\ sent.once \subseteq 1..minted
    /\ used \subseteq sent.once
    /\ \A t \in Keys : Working(tasks[t]) => t[2] \in sent.once
    /\ \A t \in Keys : tasks[t].pc \in {"write", "check"} => tasks[t].new \notin sent.once

\* While the account is there, a token that was sent and whose outcome is not
\* lost is still being worked on, or is no longer stored, or is flagged; nobody
\* is about to send it again, and a task that has just sent a token that was
\* used before did so because the outcome was lost.
SettledOK ==
    row # NoRow =>
        /\ \A k \in sent.once \ lost :
              \/ \E p \in Procs : Working(tasks[<<p, k>>])
              \/ row.token = k => row.status \in Terminal
        /\ \A t \in Keys : tasks[t].pc = "admit" /\ t[2] \in sent.once => t[2] \in lost
        /\ \A t \in Keys : tasks[t].pc = "exchange" /\ t[2] \in used => t[2] \in lost
        /\ sent.again \subseteq lost

HInv == SentOK /\ SettledOK

\* The row that is left was there, holds the token it held or one that was
\* never sent, and loses a flag only together with the record of its token.
RowCarries ==
    row' # NoRow =>
        /\ row # NoRow
        /\ row'.token = row.token \/ row'.token \notin sent.once
        /\ row'.token = row.token /\ row.status \in Terminal =>
              row'.status \in Terminal \/ row.token \in lost'

\* The outcome of the task's exchange has been dealt with.
Concluded(u) ==
    \/ u[2] \in lost'
    \/ row' = NoRow \/ row'.token # u[2] \/ row'.status \in Terminal

\* What the upstream has minted is a number.
LEMMA MintedNumber ==
    ASSUME IInv
    PROVE  minted \in Nat
<1>1. minted \in 0..MaxToken
    BY Zenon DEF IInv, TypeOK
<1> QED BY <1>1, Numbers

\* A step that sends nothing: no task gets to work, one that stops has
\* concluded, and a token is used by a task that was at work on it.
LEMMA NothingSent ==
    ASSUME TypeOK, TypeOK', HInv, sent' = sent, minted <= minted', lost \subseteq lost', RowCarries,
           \A u \in Keys : Working(tasks'[u]) => Working(tasks[u]),
           \A u \in Keys : Working(tasks[u]) => Working(tasks'[u]) \/ Concluded(u),
           \A u \in Keys : tasks'[u].pc \in {"write", "check"} => tasks'[u].new \notin sent.once,
           \A u \in Keys : tasks'[u].pc = "admit" /\ row' # NoRow /\ u[2] \in sent.once =>
               tasks[u].pc = "admit" \/ u[2] \in lost',
           \A u \in Keys : tasks'[u].pc = "exchange" => tasks[u].pc = "exchange",
           \A k \in used' : k \in used \/
               (/\ k \in sent.once
                /\ \A u \in Keys : tasks'[u].pc = "exchange" /\ u[2] = k => k \in lost')
    PROVE  HInv'
<1> USE DEF HInv
<1>1. SentOK'
  <2>1. minted \in 0..MaxToken /\ minted' \in 0..MaxToken
    BY Zenon DEF TypeOK
  <2>2. 1..minted \subseteq 1..minted'
    <3>1. ASSUME NEW m \in 0..MaxToken, NEW n \in 0..MaxToken, m <= n
          PROVE  1..m \subseteq 1..n
      BY <3>1, Numbers
    <3> QED BY <2>1, <3>1, Zenon
  <2> QED BY Zenon, <2>2 DEF SentOK
<1>2. SettledOK'
  <2> SUFFICES ASSUME row' # NoRow
               PROVE  /\ \A k \in sent.once \ lost' :
                            \/ \E p \in Procs : Working(tasks'[<<p, k>>])
                            \/ row'.token = k => row'.status \in Terminal
                      /\ \A t \in Keys : tasks'[t].pc = "admit" /\ t[2] \in sent.once => t[2] \in lost'
                      /\ \A t \in Keys : tasks'[t].pc = "exchange" /\ t[2] \in used' => t[2] \in lost'
                      /\ sent.again \subseteq lost'
    BY Zenon DEF SettledOK, Working
  <2>1. row # NoRow
    BY Zenon DEF RowCarries
  <2>2. ASSUME NEW k \in sent.once \ lost', row'.token = k, row'.status \notin Terminal
        PROVE  \E p \in Procs : Working(tasks'[<<p, k>>])
    <3>1. row.token = k /\ k \in sent.once \ lost /\ row.status \notin Terminal
      BY Zenon, <2>2 DEF RowCarries
    <3>2. PICK p \in Procs : Working(tasks[<<p, k>>])
      BY Zenon, <2>1, <3>1 DEF SettledOK
    <3>3. k \in Tokens
      BY Zenon DEF TypeOK
    <3>4. <<p, k>> \in Keys /\ <<p, k>>[2] = k
      BY Zenon, <3>3, KeyParts
    <3>5. ~Concluded(<<p, k>>)
      BY Zenon, <2>2, <3>4 DEF Concluded
    <3> QED BY Zenon, <3>2, <3>4, <3>5
  <2>3. \A t \in Keys : tasks'[t].pc = "admit" /\ t[2] \in sent.once => t[2] \in lost'
    BY Zenon, <2>1 DEF SettledOK
  <2>4. \A t \in Keys : tasks'[t].pc = "exchange" /\ t[2] \in used' => t[2] \in lost'
    BY Zenon, <2>1 DEF SettledOK
  <2> QED BY Zenon, <2>1, <2>2, <2>3, <2>4 DEF SettledOK
<1> QED BY Zenon, <1>1, <1>2

\* The same for a step of one task that uses nothing.
LEMMA OneMoves ==
    ASSUME IInv, IInv', HInv, NEW t \in Keys, \A u \in Keys \ {t} : tasks'[u] = tasks[u],
           UNCHANGED <<sent, minted, used>>, lost \subseteq lost', RowCarries,
           Working(tasks'[t]) => Working(tasks[t]),
           Working(tasks[t]) => Working(tasks'[t]) \/ Concluded(t),
           tasks'[t].pc \in {"write", "check"} => tasks'[t].new \notin sent.once,
           tasks'[t].pc = "admit" /\ row' # NoRow /\ t[2] \in sent.once => t[2] \in lost',
           tasks'[t].pc # "exchange"
    PROVE  HInv'
<1>1. TypeOK /\ TypeOK' /\ minted <= minted'
    BY MintedNumber DEF IInv
<1>2. \A u \in Keys : /\ Working(tasks'[u]) => Working(tasks[u])
                      /\ Working(tasks[u]) => Working(tasks'[u]) \/ Concluded(u)
    BY Zenon
<1>3. \A u \in Keys : tasks'[u].pc \in {"write", "check"} => tasks'[u].new \notin sent.once
    BY Zenon DEF HInv, SentOK
<1>4. \A u \in Keys : tasks'[u].pc = "admit" /\ row' # NoRow /\ u[2] \in sent.once =>
          tasks[u].pc = "admit" \/ u[2] \in lost'
    BY Zenon
<1>5. \A u \in Keys : tasks'[u].pc = "exchange" => tasks[u].pc = "exchange"
    BY Zenon
<1> QED BY <1>1, <1>2, <1>3, <1>4, <1>5, NothingSent, Zenon

\* A step that leaves the row alone, or deletes it, carries it.
LEMMA Carried == (row' = row => RowCarries) /\ (row' = NoRow => RowCarries)
BY Zenon DEF RowCarries

\* The task goes to a point, keeps what it holds, and no other task moves.
Reaches(t, point) ==
    /\ tasks'[t].pc = point /\ tasks'[t].new = tasks[t].new
    /\ \A u \in Keys \ {t} : tasks'[u] = tasks[u]

\* The moves of a task, as far as its point goes.
LEMMA Goes ==
    ASSUME IInv, NEW t \in Keys, NEW point \in Points, NEW x, NEW y, NEW v, Become(t, v),
           \/ v = At(t, point)
           \/ v = [At(t, point) EXCEPT !.tries = x]
           \/ v = [At(t, point) EXCEPT !.clock = x]
           \/ v = [At(t, point) EXCEPT !.seen = x]
           \/ v = [At(t, point) EXCEPT !.clock = x, !.seen = y]
           \/ v = [At(t, point) EXCEPT !.seen = x, !.tries = y]
           \/ v = [At(t, point) EXCEPT !.tries = x, !.clock = y]
    PROVE  Reaches(t, point)
<1>1. tasks \in [Keys -> TaskStates] /\ tasks[t] \in TaskStates
    BY TaskFacts, Zenon
<1>2. tasks'[t] = v /\ \A u \in Keys \ {t} : tasks'[u] = tasks[u]
    BY Zenon, <1>1 DEF Become
<1> QED BY <1>1, <1>2, ZenonT(30) DEF At, TaskStates, Reaches

\* What the actions make of a task, each by the point it goes to.
LEMMA GoesOn ==
    ASSUME IInv, NEW t \in Keys
    PROVE  /\ \A x : Become(t, [At(t, "reread") EXCEPT !.clock = x]) => Reaches(t, "reread")
           /\ \A x : Become(t, [At(t, "claim") EXCEPT !.tries = x]) => Reaches(t, "claim")
           /\ \A x, y : Become(t, [At(t, "admit") EXCEPT !.clock = x, !.seen = y]) => Reaches(t, "admit")
           /\ Become(t, At(t, "peek")) => Reaches(t, "peek")
           /\ \A x : Become(t, [At(t, "exchange") EXCEPT !.clock = x]) => Reaches(t, "exchange")
           /\ \A x, y : Become(t, [At(t, "fail") EXCEPT !.tries = x, !.clock = y]) => Reaches(t, "fail")
           /\ Become(t, At(t, "check")) => Reaches(t, "check")
           /\ \A x, y : Become(t, [At(t, "write") EXCEPT !.seen = x, !.tries = y]) => Reaches(t, "write")
           /\ \A x : Become(t, [At(t, "flag") EXCEPT !.tries = x]) => Reaches(t, "flag")
           /\ \A x : Become(t, [At(t, "flagWrite") EXCEPT !.seen = x]) => Reaches(t, "flagWrite")
           /\ \A x : Become(t, [At(t, "failWrite") EXCEPT !.seen = x]) => Reaches(t, "failWrite")
           /\ \A x : Become(t, [At(t, "fail") EXCEPT !.tries = x]) => Reaches(t, "fail")
           /\ \A out : EndSection(t, out) => Reaches(t, "release")
<1>1. tasks \in [Keys -> TaskStates] /\ tasks[t] \in TaskStates
    BY TaskFacts, Zenon
<1>2. ASSUME NEW out, EndSection(t, out) PROVE Reaches(t, "release")
    BY Zenon, <1>1, <1>2 DEF EndSection, Become, At, TaskStates, Reaches
<1>3. {"reread", "claim", "admit", "peek", "exchange", "fail", "check", "write", "flag", "flagWrite",
       "failWrite"} \subseteq Points
    BY Zenon DEF Points, Protected, Persisting
<1> QED BY <1>2, <1>3, Goes, ZenonT(60)

\* A task that is done.
LEMMA Finished ==
    ASSUME IInv, NEW t \in Keys, NEW out, Finish(t, out)
    PROVE  tasks'[t].pc = "idle" /\ \A u \in Keys \ {t} : tasks'[u] = tasks[u]
<1>1. tasks \in [Keys -> TaskStates]
    BY TaskFacts, Zenon
<1> QED BY Zenon, <1>1 DEF Finish, Become, IdleTask

\* The steps before the exchange: the claim, the wait for it and the re-read,
\* which goes on to the exchange only with a token whose outcome is known.
LEMMA BeforeKeeps ==
    ASSUME IInv, IInv', HInv, NEW t \in Keys,
           TryAcquire(t) \/ Peek(t) \/ Reread(t) \/ NotAdmitted(t) \/ Release(t)
    PROVE  HInv'
<1> USE DEF upstream, history
<1>1. tasks \in [Keys -> TaskStates] /\ tasks[t] \in TaskStates
    BY TaskFacts, Zenon
<1>2. UNCHANGED <<row, sent, lost, minted, used>> /\ RowCarries
    BY Zenon, Carried DEF TryAcquire, Peek, Reread, NotAdmitted, Release
<1>3. ~Working(tasks[t]) /\ \A u \in Keys \ {t} : tasks'[u] = tasks[u]
  <2>1. tasks[t].pc \in {"claim", "peek", "reread", "admit", "release"}
    BY Zenon DEF TryAcquire, Peek, Reread, NotAdmitted, Release
  <2>2. ~Working(tasks[t])
    BY Zenon, <2>1 DEF Working, Persisting
  <2>3. \A u \in Keys \ {t} : tasks'[u] = tasks[u]
    BY Zenon, <1>1 DEF TryAcquire, Peek, Reread, NotAdmitted, Release, EndSection, Finish, Become
  <2> QED BY Zenon, <2>2, <2>3
<1>4. tasks'[t].pc \in {"reread", "peek", "idle", "claim", "release"} \/ (tasks'[t].pc = "admit" /\ Reread(t))
  <2>1. CASE TryAcquire(t)
    BY <2>1, GoesOn, ZenonT(30) DEF TryAcquire, Reaches
  <2>2. CASE Peek(t)
    BY <2>2, GoesOn, Finished, ZenonT(30) DEF Peek, Reaches
  <2>3. CASE Reread(t)
    BY <2>3, GoesOn, ZenonT(30) DEF Reread, Reaches
  <2>4. CASE NotAdmitted(t) \/ Release(t)
    BY <2>4, GoesOn, Finished, ZenonT(30) DEF NotAdmitted, Release, Reaches
  <2> QED BY Zenon, <2>1, <2>2, <2>3, <2>4
<1>5. tasks'[t].pc \notin {"write", "check", "exchange"} /\ ~Working(tasks'[t])
    BY Zenon, <1>4 DEF Working, Persisting
<1>6. ASSUME tasks'[t].pc = "admit", row' # NoRow, t[2] \in sent.once, t[2] \notin lost
      PROVE  FALSE
  <2>1. Reread(t) /\ row # NoRow /\ tasks[t].pc = "reread"
    BY Zenon, <1>2, <1>4, <1>6 DEF Reread
  <2>2. row.token = t[2] /\ row.status \notin Terminal
    <3>1. ASSUME EndSection(t, "fresh") \/ EndSection(t, "permanent") PROVE FALSE
      BY <1>6, <3>1, GoesOn, Zenon DEF Reaches
    <3> QED BY Zenon, <2>1, <3>1 DEF Reread
  <2>3. PICK p \in Procs : Working(tasks[<<p, t[2]>>])
    BY Zenon, <1>6, <2>1, <2>2 DEF HInv, SettledOK
  <2>4. <<p, t[2]>> \in Keys
    BY Zenon, KeyParts
  <2>5. <<p, t[2]>> = t
    BY Zenon, <2>1, <2>3, <2>4, OneInSection DEF Working, Protected
  <2> QED BY Zenon, <1>3, <2>3, <2>5
<1> QED BY <1>2, <1>3, <1>5, <1>6, OneMoves, Zenon

\* The request goes out: a second time only if the outcome of the first was
\* lost, which the re-read under the claim has made sure of.
LEMMA SendKeeps ==
    ASSUME IInv, HInv, NEW t \in Keys, SendExchange(t)
    PROVE  HInv'
<1> USE DEF upstream
<1>1. /\ tasks[t].pc = "admit" /\ Reaches(t, "exchange")
      /\ UNCHANGED <<row, minted, used, lost>>
    BY GoesOn, ZenonT(30) DEF SendExchange
<1>2. /\ sent'.once = sent.once \cup {t[2]}
      /\ sent'.again = IF t[2] \in sent.once THEN sent.again \cup {t[2]} ELSE sent.again
  <2>1. sent \in [once: SUBSET Tokens, again: SUBSET Tokens]
    BY Zenon DEF IInv, TypeOK
  <2> QED BY Zenon, <2>1 DEF SendExchange
<1>3. t[2] \in 1..minted
  <2>1. minted \in Nat /\ t[2] \in Nat /\ t[2] >= 1
    <3>1. t[2] \in Tokens /\ minted \in 0..MaxToken
      BY Zenon, KeyParts DEF IInv, TypeOK
    <3> QED BY <3>1, Numbers DEF Tokens
  <2>2. t[2] <= minted
    BY Zenon, <1>1 DEF IInv, MintedOK
  <2> QED BY <2>1, <2>2
<1>4. \A u \in Keys : Working(tasks[u]) => u = t
    BY Zenon, <1>1, OneInSection DEF Working, Protected
<1>5. ASSUME NEW u \in Keys, u # t
      PROVE  ~Working(tasks'[u]) /\ tasks'[u].pc \notin {"write", "check", "exchange", "admit"}
  <2>1. tasks[u].pc \notin Protected /\ tasks'[u] = tasks[u]
    BY Zenon, <1>1, <1>5, OneInSection DEF Protected, Reaches
  <2> QED BY Zenon, <2>1 DEF Working, Protected, Persisting
<1>6. tasks'[t].pc = "exchange" /\ Working(tasks'[t])
    BY Zenon, <1>1 DEF Reaches, Working
<1>7. SentOK'
  <2>1. sent.once \subseteq 1..minted /\ used \subseteq sent.once
    BY Zenon DEF HInv, SentOK
  <2>2. \A u \in Keys : Working(tasks'[u]) => u[2] \in sent'.once
    BY Zenon, <1>2, <1>5
  <2>3. \A u \in Keys : tasks'[u].pc \notin {"write", "check"}
    BY Zenon, <1>5, <1>6
  <2> QED BY Zenon, <1>1, <1>2, <1>3, <2>1, <2>2, <2>3 DEF SentOK, Working
<1>8. SettledOK'
  <2> SUFFICES ASSUME row # NoRow
               PROVE  /\ \A k \in sent'.once \ lost :
                            \/ \E p \in Procs : Working(tasks'[<<p, k>>])
                            \/ row.token = k => row.status \in Terminal
                      /\ \A u \in Keys : tasks'[u].pc = "admit" /\ u[2] \in sent'.once => u[2] \in lost
                      /\ \A u \in Keys : tasks'[u].pc = "exchange" /\ u[2] \in used => u[2] \in lost
                      /\ sent'.again \subseteq lost
    BY <1>1, ZenonT(30) DEF SettledOK, Working
  <2>1. t[2] \in sent.once => t[2] \in lost
    BY Zenon, <1>1 DEF HInv, SettledOK
  <2>2. sent'.again \subseteq lost
    BY Zenon, <1>2, <2>1 DEF HInv, SettledOK
  <2>3. \A u \in Keys : tasks'[u].pc = "exchange" /\ u[2] \in used => u[2] \in lost
    BY Zenon, <1>5, <2>1 DEF HInv, SentOK
  <2>4. \A u \in Keys : tasks'[u].pc # "admit"
    BY Zenon, <1>5, <1>6
  <2>5. ASSUME NEW k \in sent'.once \ lost, ~\E p \in Procs : Working(tasks'[<<p, k>>])
        PROVE  row.token = k => row.status \in Terminal
    <3>1. k # t[2]
      BY <1>6, <2>5, KeyParts
    <3>2. k \in sent.once \ lost
      BY Zenon, <1>2, <2>5, <3>1
    <3>3. k \in Tokens
      BY Zenon, <3>2 DEF IInv, TypeOK
    <3>4. \A p \in Procs : ~Working(tasks[<<p, k>>])
      BY Zenon, <1>4, <3>1, <3>3, KeyParts
    <3> QED BY <3>2, <3>4, Zenon DEF HInv, SettledOK
  <2> QED BY <2>2, <2>3, <2>4, <2>5, Zenon
<1> QED BY Zenon, <1>7, <1>8 DEF HInv

\* The outcome of the exchange: the successor has never been sent, and a lost
\* answer is on record.
LEMMA OutcomeKeeps ==
    ASSUME IInv, IInv', HInv, NEW t \in Keys,
           Exchanged(t) \/ ExchangeRefused(t) \/ ExchangeLost(t)
    PROVE  HInv'
<1> USE DEF upstream, history
<1>1. /\ tasks[t].pc = "exchange" /\ Working(tasks[t]) /\ t[2] \in sent.once
      /\ UNCHANGED <<row, sent>> /\ RowCarries /\ lost \subseteq lost'
    BY Carried, ZenonT(30) DEF Exchanged, ExchangeRefused, ExchangeLost, Lose, HInv, SentOK, Working
<1>2. TypeOK /\ TypeOK' /\ minted \in Nat
    BY MintedNumber, Zenon DEF IInv
<1>3. \A u \in Keys : u # t => tasks[u].pc \notin Protected
    BY Zenon, <1>1, OneInSection DEF Protected
<1>4. CASE ExchangeRefused(t)
  <2>1. Reaches(t, "fail") /\ UNCHANGED <<minted, used, lost>>
    BY <1>4, GoesOn, ZenonT(30) DEF ExchangeRefused
  <2>2. Working(tasks'[t]) /\ tasks'[t].pc = "fail"
    BY Zenon, <2>1 DEF Reaches, Working, Persisting
  <2> QED BY <1>1, <2>1, <2>2, OneMoves, ZenonT(30) DEF Reaches
<1>5. CASE ExchangeLost(t)
  <2>1. /\ Reaches(t, "release") /\ UNCHANGED minted /\ t[2] \in lost'
        /\ used' \subseteq used \cup {t[2]}
    <3>1. Reaches(t, "release")
      BY <1>5, GoesOn, ZenonT(30) DEF ExchangeLost
    <3> QED BY Zenon, <1>5, <3>1 DEF ExchangeLost, Lose
  <2>2. tasks'[t].pc = "release" /\ ~Working(tasks'[t]) /\ \A u \in Keys \ {t} : tasks'[u] = tasks[u]
    BY Zenon, <2>1 DEF Reaches, Working, Persisting
  <2>3. \A u \in Keys : tasks'[u].pc \notin Protected /\ ~Working(tasks'[u])
    BY Zenon, <1>3, <2>2 DEF Working, Protected, Persisting
  <2>4. \A u \in Keys : tasks'[u].pc \notin {"write", "check", "admit", "exchange"}
    BY Zenon, <2>3 DEF Protected, Persisting
  <2>5. \A u \in Keys : Working(tasks[u]) => Concluded(u)
    BY Zenon, <1>3, <2>1 DEF Working, Protected, Concluded
  <2>6. minted <= minted'
    BY <1>2, <2>1
  <2> QED BY Zenon, <1>1, <1>2, <2>1, <2>3, <2>4, <2>5, <2>6, NothingSent
<1>6. CASE Exchanged(t)
  <2>1. /\ minted < MaxToken /\ minted' = minted + 1 /\ used' = used \cup {t[2]} /\ lost' = lost
    BY <1>6, Zenon DEF Exchanged, Mint
  <2>2. /\ tasks'[t].pc = "write" /\ tasks'[t].new = minted + 1
        /\ \A u \in Keys \ {t} : tasks'[u] = tasks[u]
    <3>1. tasks \in [Keys -> TaskStates] /\ tasks[t] \in TaskStates
      BY TaskFacts, Zenon
    <3> QED BY <1>6, <3>1, ZenonT(30) DEF Exchanged, Become, At, TaskStates
  <2>3. minted + 1 \notin sent.once
    <3>1. minted + 1 \notin 1..minted
      BY <1>2
    <3> QED BY <3>1, Zenon DEF HInv, SentOK
  <2>4. Working(tasks'[t])
    BY Zenon, <2>2 DEF Working, Persisting
  <2>5. \A u \in Keys \ {t} : tasks'[u].pc \notin Protected /\ ~Working(tasks'[u]) /\ ~Working(tasks[u])
    BY Zenon, <1>3, <2>2 DEF Working, Protected, Persisting
  <2>6. \A u \in Keys : tasks'[u].pc \notin {"admit", "exchange"}
    BY Zenon, <2>2, <2>5 DEF Protected
  <2>7. \A u \in Keys : tasks'[u].pc \in {"write", "check"} => tasks'[u].new \notin sent.once
    BY Zenon, <2>2, <2>3, <2>5 DEF Protected, Persisting
  <2>8. minted <= minted'
    BY <1>2, <2>1
  <2> QED BY Zenon, <1>1, <1>2, <2>1, <2>4, <2>5, <2>6, <2>7, <2>8, NothingSent
<1> QED BY Zenon, <1>4, <1>5, <1>6

\* Storing the rotated token puts one in the row that was never sent.
LEMMA StoreKeeps ==
    ASSUME IInv, IInv', HInv, NEW t \in Keys, GuardedWrite(t)
    PROVE  HInv'
<1> USE DEF upstream, history
<1>1. /\ tasks[t].pc = "write" /\ Working(tasks[t]) /\ tasks[t].new \notin sent.once
      /\ UNCHANGED <<sent, minted, used, lost>> /\ t[2] \in sent.once
    BY Zenon DEF GuardedWrite, HInv, SentOK, Working, Persisting
<1>2. CASE CipherCurrent(t)
  <2>1. Reaches(t, "release")
    BY <1>2, GoesOn, ZenonT(30) DEF GuardedWrite
  <2>2. tasks'[t].pc = "release" /\ ~Working(tasks'[t])
    BY Zenon, <2>1 DEF Reaches, Working, Persisting
  <2>3. row # NoRow /\ row'.token = tasks[t].new
    <3>1. row \in Rows
      BY Zenon DEF IInv, TypeOK
    <3> QED BY <1>2, <3>1, ZenonT(30) DEF GuardedWrite, RotateTokens, CipherCurrent, Rows
  <2>4. row'.token # row.token
    BY <1>1, <2>3, TaskFacts, ZenonT(30)
  <2>5. RowCarries
    BY Zenon, <1>1, <2>3, <2>4 DEF RowCarries
  <2>6. Concluded(t)
    BY Zenon, <1>1, <2>3 DEF Concluded
  <2> QED BY <1>1, <2>1, <2>2, <2>5, <2>6, OneMoves, ZenonT(30) DEF Reaches
<1>3. CASE ~CipherCurrent(t)
  <2>1. Reaches(t, "check") /\ row' = row
    BY <1>3, GoesOn, ZenonT(30) DEF GuardedWrite
  <2>2. tasks'[t].pc = "check" /\ Working(tasks'[t]) /\ tasks'[t].new = tasks[t].new
    BY Zenon, <2>1 DEF Reaches, Working, Persisting
  <2> QED BY <1>1, <2>1, <2>2, Carried, OneMoves, ZenonT(30) DEF Reaches
<1> QED BY Zenon, <1>2, <1>3

\* The other steps of the persist section: one that leaves it has found the
\* row without the token, has flagged it, or has put the loss on record.
LEMMA PersistKeeps ==
    ASSUME IInv, IInv', HInv, NEW t \in Keys,
           Check(t) \/ FlagRead(t) \/ FlagWrite(t) \/ FailRead(t) \/ FailWrite(t)
    PROVE  HInv'
<1> USE DEF upstream, history
<1>1. /\ tasks[t].pc \in Persisting /\ Working(tasks[t])
      /\ UNCHANGED <<sent, minted, used>> /\ lost \subseteq lost'
    BY ZenonT(30) DEF Check, FlagRead, FlagWrite, FailRead, FailWrite, Lose, Working, Persisting
<1>2. row \in Rows /\ t[2] \in Tokens
    BY TaskFacts, Zenon
<1>3. RowCarries
  <2>1. CASE row' = row
    BY Zenon, <2>1, Carried
  <2>2. ASSUME NEW s \in Terminal, row' = [row EXCEPT !.status = s], row # NoRow
        PROVE  RowCarries
    BY Zenon, <1>2, <2>2, RowStatus DEF RowCarries, Statuses
  <2>3. CASE FlagWrite(t)
    BY Zenon, <2>1, <2>2, <2>3 DEF FlagWrite, RowCurrent, Terminal
  <2>4. CASE FailWrite(t)
    BY Zenon, <2>1, <2>2, <2>4 DEF FailWrite, RowCurrent
  <2>5. CASE Check(t) \/ FlagRead(t) \/ FailRead(t)
    BY <2>1, <2>5, ZenonT(30) DEF Check, FlagRead, FailRead
  <2> QED BY Zenon, <2>3, <2>4, <2>5
<1>4. ASSUME NEW point \in {"write", "flag", "flagWrite", "fail", "failWrite"}, Reaches(t, point),
             point = "write" => tasks[t].pc = "check"
      PROVE  HInv'
  <2>1. Working(tasks'[t]) /\ tasks'[t].pc \notin {"admit", "exchange"}
    BY Zenon, <1>4 DEF Reaches, Working, Persisting
  <2>2. tasks'[t].pc \in {"write", "check"} => tasks'[t].new \notin sent.once
    BY Zenon, <1>4 DEF Reaches, HInv, SentOK
  <2> QED BY <1>1, <1>3, <1>4, <2>1, <2>2, OneMoves, ZenonT(30) DEF Reaches
<1>5. ASSUME NEW out, EndSection(t, out), Concluded(t)
      PROVE  HInv'
  <2>1. Reaches(t, "release")
    BY <1>5, GoesOn, Zenon
  <2>2. tasks'[t].pc = "release" /\ ~Working(tasks'[t])
    BY Zenon, <2>1 DEF Reaches, Working, Persisting
  <2> QED BY <1>1, <1>3, <1>5, <2>1, <2>2, OneMoves, ZenonT(30) DEF Reaches
<1>6. CASE Check(t)
  <2>1. CASE (row = NoRow \/ row.token # t[2]) /\ EndSection(t, "fresh")
    BY <1>5, <1>6, <2>1, ZenonT(30) DEF Concluded, Check
  <2>2. CASE \E x : Become(t, [At(t, "write") EXCEPT !.seen = row, !.tries = x])
    BY <1>4, <1>6, <2>2, GoesOn, ZenonT(30) DEF Check
  <2>3. CASE Become(t, [At(t, "flag") EXCEPT !.tries = 1])
    BY <1>4, <2>3, GoesOn, ZenonT(30)
  <2> QED BY <1>6, <2>1, <2>2, <2>3, ZenonT(30) DEF Check
<1>7. CASE FlagRead(t)
  <2>1. CASE (row = NoRow \/ row.token # t[2]) /\ EndSection(t, "fresh")
    BY Zenon, <1>5, <1>7, <2>1 DEF Concluded, FlagRead
  <2>2. CASE Become(t, [At(t, "flagWrite") EXCEPT !.seen = row])
    BY <1>4, <2>2, GoesOn, ZenonT(30)
  <2> QED BY Zenon, <1>7, <2>1, <2>2 DEF FlagRead
<1>8. CASE FlagWrite(t)
  <2>1. CASE RowCurrent(t) /\ row' = [row EXCEPT !.status = "reauth"] /\ EndSection(t, "fresh")
    <3>1. row'.status = "reauth"
      BY <1>2, <2>1, RowStatus DEF RowCurrent, Statuses
    <3> QED BY Zenon, <1>5, <2>1, <3>1 DEF Concluded, Terminal
  <2>2. CASE \E x : Become(t, [At(t, "flag") EXCEPT !.tries = x])
    BY <1>4, <2>2, GoesOn, ZenonT(30)
  <2>3. CASE EndSection(t, "transient") /\ Lose(t)
    BY Zenon, <1>5, <2>3 DEF Concluded, Lose
  <2> QED BY <1>8, <2>1, <2>2, <2>3, ZenonT(30) DEF FlagWrite
<1>9. CASE FailRead(t)
  <2>1. CASE (row = NoRow \/ row.token # t[2]) /\ (EndSection(t, "permanent") \/ EndSection(t, "fresh"))
    BY Zenon, <1>5, <1>9, <2>1 DEF Concluded, FailRead
  <2>2. CASE Become(t, [At(t, "failWrite") EXCEPT !.seen = row])
    BY <1>4, <2>2, GoesOn, ZenonT(30)
  <2>3. CASE EndSection(t, "transient") /\ Lose(t)
    BY Zenon, <1>5, <2>3 DEF Concluded, Lose
  <2> QED BY <1>9, <2>1, <2>2, <2>3, ZenonT(30) DEF FailRead
<1>10. CASE FailWrite(t)
  <2>1. ASSUME NEW s \in Terminal, RowCurrent(t), row' = [row EXCEPT !.status = s],
               EndSection(t, "permanent")
        PROVE  HInv'
    <3>1. row'.status = s
      BY Zenon, <1>2, <2>1, RowStatus DEF RowCurrent, Statuses
    <3> QED BY Zenon, <1>5, <2>1, <3>1 DEF Concluded
  <2>2. CASE \E x : Become(t, [At(t, "fail") EXCEPT !.tries = x])
    BY <1>4, <2>2, GoesOn, ZenonT(30)
  <2> QED BY <1>10, <2>1, <2>2, ZenonT(30) DEF FailWrite
<1> QED BY Zenon, <1>6, <1>7, <1>8, <1>9, <1>10

\* A statement that raises ends the task, and puts the loss on record if the
\* task was at work.
LEMMA FailureKeeps ==
    ASSUME IInv, IInv', HInv, NEW t \in Keys, DatabaseFails(t)
    PROVE  HInv'
<1> USE DEF upstream
<1>1. UNCHANGED <<row, sent, minted, used>> /\ RowCarries /\ lost \subseteq lost'
    BY Zenon, Carried DEF DatabaseFails, Lose
<1>2. /\ tasks'[t].pc \in {"idle", "release"}
      /\ \A u \in Keys \ {t} : tasks'[u] = tasks[u]
    BY GoesOn, Finished, ZenonT(30) DEF DatabaseFails, Reaches
<1>3. ~Working(tasks'[t]) /\ tasks'[t].pc \notin {"write", "check", "admit", "exchange"}
    BY Zenon, <1>2 DEF Working, Persisting
<1>4. Working(tasks[t]) => Concluded(t)
    BY Zenon DEF DatabaseFails, Lose, Concluded, Working, Persisting
<1> QED BY <1>1, <1>2, <1>3, <1>4, OneMoves, ZenonT(30)

\* Tasks stay where they are, or start from idle.
LEMMA TasksStay ==
    ASSUME IInv, IInv', HInv, UNCHANGED <<sent, used>>, minted <= minted', lost \subseteq lost', RowCarries,
           \A u \in Keys : \/ tasks'[u].pc = tasks[u].pc /\ tasks'[u].new = tasks[u].new
                           \/ tasks[u].pc = "idle" /\ tasks'[u].pc = "claim"
    PROVE  HInv'
<1>1. TypeOK /\ TypeOK'
    BY Zenon DEF IInv
<1>2. \A u \in Keys : Working(tasks'[u]) <=> Working(tasks[u])
    BY Zenon DEF Working, Persisting
<1>3. \A u \in Keys : tasks'[u].pc \in {"write", "check"} => tasks'[u].new \notin sent.once
    BY Zenon DEF HInv, SentOK
<1>4. \A u \in Keys : /\ tasks'[u].pc = "admit" => tasks[u].pc = "admit"
                      /\ tasks'[u].pc = "exchange" => tasks[u].pc = "exchange"
    OBVIOUS
<1> QED BY <1>1, <1>2, <1>3, <1>4, NothingSent, ZenonT(30)

\* A status write that lifts no flag, or records that it does.
LEMMA StatusCarried ==
    ASSUME IInv, row # NoRow, NEW s \in Statuses, row' = [row EXCEPT !.status = s],
           row.status \in Terminal => s \in Terminal \/ row.token \in lost'
    PROVE  RowCarries
<1>1. row \in Rows
    BY Zenon DEF IInv, TypeOK
<1> QED BY Zenon, <1>1, RowStatus DEF RowCarries

\* The callers send nothing themselves.
LEMMA CallerKeeps ==
    ASSUME IInv, IInv', HInv, NEW c \in Callers, CallerStep(c)
    PROVE  HInv'
<1> USE DEF upstream, history
<1>1. minted \in Nat /\ UNCHANGED <<sent, used, minted>> /\ lost \subseteq lost'
  <2>1. minted \in Nat
    BY MintedNumber, Zenon
  <2> QED BY <2>1, ZenonT(30) DEF CallerStep, Select, Leave, EnsureFresh, Rejected, MarkPermanentFailure, MarkRateLimit
<1>2. RowCarries
  <2>1. CASE row' = row
    BY Zenon, <2>1, Carried
  <2>2. CASE MarkPermanentFailure(c)
    <3>1. PICK s \in Terminal : row' = IF row = callers[c].snap THEN [row EXCEPT !.status = s] ELSE row
      BY Zenon, <2>2 DEF MarkPermanentFailure
    <3>2. CASE row = NoRow
      <4>1. [NoRow EXCEPT !.status = s].token = 0
        BY Zenon DEF NoRow
      <4>2. row'.token = 0
        BY Zenon, <3>1, <3>2, <4>1 DEF NoRow
      <4>3. row' \in Rows
        BY Zenon DEF IInv, TypeOK
      <4> QED BY Zenon, <4>2, <4>3, RowParts, Carried
    <3>3. CASE row # NoRow
      BY Zenon, <2>1, <3>1, <3>3, StatusCarried DEF Statuses
    <3> QED BY Zenon, <3>2, <3>3
  <2>3. CASE MarkRateLimit(c)
    <3>1. CASE row # NoRow
      BY Zenon, <2>3, <3>1, StatusCarried DEF MarkRateLimit, Statuses
    <3> QED BY Zenon, <2>1, <2>3, <3>1 DEF MarkRateLimit
  <2> QED BY <2>1, <2>2, <2>3, ZenonT(30) DEF CallerStep, Select, Leave, EnsureFresh, Rejected
<1>3. \A u \in Keys : \/ tasks'[u].pc = tasks[u].pc /\ tasks'[u].new = tasks[u].new
                      \/ tasks[u].pc = "idle" /\ tasks'[u].pc = "claim"
  <2>1. tasks' = tasks \/ \E t, polls :
            /\ tasks[t].pc = "idle"
            /\ tasks' = [tasks EXCEPT ![t] = [IdleTask EXCEPT !.pc = "claim", !.tries = polls]]
    BY ZenonT(30) DEF CallerStep, Select, Leave, EnsureFresh, Rejected, MarkPermanentFailure, MarkRateLimit
  <2>2. tasks \in [Keys -> TaskStates]
    BY Zenon DEF IInv, TypeOK
  <2> QED BY <2>1, <2>2, ZenonT(30) DEF IdleTask
<1> QED BY <1>1, <1>2, <1>3, TasksStay

\* The operator and the upstream: a login stores a token that was never sent,
\* and a re-import or a reactivation that lifts a flag puts it on record.
LEMMA OperatorKeeps ==
    ASSUME IInv, IInv', HInv, OperatorStep \/ Revoke \/ \E p \in Procs : CooldownEnds(p)
    PROVE  HInv'
<1> USE DEF upstream, history
<1>1. minted \in Nat /\ row \in Rows
    BY MintedNumber, Zenon DEF IInv, TypeOK
<1>2. /\ UNCHANGED <<sent, used, tasks>> /\ minted' \in {minted, minted + 1} /\ lost \subseteq lost'
    BY Zenon DEF OperatorStep, Login, Reimport, Import, Pause, Reactivate, SetStatus, Delete, Revoke, CooldownEnds
<1>3. RowCarries
  <2>1. CASE Login
    <3>1. row # NoRow /\ row'.token = minted + 1
      BY <2>1 DEF Login, Import
    <3>2. minted + 1 \notin sent.once /\ row.token <= minted /\ row.token \in 0..MaxToken
      <4>1. minted + 1 \notin 1..minted
        BY <1>1
      <4> QED BY <1>1, <4>1, RowParts, Zenon DEF HInv, SentOK, IInv, MintedOK
    <3>3. row'.token # row.token
      BY <1>1, <3>1, <3>2, Numbers
    <3> QED BY Zenon, <3>1, <3>2, <3>3 DEF RowCarries
  <2>2. CASE Reimport
    <3>1. row # NoRow /\ row'.token = row.token
      BY <2>2 DEF Reimport, Import
    <3> QED BY Zenon, <2>2, <3>1 DEF RowCarries, Reimport
  <2>3. CASE Pause \/ Reactivate
    <3>1. row # NoRow
      BY <2>3 DEF Pause, Reactivate, NoRow
    <3> QED BY Zenon, <2>3, <3>1, StatusCarried DEF Pause, Reactivate, SetStatus, Statuses, Terminal
  <2>4. CASE Delete \/ Revoke \/ \E p \in Procs : CooldownEnds(p)
    BY Zenon, <2>4, Carried DEF Delete, Revoke, CooldownEnds
  <2> QED BY Zenon, <2>1, <2>2, <2>3, <2>4 DEF OperatorStep
<1>4. minted <= minted'
    BY <1>1, <1>2
<1> QED BY Zenon, <1>2, <1>3, <1>4, TasksStay

\* A crash puts on record what its tasks were at work on.
LEMMA CrashKeeps ==
    ASSUME IInv, IInv', HInv, NEW p \in Procs, Crash(p)
    PROVE  HInv'
<1>1. UNCHANGED <<row, sent, minted>> /\ RowCarries /\ lost \subseteq lost'
    BY Zenon, Carried DEF Crash
<1>2. TypeOK /\ TypeOK' /\ minted <= minted'
    BY <1>1, MintedNumber DEF IInv
<1>3. \A u \in Keys : tasks'[u] = IF u[1] = p THEN IdleTask ELSE tasks[u]
    BY Zenon DEF Crash
<1>4. ~Working(IdleTask) /\ IdleTask.pc = "idle"
    BY Zenon DEF Working, Persisting, IdleTask
<1>5. \A u \in Keys : Working(tasks[u]) => Working(tasks'[u]) \/ Concluded(u)
  <2> SUFFICES ASSUME NEW u \in Keys, Working(tasks[u]), u[1] = p
               PROVE  u[2] \in lost'
    BY Zenon, <1>3 DEF Concluded
  <2>1. u[2] \in Tokens /\ u = <<p, u[2]>>
    BY Zenon, KeyParts
  <2>2. tasks[<<p, u[2]>>].pc \in {"exchange"} \cup Persisting
    BY Zenon, <2>1 DEF Working
  <2> QED BY Zenon, <2>1, <2>2 DEF Crash
<1>6. \A k \in used' : k \in used \/ (k \in sent.once /\ k \in lost')
  <2> SUFFICES ASSUME NEW k \in used', k \notin used
               PROVE  k \in sent.once /\ k \in lost'
    OBVIOUS
  <2>1. k \in Tokens /\ tasks[<<p, k>>].pc = "exchange"
    BY Zenon DEF Crash
  <2>2. <<p, k>> \in Keys /\ <<p, k>>[2] = k /\ Working(tasks[<<p, k>>])
    BY Zenon, <2>1, KeyParts DEF Working
  <2>3. k \in sent.once
    BY Zenon, <2>2 DEF HInv, SentOK
  <2> QED BY Zenon, <2>1, <2>3 DEF Crash
<1>7. \A u \in Keys : /\ Working(tasks'[u]) => Working(tasks[u])
                      /\ tasks'[u].pc \in {"write", "check"} => tasks'[u].new \notin sent.once
                      /\ tasks'[u].pc = "admit" => tasks[u].pc = "admit"
                      /\ tasks'[u].pc = "exchange" => tasks[u].pc = "exchange"
    BY Zenon, <1>3, <1>4 DEF HInv, SentOK
<1> QED BY <1>1, <1>2, <1>5, <1>6, <1>7, NothingSent, ZenonT(30)

\* Every task stays where it is while time passes.
LEMMA TickKeeps ==
    ASSUME IInv, IInv', HInv, Tick
    PROVE  HInv'
<1> USE DEF upstream, history
<1>1. UNCHANGED <<row, sent, lost, minted, used>> /\ RowCarries
    BY Zenon, Carried DEF Tick
<1>2. minted <= minted'
    BY <1>1, MintedNumber
<1>3. ASSUME NEW u \in Keys PROVE tasks'[u].pc = tasks[u].pc /\ tasks'[u].new = tasks[u].new
  <2>1. tasks[u] \in TaskStates
    BY TaskFacts, Zenon
  <2> QED BY Zenon, <2>1 DEF Tick, TaskStates
<1> QED BY Zenon, <1>1, <1>2, <1>3, TasksStay

\* The history invariant holds throughout.
LEMMA HistoryInductive == Spec => []HInv
<1>1. Init => HInv
  <2> SUFFICES ASSUME Init PROVE HInv
    OBVIOUS
  <2>1. sent.once = {} /\ sent.again = {} /\ used = {}
    BY Zenon DEF Init
  <2>2. \A t \in Keys : tasks[t].pc = "idle"
    BY Zenon DEF Init, IdleTask
  <2>3. \A t \in Keys : ~Working(tasks[t]) /\ tasks[t].pc \notin {"write", "check", "admit", "exchange"}
    BY Zenon, <2>2 DEF Working, Persisting
  <2> QED BY Zenon, <2>1, <2>3 DEF HInv, SentOK, SettledOK
<1>2. IInv /\ IInv' /\ HInv /\ [Next]_vars => HInv'
  <2> SUFFICES ASSUME IInv, IInv', HInv, [Next]_vars PROVE HInv'
    OBVIOUS
  <2>1. CASE UNCHANGED vars
    <3>1. UNCHANGED <<row, tasks, sent, lost, minted, used>>
      BY <2>1, Zenon DEF vars
    <3> QED BY <3>1, Zenon DEF HInv, SentOK, SettledOK, Working
  <2>2. ASSUME NEW t \in Keys, TaskStep(t) PROVE HInv'
    BY Zenon, <2>2, BeforeKeeps, SendKeeps, OutcomeKeeps, StoreKeeps, PersistKeeps, FailureKeeps DEF TaskStep
  <2>3. ASSUME NEW c \in Callers, CallerStep(c) PROVE HInv'
    BY Zenon, <2>3, CallerKeeps
  <2>4. CASE OperatorStep \/ Revoke \/ \E p \in Procs : CooldownEnds(p)
    BY Zenon, <2>4, OperatorKeeps
  <2>5. ASSUME NEW p \in Procs, Crash(p) PROVE HInv'
    BY Zenon, <2>5, CrashKeeps
  <2>6. CASE Tick
    BY Zenon, <2>6, TickKeeps
  <2> QED BY Zenon, <2>1, <2>2, <2>3, <2>4, <2>5, <2>6 DEF Next
<1> QED BY <1>1, <1>2, Inductive, PTL DEF Spec

\* No process exchanges a token a second time unless the outcome of the first
\* exchange, or the flag that recorded it, was lost; stale callers of a deleted
\* account excepted.
THEOREM NeverResent == Spec => []ResentOnlyIfLost
<1>1. HInv => ResentOnlyIfLost
    BY Zenon DEF HInv, SettledOK, ResentOnlyIfLost
<1> QED BY <1>1, HistoryInductive, PTL

\* An account that stores a token which the upstream has already exchanged is
\* flagged, or a task is still storing the outcome, or the outcome was lost:
\* _persist_refreshed_tokens and its fallbacks leave no such row unnoticed.
THEOREM ConsumedNoticed == Spec => []ConsumedNeverSilent
<1>1. IInv /\ HInv => ConsumedNeverSilent
  <2> SUFFICES ASSUME IInv, HInv, row.token \in used \ lost, row.status \notin Terminal
               PROVE  \E p \in Procs : tasks[<<p, row.token>>].pc \in Persisting
    BY Zenon DEF ConsumedNeverSilent
  <2>1. row.token \in Tokens /\ row.token \in sent.once
    BY Zenon DEF HInv, SentOK, IInv, TypeOK
  <2>2. row # NoRow
    <3>1. 0 \notin Tokens /\ NoRow.token = 0
      BY Numbers DEF Tokens, NoRow
    <3> QED BY <2>1, <3>1, Zenon
  <2>3. PICK p \in Procs : Working(tasks[<<p, row.token>>])
    BY Zenon, <2>1, <2>2 DEF HInv, SettledOK
  <2>4. <<p, row.token>> \in Keys /\ <<p, row.token>>[2] = row.token
    BY Zenon, <2>1, KeyParts
  <2>5. tasks[<<p, row.token>>].pc # "exchange"
    BY Zenon, <2>2, <2>4 DEF HInv, SettledOK
  <2> QED BY Zenon, <2>3, <2>5 DEF Working
<1> QED BY <1>1, Inductive, HistoryInductive, PTL

=============================================================================
