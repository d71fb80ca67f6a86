----------------------- MODULE RedeemCoordinationProofs -----------------------
(***************************************************************************)
(* The redeem section is exclusive, and the leased claim with its ledger   *)
(* implements Redemption, for any number of attempts, replicas, ids and    *)
(* credits, and for every lease that satisfies LeaseAssumption.            *)
(***************************************************************************)
EXTENDS RedeemCoordination, WellFoundedInduction, TLAPS

\* The time p may still go without a renewal that succeeds: until the next one
\* is due, and late, and then for every failure that is still allowed.
Ahead(p) == due[p] + Lag + (MaxMisses - misses[p]) * (RenewEvery + Lag)

\* The claim outlives everything its holder may still wait for.
Guarded ==
    \A p \in Attempts : InSection(p) => claim.holder = p /\ claim.left >= Ahead(p)

\* What an attempt in the section knows of its id's row is what the row says,
\* even when the row has aged since; and an attempt that found no live row still
\* finds none.
PinKept ==
    \A p \in Attempts :
        /\ pc[p] \in {"fetching", "choosing"} => IdOf[p] # None
        /\ Resolved(p) /\ IdOf[p] # None => ledger[IdOf[p]].credit = credit[p]
        /\ pc[p] = "choosing" \/ (pc[p] = "fetching" /\ credit[p] = None)
              => ~ledger[IdOf[p]].fresh

IInv == RedeemTypeOK /\ Guarded /\ PinKept

------------------------------------------------------------------------------
(* Arithmetic of the lease. *)

\* Numbers the proofs meet again and again.
LEMMA Numbers ==
  /\ Lease \in Nat /\ RenewEvery \in Nat /\ RenewEvery > 0 /\ Lag \in Nat
  /\ MaxMisses \in Nat /\ Lag <= Lease
  /\ Lease - Lag >= RenewEvery + Lag + MaxMisses * (RenewEvery + Lag)
  BY LeaseAssumption

\* One failed renewal uses up one allowance.
LEMMA OneMiss ==
  ASSUME NEW m \in 0..MaxMisses, m < MaxMisses
  PROVE  (MaxMisses - m) * (RenewEvery + Lag)
           = (MaxMisses - (m + 1)) * (RenewEvery + Lag) + (RenewEvery + Lag)
  BY Numbers

\* Allowances are never negative.
LEMMA AllowanceNat ==
  ASSUME NEW m \in 0..MaxMisses
  PROVE  (MaxMisses - m) * (RenewEvery + Lag) \in Nat
  BY Numbers

\* As long as an attempt is in the section nobody else is, and nobody can claim.
LEMMA GuardedExcludes ==
  ASSUME RedeemTypeOK, Guarded
  PROVE  /\ SectionExclusive
         /\ \A p \in Attempts : InSection(p) => ~Claimable
  <1>1. SectionExclusive
    BY DEF Guarded, SectionExclusive
  <1>2. ASSUME NEW p \in Attempts, InSection(p) PROVE ~Claimable
    <2>1. claim.holder = p /\ claim.left >= Ahead(p)
      BY <1>2 DEF Guarded
    <2>2. due[p] \in (-Lag)..RenewEvery /\ misses[p] \in 0..MaxMisses /\ claim.left \in Int
      BY Numbers DEF RedeemTypeOK
    <2>3. (MaxMisses - misses[p]) * (RenewEvery + Lag) \in Nat
      BY <2>2, AllowanceNat
    <2>4. Ahead(p) >= 0
      BY <2>2, <2>3, Numbers DEF Ahead
    <2>5. claim.left >= 0
      BY <2>1, <2>2, <2>3, <2>4, Numbers DEF Ahead
    <2> QED  BY <2>1, <2>5, <2>2, AttemptAssumption DEF Claimable
  <1> QED  BY <1>1, <1>2

\* A set of credits that is not empty has a soonest one.
LEMMA MinIn ==
  ASSUME NEW S \in SUBSET Nat, S # {}
  PROVE  Min(S) \in S
  <1> DEFINE R == {ss \in Nat \X Nat : ss[1] < ss[2]}
  <1>1. IsWellFoundedOn(R, Nat)
    BY NatLessThanWellFounded, Zenon DEF OpToRel
  <1>2. \A m, n \in Nat : m < n => <<m, n>> \in R
    OBVIOUS
  <1> HIDE DEF R
  <1>3. \E x \in S : \A y \in S : ~(<<y, x>> \in R)
    BY <1>1, WFMin, Zenon
  <1>4. PICK x \in S : \A y \in S : ~(<<y, x>> \in R)
    BY <1>3
  <1>5. ASSUME NEW y \in S PROVE x <= y
    <2>1. x \in Nat /\ y \in Nat
      OBVIOUS
    <2>2. ~(y < x)
      BY <1>2, <1>4, <2>1, Zenon
    <2> QED  BY <2>1, <2>2
  <1> QED  BY <1>5 DEF Min

------------------------------------------------------------------------------
(* The invariant. *)

\* The claim keeps guarding those who stay, when nothing of their heartbeat
\* changes.
LEMMA GuardedStays ==
  ASSUME Guarded, UNCHANGED claim,
         \A q \in Attempts : pc'[q] \in Section =>
            pc[q] \in Section /\ due'[q] = due[q] /\ misses'[q] = misses[q]
  PROVE  Guarded'
  BY DEF Guarded, InSection, Ahead

\* Only the attempt in the section has anything pinned.
LEMMA PinOfOne ==
  ASSUME NEW p \in Attempts,
         \A q \in Attempts : pc'[q] \in Section => q = p,
         pc'[p] \in {"fetching", "choosing"} => IdOf[p] # None,
         pc'[p] \in {"fetching", "consuming", "answering"} /\ credit'[p] # None /\ IdOf[p] # None
            => ledger'[IdOf[p]].credit = credit'[p],
         pc'[p] \in {"consuming", "answering"} => credit'[p] # None,
         pc'[p] = "choosing" \/ (pc'[p] = "fetching" /\ credit'[p] = None)
            => ~ledger'[IdOf[p]].fresh
  PROVE  PinKept'
  BY DEF PinKept, Resolved, Section

\* Nobody is in the section: nothing is pinned by anybody.
LEMMA PinOfNobody ==
  ASSUME \A q \in Attempts : pc'[q] \notin Section
  PROVE  PinKept'
  BY DEF PinKept, Resolved, Section

\* A step inside the section keeps the claim and the heartbeat.
LEMMA StepKeeps ==
  ASSUME RedeemTypeOK, Guarded, NEW p \in Attempts, InSection(p),
         NEW next \in Section, NEW c \in Credits \union {None}, Step(p, next, c),
         next \in {"choosing", "consuming", "answering"} => c # None
  PROVE  /\ Guarded'
         /\ claim' = claim /\ due' = due /\ misses' = misses
         /\ pc' \in [Attempts -> Section \union {"waiting", "leaving", "done"}]
         /\ credit' \in [Attempts -> Credits \union {None}]
         /\ pc'[p] = next /\ credit'[p] = c
         /\ \A q \in Attempts \ {p} : pc'[q] = pc[q] /\ credit'[q] = credit[q] /\ pc'[q] \notin Section
         /\ \A q \in Attempts : pc'[q] \in {"choosing", "consuming", "answering"} => credit'[q] # None
  <1>1. claim' = claim /\ due' = due /\ misses' = misses
    BY DEF Step
  <1>2. /\ pc' \in [Attempts -> Section \union {"waiting", "leaving", "done"}]
        /\ credit' \in [Attempts -> Credits \union {None}]
        /\ pc'[p] = next /\ credit'[p] = c
        /\ \A q \in Attempts \ {p} : pc'[q] = pc[q] /\ credit'[q] = credit[q]
    BY DEF Step, RedeemTypeOK
  <1>3. \A q \in Attempts \ {p} : pc'[q] \notin Section
    BY <1>2, GuardedExcludes DEF SectionExclusive, InSection
  <1>4. Guarded'
    BY <1>1, <1>2, <1>3, GuardedStays DEF InSection
  <1>5. \A q \in Attempts : pc'[q] \in {"choosing", "consuming", "answering"} => credit'[q] # None
    BY <1>2, <1>3 DEF Section
  <1> QED  BY <1>1, <1>2, <1>3, <1>4, <1>5

\* Leaving the section stops the heartbeat and keeps the claim.
LEMMA LeaveKeeps ==
  ASSUME IInv, NEW p \in Attempts, InSection(p), Leave(p),
         UNCHANGED <<ledger, available, wire, sent>>
  PROVE  IInv' /\ \A q \in Attempts : pc'[q] \notin Section
  <1>1. /\ pc' \in [Attempts -> Section \union {"waiting", "leaving", "done"}]
        /\ credit' \in [Attempts -> Credits \union {None}]
        /\ pc'[p] = "leaving"
        /\ \A q \in Attempts \ {p} : pc'[q] = pc[q] /\ credit'[q] = credit[q]
    BY DEF Leave, IInv, RedeemTypeOK
  <1>2. due' \in [Attempts -> (-Lag)..RenewEvery] /\ misses' \in [Attempts -> 0..MaxMisses]
    BY Numbers DEF Leave, IInv, RedeemTypeOK
  <1>3. \A q \in Attempts : pc'[q] \notin Section
    <2>1. pc'[p] \notin Section
      BY <1>1 DEF Section
    <2>2. ASSUME NEW q \in Attempts, q # p PROVE pc'[q] \notin Section
      BY <2>2, <1>1, GuardedExcludes DEF SectionExclusive, InSection, IInv
    <2> QED  BY <2>1, <2>2
  <1>4. RedeemTypeOK'
    BY <1>1, <1>2, <1>3 DEF Leave, IInv, RedeemTypeOK, Section
  <1>5. Guarded'
    BY <1>3 DEF Guarded, InSection
  <1> QED  BY <1>3, <1>4, <1>5, PinOfNobody DEF IInv

\* At the start nobody is in the section and nothing is recorded.
LEMMA InitInv == Init => IInv
  <1> SUFFICES ASSUME Init PROVE IInv
    OBVIOUS
  <1>1. RedeemTypeOK
    BY Numbers DEF Init, RedeemTypeOK, NoClaim, NoRow
  <1>2. \A p \in Attempts : pc[p] \notin Section
    BY DEF Init, Section
  <1> QED  BY <1>1, <1>2 DEF IInv, Guarded, PinKept, Resolved, InSection, Section

\* A statement that extends the claim gives it time for every allowed failure.
LEMMA ExtendedClaim ==
  ASSUME NEW p \in Attempts, NEW c \in Extended(p)
  PROVE  /\ c \in [holder : Attempts \union {None}, left : -1..Lease]
         /\ c.holder = p
         /\ c.left >= RenewEvery + Lag + (MaxMisses - 0) * (RenewEvery + Lag)
  <1>1. PICK l \in (Lease - Lag)..Lease : c = [holder |-> p, left |-> l]
    BY DEF Extended
  <1> QED  BY <1>1, Numbers

\* An attempt that takes the claim finds the section empty.
LEMMA AcquireInv ==
  ASSUME IInv, NEW p \in Attempts, Acquire(p)
  PROVE  IInv' /\ \A q \in Attempts : pc[q] \notin Section
  <1>1. \A q \in Attempts : pc[q] \notin Section
    BY GuardedExcludes DEF Acquire, IInv, InSection
  <1>2. /\ pc' \in [Attempts -> Section \union {"waiting", "leaving", "done"}]
        /\ pc'[p] = "section"
        /\ \A q \in Attempts \ {p} : pc'[q] = pc[q]
        /\ due' \in [Attempts -> (-Lag)..RenewEvery] /\ due'[p] = RenewEvery
        /\ misses' \in [Attempts -> 0..MaxMisses] /\ misses'[p] = 0
    BY Numbers DEF Acquire, IInv, RedeemTypeOK, Section
  <1>3. /\ claim' \in [holder : Attempts \union {None}, left : -1..Lease]
        /\ claim'.holder = p
        /\ claim'.left >= RenewEvery + Lag + (MaxMisses - 0) * (RenewEvery + Lag)
    BY ExtendedClaim DEF Acquire
  <1>4. RedeemTypeOK'
    BY <1>1, <1>2, <1>3 DEF Acquire, IInv, RedeemTypeOK, Section
  <1>5. Guarded'
    <2>1. \A q \in Attempts : pc'[q] \in Section => q = p
      BY <1>1, <1>2
    <2> QED  BY <1>2, <1>3, <2>1 DEF Guarded, Ahead, InSection
  <1>6. PinKept'
    BY <1>1, <1>2, PinOfOne
  <1> QED  BY <1>1, <1>4, <1>5, <1>6 DEF IInv

\* A renewal gives the claim its full time again.
LEMMA RenewInv ==
  ASSUME IInv, NEW p \in Attempts, Renew(p)
  PROVE  IInv'
  <1>1. /\ due' \in [Attempts -> (-Lag)..RenewEvery] /\ due'[p] = RenewEvery
        /\ misses' \in [Attempts -> 0..MaxMisses] /\ misses'[p] = 0
    BY Numbers DEF Renew, IInv, RedeemTypeOK
  <1>2. /\ claim' \in [holder : Attempts \union {None}, left : -1..Lease]
        /\ claim'.holder = p
        /\ claim'.left >= RenewEvery + Lag + (MaxMisses - 0) * (RenewEvery + Lag)
    BY ExtendedClaim DEF Renew
  <1>3. RedeemTypeOK'
    BY <1>1, <1>2 DEF Renew, IInv, RedeemTypeOK
  <1>4. Guarded'
    <2>1. \A q \in Attempts : pc'[q] \in Section => q = p
      BY GuardedExcludes DEF Renew, IInv, SectionExclusive, InSection
    <2> QED  BY <1>1, <1>2, <2>1 DEF Guarded, Ahead, InSection
  <1>5. PinKept'
    BY DEF Renew, IInv, PinKept, Resolved
  <1> QED  BY <1>3, <1>4, <1>5 DEF IInv

\* A failed renewal uses an allowance, and the claim still covers the rest.
LEMMA RenewFailsInv ==
  ASSUME IInv, NEW p \in Attempts, RenewFails(p)
  PROVE  IInv'
  <1>1. /\ due[p] \in (-Lag)..RenewEvery /\ misses[p] \in 0..MaxMisses /\ claim.left \in Int
        /\ misses[p] < MaxMisses
    BY Numbers DEF RenewFails, IInv, RedeemTypeOK
  <1>2. /\ due' \in [Attempts -> (-Lag)..RenewEvery] /\ due'[p] = RenewEvery
        /\ misses' \in [Attempts -> 0..MaxMisses] /\ misses'[p] = misses[p] + 1
    BY <1>1, Numbers DEF RenewFails, IInv, RedeemTypeOK
  <1>3. RedeemTypeOK'
    BY <1>2 DEF RenewFails, IInv, RedeemTypeOK
  <1>4. Guarded'
    <2>1. \A q \in Attempts : pc'[q] \in Section => q = p
      BY GuardedExcludes DEF RenewFails, IInv, SectionExclusive, InSection
    <2>2. claim.holder = p /\ claim.left >= Ahead(p) /\ claim' = claim
      BY DEF RenewFails, IInv, Guarded
    <2> DEFINE rest == (MaxMisses - (misses[p] + 1)) * (RenewEvery + Lag)
    <2>3. (MaxMisses - misses[p]) * (RenewEvery + Lag) = rest + (RenewEvery + Lag)
      BY <1>1, OneMiss
    <2>4. rest \in Nat
      BY <1>1, AllowanceNat, Numbers
    <2>5. claim.left >= due[p] + Lag + rest + (RenewEvery + Lag)
      <3> HIDE DEF rest
      <3> QED  BY <1>1, <2>2, <2>3, <2>4, Numbers DEF Ahead
    <2>6. claim.left >= RenewEvery + Lag + rest
      <3> HIDE DEF rest
      <3> QED  BY <1>1, <2>4, <2>5, Numbers
    <2> QED  BY <1>2, <2>1, <2>2, <2>6 DEF Guarded, Ahead, InSection
  <1>5. PinKept'
    BY DEF RenewFails, IInv, PinKept, Resolved
  <1> QED  BY <1>3, <1>4, <1>5 DEF IInv

\* Time runs for the claim and for its holder's heartbeat alike.
LEMMA TickInv ==
  ASSUME IInv, Tick
  PROVE  IInv'
  <1>1. /\ claim.left \in -1..Lease /\ claim.holder \in Attempts \union {None}
        /\ claim \in [holder : Attempts \union {None}, left : -1..Lease]
    BY DEF IInv, RedeemTypeOK
  <1>2. claim' \in [holder : Attempts \union {None}, left : -1..Lease]
    BY <1>1, Numbers DEF Tick
  <1>3. due' \in [Attempts -> (-Lag)..RenewEvery]
    <2> SUFFICES ASSUME NEW p \in Attempts
                 PROVE  (IF InSection(p) THEN due[p] - 1 ELSE due[p]) \in (-Lag)..RenewEvery
      BY DEF Tick
    <2>1. due[p] \in (-Lag)..RenewEvery
      BY DEF IInv, RedeemTypeOK
    <2>2. InSection(p) => due[p] > -Lag
      BY DEF Tick
    <2> QED  BY <2>1, <2>2, Numbers
  <1>4. RedeemTypeOK'
    BY <1>2, <1>3 DEF Tick, IInv, RedeemTypeOK
  <1>5. Guarded'
    <2> SUFFICES ASSUME NEW p \in Attempts, InSection(p)
                 PROVE  claim'.holder = p /\ claim'.left >= Ahead(p)'
      BY DEF Guarded, InSection, Tick
    <2>1. claim.holder = p /\ claim.left >= Ahead(p)
      BY DEF IInv, Guarded
    <2>2. due[p] \in (-Lag)..RenewEvery /\ misses[p] \in 0..MaxMisses /\ due[p] > -Lag
      BY DEF IInv, RedeemTypeOK, Tick
    <2> DEFINE rest == (MaxMisses - misses[p]) * (RenewEvery + Lag)
    <2>3. rest \in Nat
      BY <2>2, AllowanceNat
    <2>4. Ahead(p) = due[p] + Lag + rest /\ Ahead(p)' = (due[p] - 1) + Lag + rest
      BY DEF Ahead, Tick
    <2> HIDE DEF rest
    <2>5. claim.left >= 1
      BY <1>1, <2>1, <2>2, <2>3, <2>4, Numbers
    <2>6. claim'.holder = p /\ claim'.left = claim.left - 1
      BY <1>1, <2>1, <2>5, AttemptAssumption DEF Tick
    <2> QED  BY <1>1, <2>1, <2>2, <2>3, <2>4, <2>5, <2>6, Numbers
  <1>6. PinKept'
    BY DEF Tick, IInv, PinKept, Resolved
  <1> QED  BY <1>4, <1>5, <1>6 DEF IInv

\* A step inside the section that leaves the ledger, upstream and the consumes
\* alone keeps the invariant, when what it resolves is what the ledger says.
LEMMA StepInv ==
  ASSUME IInv, NEW p \in Attempts, InSection(p),
         NEW next \in Section, NEW c \in Credits \union {None}, Step(p, next, c),
         UNCHANGED <<ledger, available, wire, sent>>,
         next \in {"choosing", "consuming", "answering"} => c # None,
         next \in {"fetching", "choosing"} => IdOf[p] # None,
         next \in {"fetching", "consuming", "answering"} /\ c # None /\ IdOf[p] # None
            => ledger[IdOf[p]].credit = c,
         next = "choosing" \/ (next = "fetching" /\ c = None) => ~ledger[IdOf[p]].fresh
  PROVE  IInv'
  <1>1. /\ Guarded'
        /\ claim' = claim /\ due' = due /\ misses' = misses
        /\ pc' \in [Attempts -> Section \union {"waiting", "leaving", "done"}]
        /\ credit' \in [Attempts -> Credits \union {None}]
        /\ pc'[p] = next /\ credit'[p] = c
        /\ \A q \in Attempts \ {p} : pc'[q] \notin Section
        /\ \A q \in Attempts : pc'[q] \in {"choosing", "consuming", "answering"} => credit'[q] # None
    BY StepKeeps DEF IInv
  <1>2. RedeemTypeOK'
    BY <1>1 DEF IInv, RedeemTypeOK
  <1>3. PinKept'
    <2>1. \A q \in Attempts : pc'[q] \in Section => q = p
      BY <1>1
    <2> QED  BY <1>1, <2>1, PinOfOne
  <1> QED  BY <1>1, <1>2, <1>3 DEF IInv

\* A live row names a credit.
LEMMA PinnedIs ==
  ASSUME RedeemTypeOK, NEW i \in Ids
  PROVE  /\ Pinned(i) \in Credits \union {None}
         /\ Pinned(i) # None => ledger[i].credit = Pinned(i)
         /\ Pinned(i) = None => ~ledger[i].fresh
  <1>1. ledger[i] \in [credit : Credits \union {None}, fresh : BOOLEAN]
    BY DEF RedeemTypeOK
  <1>2. ledger[i].fresh => ledger[i].credit # None
    BY DEF RedeemTypeOK
  <1> QED  BY <1>1, <1>2 DEF Pinned

\* The lookup resolves what a live row says, or nothing.
LEMMA LookUpInv ==
  ASSUME IInv, NEW p \in Attempts, LookUp(p)
  PROVE  IInv'
  <1>1. IdOf[p] \in Ids /\ IdOf[p] # None /\ InSection(p)
    BY AttemptAssumption DEF LookUp, Dashboard, InSection, Section
  <1>2. CASE Step(p, "fetching", Pinned(IdOf[p]))
    <2>1. "fetching" \in Section
      BY DEF Section
    <2> QED  BY <1>1, <1>2, <2>1, PinnedIs, StepInv DEF LookUp, IInv
  <1>3. CASE Leave(p)
    BY <1>1, <1>3, LeaveKeeps DEF LookUp
  <1> QED  BY <1>2, <1>3 DEF LookUp

\* The fetch keeps a pinned credit, or selects one while no row is live.
LEMMA FetchInv ==
  ASSUME IInv, NEW p \in Attempts, Fetch(p)
  PROVE  IInv'
  <1>1. /\ InSection(p) /\ pc[p] = "fetching" /\ IdOf[p] # None /\ IdOf[p] \in Ids
        /\ credit[p] \in Credits \union {None}
        /\ available \subseteq Credits /\ available \subseteq Nat
        /\ UNCHANGED <<ledger, available, wire, sent>>
    BY AttemptAssumption DEF Fetch, InSection, Section, IInv, PinKept, RedeemTypeOK
  <1>2. /\ "consuming" \in Section /\ "choosing" \in Section
    BY DEF Section
  <1>3. CASE credit[p] # None /\ Step(p, "consuming", credit[p])
    <2>1. ledger[IdOf[p]].credit = credit[p]
      BY <1>1, <1>3 DEF IInv, PinKept, Resolved
    <2> QED  BY <1>1, <1>2, <1>3, <2>1, StepInv
  <1>4. CASE Leave(p)
    BY <1>1, <1>4, LeaveKeeps
  <1>5. CASE credit[p] = None /\ available # {} /\ Step(p, "choosing", Soonest)
    <2>1. Soonest \in Credits /\ Soonest # None
      BY <1>1, <1>5, MinIn, AttemptAssumption DEF Soonest
    <2>2. ~ledger[IdOf[p]].fresh
      BY <1>1, <1>5 DEF IInv, PinKept
    <2> QED  BY <1>1, <1>2, <1>5, <2>1, <2>2, StepInv
  <1> QED  BY <1>3, <1>4, <1>5 DEF Fetch

\* The pin writes the selected credit: no live row stands in its way.
LEMMA PinInv ==
  ASSUME IInv, NEW p \in Attempts, Pin(p)
  PROVE  /\ IInv'
         /\ IdOf[p] \in Ids /\ credit[p] \in Credits /\ credit[p] # None
         /\ Step(p, "consuming", credit[p])
         /\ ledger' = [i \in Ids |-> IF i = IdOf[p] THEN [credit |-> credit[p], fresh |-> TRUE]
                                     ELSE IF ledger[i].fresh THEN ledger[i] ELSE NoRow]
  <1> DEFINE purged == [i \in Ids |-> IF ledger[i].fresh THEN ledger[i] ELSE NoRow]
             mine == [credit |-> credit[p], fresh |-> TRUE]
  <1>1. /\ InSection(p) /\ IdOf[p] # None /\ IdOf[p] \in Ids
        /\ credit[p] \in Credits /\ credit[p] # None
        /\ ~ledger[IdOf[p]].fresh
    BY AttemptAssumption DEF Pin, InSection, Section, IInv, PinKept, RedeemTypeOK
  <1>2. purged[IdOf[p]] = NoRow
    BY <1>1
  <1>3. /\ ledger' = [purged EXCEPT ![IdOf[p]] = mine]
        /\ Step(p, "consuming", mine.credit)
        /\ UNCHANGED <<available, wire, sent>>
    BY <1>2 DEF Pin
  <1>4. Step(p, "consuming", credit[p])
    BY <1>3
  <1>5. ledger' = [i \in Ids |-> IF i = IdOf[p] THEN mine ELSE IF ledger[i].fresh THEN ledger[i] ELSE NoRow]
    BY <1>3
  <1>6. /\ Guarded'
        /\ claim' = claim /\ due' = due /\ misses' = misses
        /\ pc' \in [Attempts -> Section \union {"waiting", "leaving", "done"}]
        /\ credit' \in [Attempts -> Credits \union {None}]
        /\ pc'[p] = "consuming" /\ credit'[p] = credit[p]
        /\ \A q \in Attempts \ {p} : pc'[q] \notin Section
        /\ \A q \in Attempts : pc'[q] \in {"choosing", "consuming", "answering"} => credit'[q] # None
    <2>1. "consuming" \in Section
      BY DEF Section
    <2> QED  BY <1>1, <1>4, <2>1, StepKeeps DEF IInv
  <1>7. /\ ledger' \in [Ids -> [credit : Credits \union {None}, fresh : BOOLEAN]]
        /\ \A i \in Ids : ledger'[i].fresh => ledger'[i].credit # None
        /\ ledger'[IdOf[p]].credit = credit[p]
    BY <1>1, <1>5 DEF NoRow, IInv, RedeemTypeOK
  <1>8. RedeemTypeOK'
    BY <1>3, <1>6, <1>7 DEF IInv, RedeemTypeOK
  <1>9. PinKept'
    <2>1. \A q \in Attempts : pc'[q] \in Section => q = p
      BY <1>6
    <2> QED  BY <1>6, <1>7, <2>1, PinOfOne
  <1> QED  BY <1>1, <1>4, <1>5, <1>6, <1>8, <1>9 DEF IInv

\* A /v1 attempt resolves the credit its caller names; its id has no row.
LEMMA ValidateInv ==
  ASSUME IInv, NEW p \in Attempts, Validate(p)
  PROVE  IInv'
  <1>1. /\ InSection(p) /\ IdOf[p] = None /\ Wanted[p] \in Credits /\ Wanted[p] # None
        /\ UNCHANGED <<ledger, available, wire, sent>>
    BY AttemptAssumption DEF Validate, Dashboard, InSection, Section
  <1>2. CASE Step(p, "consuming", Wanted[p])
    <2>1. "consuming" \in Section
      BY DEF Section
    <2> QED  BY <1>1, <1>2, <2>1, StepInv
  <1>3. CASE Leave(p)
    BY <1>1, <1>3, LeaveKeeps
  <1> QED  BY <1>2, <1>3 DEF Validate

\* The consume carries the credit the attempt resolved.
LEMMA ConsumeInv ==
  ASSUME IInv, NEW p \in Attempts, Consume(p)
  PROVE  /\ IInv'
         /\ credit[p] \in Credits /\ credit[p] # None
         /\ IdOf[p] # None => ledger[IdOf[p]].credit = credit[p]
  <1>1. /\ InSection(p) /\ IdOf[p] \in Ids \union {None}
        /\ credit[p] \in Credits /\ credit[p] # None
        /\ IdOf[p] # None => ledger[IdOf[p]].credit = credit[p]
    BY AttemptAssumption DEF Consume, InSection, Section, IInv, PinKept, Resolved, RedeemTypeOK
  <1>2. /\ Guarded'
        /\ claim' = claim /\ due' = due /\ misses' = misses
        /\ pc' \in [Attempts -> Section \union {"waiting", "leaving", "done"}]
        /\ credit' \in [Attempts -> Credits \union {None}]
        /\ pc'[p] = "answering" /\ credit'[p] = credit[p]
        /\ \A q \in Attempts \ {p} : pc'[q] \notin Section
        /\ \A q \in Attempts : pc'[q] \in {"choosing", "consuming", "answering"} => credit'[q] # None
    <2>1. "answering" \in Section
      BY DEF Section
    <2> QED  BY <1>1, <2>1, StepKeeps DEF IInv, Consume
  <1>3. wire' \subseteq sent' /\ sent' \subseteq (Ids \union {None}) \X Credits
    BY <1>1 DEF Consume, IInv, RedeemTypeOK
  <1>4. RedeemTypeOK'
    BY <1>2, <1>3 DEF Consume, IInv, RedeemTypeOK
  <1>5. PinKept'
    <2>1. \A q \in Attempts : pc'[q] \in Section => q = p
      BY <1>2
    <2>2. ledger' = ledger
      BY DEF Consume
    <2> QED  BY <1>1, <1>2, <2>1, <2>2, PinOfOne
  <1> QED  BY <1>1, <1>2, <1>4, <1>5 DEF IInv

\* An attempt outside the section changes its place.
LEMMA OutsideInv ==
  ASSUME IInv, NEW p \in Attempts, ~InSection(p),
         pc' = [pc EXCEPT ![p] = "done"],
         claim' = claim \/ (claim' = NoClaim /\ claim.holder = p),
         UNCHANGED <<ledger, available, wire, sent, credit, due, misses>>
  PROVE  IInv'
  <1>1. /\ pc' \in [Attempts -> Section \union {"waiting", "leaving", "done"}]
        /\ \A q \in Attempts : pc'[q] \in Section => pc'[q] = pc[q] /\ q # p
        /\ \A q \in Attempts : pc'[q] = pc[q] \/ pc'[q] = "done"
    BY DEF IInv, RedeemTypeOK, InSection, Section
  <1>2. claim' \in [holder : Attempts \union {None}, left : -1..Lease]
    BY Numbers DEF IInv, RedeemTypeOK, NoClaim
  <1>3. RedeemTypeOK'
    BY <1>1, <1>2 DEF IInv, RedeemTypeOK, Section
  <1>4. Guarded'
    <2> SUFFICES ASSUME NEW q \in Attempts, pc'[q] \in Section
                 PROVE  claim'.holder = q /\ claim'.left >= Ahead(q)'
      BY DEF Guarded, InSection
    <2>1. InSection(q) /\ q # p
      BY <1>1 DEF InSection
    <2>2. claim.holder = q /\ claim.left >= Ahead(q)
      BY <2>1 DEF IInv, Guarded
    <2> QED  BY <2>1, <2>2 DEF Ahead
  <1>5. PinKept'
    BY <1>1 DEF IInv, PinKept, Resolved
  <1> QED  BY <1>3, <1>4, <1>5 DEF IInv

\* A crash takes attempts out of the section and leaves the claim row.
LEMMA CrashInv ==
  ASSUME IInv, NEW r \in Replicas, Crash(r)
  PROVE  /\ IInv'
         /\ \A q \in Attempts : \/ pc'[q] = "done" /\ pc[q] # "waiting"
                                \/ pc'[q] = pc[q] /\ credit'[q] = credit[q]
  <1>1. \A q \in Attempts :
          \/ /\ pc'[q] = "done" /\ credit'[q] = None /\ due'[q] = 0 /\ misses'[q] = 0
             /\ pc[q] # "waiting"
          \/ pc'[q] = pc[q] /\ credit'[q] = credit[q] /\ due'[q] = due[q] /\ misses'[q] = misses[q]
    BY DEF Crash
  <1>2. /\ pc' \in [Attempts -> Section \union {"waiting", "leaving", "done"}]
        /\ credit' \in [Attempts -> Credits \union {None}]
    BY DEF Crash, IInv, RedeemTypeOK
  <1>3. /\ due' \in [Attempts -> (-Lag)..RenewEvery]
        /\ misses' \in [Attempts -> 0..MaxMisses]
    BY Numbers DEF Crash, IInv, RedeemTypeOK
  <1>4. RedeemTypeOK'
    BY <1>1, <1>2, <1>3 DEF Crash, IInv, RedeemTypeOK
  <1>5. Guarded'
    <2>1. \A q \in Attempts : pc'[q] \in Section =>
             pc[q] \in Section /\ due'[q] = due[q] /\ misses'[q] = misses[q]
      BY <1>1 DEF Section
    <2> QED  BY <2>1, GuardedStays DEF Crash, IInv
  <1>6. PinKept'
    BY <1>1 DEF Crash, IInv, PinKept, Resolved
  <1> QED  BY <1>1, <1>4, <1>5, <1>6 DEF IInv

\* A row that ages keeps its credit until it is purged.
LEMMA ExpireInv ==
  ASSUME IInv, NEW i \in Ids, Expire(i)
  PROVE  /\ IInv'
         /\ ledger[i].fresh /\ ~ledger'[i].fresh
         /\ \A j \in Ids : ledger'[j].credit = ledger[j].credit
         /\ \A j \in Ids \ {i} : ledger'[j] = ledger[j]
  <1> DEFINE LedgerRow == [credit : Credits \union {None}, fresh : BOOLEAN]
  <1>1. /\ \A j \in Ids : ledger[j] \in LedgerRow
        /\ ledger' = [ledger EXCEPT ![i] = [ledger[i] EXCEPT !.fresh = FALSE]]
        /\ ledger[i].fresh
    BY DEF Expire, IInv, RedeemTypeOK
  <1>a. /\ [ledger[i] EXCEPT !.fresh = FALSE] \in LedgerRow
        /\ [ledger[i] EXCEPT !.fresh = FALSE].credit = ledger[i].credit
        /\ [ledger[i] EXCEPT !.fresh = FALSE].fresh = FALSE
    BY <1>1
  <1>b. /\ ledger' \in [Ids -> LedgerRow]
        /\ ledger'[i] = [ledger[i] EXCEPT !.fresh = FALSE]
        /\ \A j \in Ids \ {i} : ledger'[j] = ledger[j]
    BY <1>1, <1>a DEF IInv, RedeemTypeOK
  <1>2. /\ ledger' \in [Ids -> LedgerRow]
        /\ \A j \in Ids : ledger'[j].fresh => ledger'[j].credit # None
        /\ \A j \in Ids : ledger'[j].credit = ledger[j].credit
        /\ \A j \in Ids : ~ledger[j].fresh => ~ledger'[j].fresh
        /\ ~ledger'[i].fresh
    BY <1>1, <1>a, <1>b DEF IInv, RedeemTypeOK
  <1>3. RedeemTypeOK'
    BY <1>2 DEF Expire, IInv, RedeemTypeOK
  <1>4. Guarded'
    BY DEF Expire, IInv, Guarded, InSection, Ahead
  <1>5. PinKept'
    <2> SUFFICES ASSUME NEW p \in Attempts
                 PROVE  /\ pc[p] \in {"fetching", "choosing"} => IdOf[p] # None
                        /\ Resolved(p) /\ IdOf[p] # None => ledger'[IdOf[p]].credit = credit[p]
                        /\ pc[p] = "choosing" \/ (pc[p] = "fetching" /\ credit[p] = None)
                              => ~ledger'[IdOf[p]].fresh
      BY DEF PinKept, Resolved, Expire
    <2>1. IdOf[p] # None => IdOf[p] \in Ids
      BY AttemptAssumption
    <2> QED  BY <1>2, <2>1 DEF IInv, PinKept
  <1> QED  BY <1>1, <1>b, <1>2, <1>3, <1>4, <1>5 DEF IInv

\* Nothing the invariant is about changes.
LEMMA StutterInv ==
  ASSUME IInv, UNCHANGED vars
  PROVE  IInv'
  BY DEF IInv, vars, RedeemTypeOK, Guarded, PinKept, InSection, Ahead, Resolved

\* Upstream redeems a credit, or a consume is lost.
LEMMA UpstreamInv ==
  ASSUME IInv, NEW m \in wire, UpstreamTakes(m)
  PROVE  IInv'
  <1>1. RedeemTypeOK'
    BY DEF IInv, RedeemTypeOK, UpstreamTakes
  <1> QED  BY <1>1 DEF IInv, UpstreamTakes, Guarded, PinKept, InSection, Ahead, Resolved

\* The invariant is inductive.
LEMMA NextInv == IInv /\ [Next]_vars => IInv'
  <1> SUFFICES ASSUME IInv, [Next]_vars PROVE IInv'
    OBVIOUS
  <1>1. ASSUME NEW p \in Attempts, Acquire(p) PROVE IInv'
    BY <1>1, AcquireInv
  <1>2. ASSUME NEW p \in Attempts, AcquireTimesOut(p) PROVE IInv'
    BY <1>2, OutsideInv DEF AcquireTimesOut, InSection, Section
  <1>3. ASSUME NEW p \in Attempts, Renew(p) PROVE IInv'
    BY <1>3, RenewInv
  <1>4. ASSUME NEW p \in Attempts, RenewFails(p) PROVE IInv'
    BY <1>4, RenewFailsInv
  <1>5. ASSUME NEW p \in Attempts, Release(p) PROVE IInv'
    BY <1>5, OutsideInv DEF Release, Released, InSection, Section
  <1>6. ASSUME NEW p \in Attempts, NotReady(p) PROVE IInv'
    BY <1>6, LeaveKeeps DEF NotReady, InSection, Section
  <1>7. ASSUME NEW p \in Attempts, LookUp(p) PROVE IInv'
    BY <1>7, LookUpInv
  <1>8. ASSUME NEW p \in Attempts, FetchFails(p) PROVE IInv'
    BY <1>8, LeaveKeeps DEF FetchFails, InSection, Section
  <1>9. ASSUME NEW p \in Attempts, Fetch(p) PROVE IInv'
    BY <1>9, FetchInv
  <1>10. ASSUME NEW p \in Attempts, Pin(p) PROVE IInv'
    BY <1>10, PinInv
  <1>11. ASSUME NEW p \in Attempts, Validate(p) PROVE IInv'
    BY <1>11, ValidateInv
  <1>12. ASSUME NEW p \in Attempts, Consume(p) PROVE IInv'
    BY <1>12, ConsumeInv
  <1>13. ASSUME NEW p \in Attempts, Answered(p) PROVE IInv'
    BY <1>13, LeaveKeeps DEF Answered, InSection, Section
  <1>14. ASSUME Tick PROVE IInv'
    BY <1>14, TickInv
  <1>15. ASSUME NEW m \in wire, UpstreamTakes(m) PROVE IInv'
    BY <1>15, UpstreamInv
  <1>16. ASSUME NEW r \in Replicas, Crash(r) PROVE IInv'
    BY <1>16, CrashInv
  <1>17. ASSUME NEW i \in Ids, Expire(i) PROVE IInv'
    BY <1>17, ExpireInv
  <1>18. CASE UNCHANGED vars
    BY <1>18, StutterInv
  <1> QED
    BY <1>1, <1>2, <1>3, <1>4, <1>5, <1>6, <1>7, <1>8, <1>9, <1>10, <1>11, <1>12, <1>13,
       <1>14, <1>15, <1>16, <1>17, <1>18 DEF Next

\* The invariant holds in every reachable state.
LEMMA Inductive == Spec => []IInv
  BY InitInv, NextInv, PTL DEF Spec

\* The claim row, the ledger and every attempt's place stay well formed, and an
\* attempt that is about to consume has a credit.
THEOREM TypeCorrect == Spec => []RedeemTypeOK
  <1>1. IInv => RedeemTypeOK
    BY DEF IInv
  <1> QED  BY Inductive, <1>1, PTL

\* serialize_reset_credit_redeem: however long a section takes and however its
\* statements are delayed by up to Lag, no two attempts of any replicas are in
\* the section at once, as long as at most MaxMisses renewals in a row fail.
THEOREM SectionIsExclusive == Spec => []SectionExclusive
  <1>1. IInv => SectionExclusive
    BY GuardedExcludes DEF IInv
  <1> QED  BY Inductive, <1>1, PTL

------------------------------------------------------------------------------
(* The refinement. *)

\* What the ids stand for as the attempt in the section sees it.
View(p, i) == IF Resolved(p) /\ IdOf[p] = i THEN credit[p] ELSE Pinned(i)

\* The owner and the chosen credits, without CHOOSE: at most one attempt is in
\* the section, and only it has resolved anything.
Seen ==
    /\ \A p \in Attempts : InSection(p) => Owner = p /\ Chosen = [i \in Ids |-> View(p, i)]
    /\ (\A p \in Attempts : ~InSection(p)) => Owner = None /\ Chosen = [i \in Ids |-> Pinned(i)]

\* In a reachable state the refinement mapping is what the section's attempt sees.
LEMMA SeenHolds == IInv => Seen
  <1> SUFFICES ASSUME IInv PROVE Seen
    OBVIOUS
  <1>1. \A p \in Attempts : Resolved(p) => InSection(p)
    BY DEF Resolved, InSection, Section
  <1>2. SectionExclusive
    BY GuardedExcludes DEF IInv
  <1>3. ASSUME NEW p \in Attempts, InSection(p)
        PROVE  Owner = p /\ Chosen = [i \in Ids |-> View(p, i)]
    <2>1. Owner = p
      BY <1>2, <1>3 DEF Owner, SectionExclusive
    <2>2. ASSUME NEW i \in Ids
          PROVE  (IF \E q \in Attempts : Resolved(q) /\ IdOf[q] = i
                  THEN credit[CHOOSE q \in Attempts : Resolved(q) /\ IdOf[q] = i]
                  ELSE Pinned(i)) = View(p, i)
      <3>1. \A q \in Attempts : Resolved(q) => q = p
        BY <1>1, <1>2, <1>3 DEF SectionExclusive
      <3>2. CASE Resolved(p) /\ IdOf[p] = i
        <4>1. (CHOOSE q \in Attempts : Resolved(q) /\ IdOf[q] = i) = p
          BY <3>1, <3>2
        <4> QED  BY <3>2, <4>1 DEF View
      <3>3. CASE ~(Resolved(p) /\ IdOf[p] = i)
        BY <3>1, <3>3 DEF View
      <3> QED  BY <3>2, <3>3
    <2> QED  BY <2>1, <2>2 DEF Chosen
  <1>4. ASSUME \A p \in Attempts : ~InSection(p)
        PROVE  Owner = None /\ Chosen = [i \in Ids |-> Pinned(i)]
    BY <1>1, <1>4 DEF Owner, Chosen
  <1> QED  BY <1>3, <1>4 DEF Seen

\* The same of the next state.
LEMMA SeenHoldsNext == IInv' => Seen'
  BY SeenHolds, PTL

\* The initial states map to initial states.
LEMMA InitMaps == Init => Promise!Init
  <1> SUFFICES ASSUME Init PROVE Promise!Init
    OBVIOUS
  <1>1. Seen
    BY InitInv, SeenHolds
  <1>2. \A p \in Attempts : ~InSection(p)
    BY DEF Init, InSection, Section
  <1>3. \A i \in Ids : Pinned(i) = None
    BY DEF Init, Pinned, NoRow
  <1>4. Owner = None /\ Chosen = [i \in Ids |-> None]
    BY <1>1, <1>2, <1>3 DEF Seen
  <1>5. Aged = {}
    BY DEF Init, Aged, NoRow
  <1>6. sent = {}
    BY DEF Init
  <1> QED  BY <1>4, <1>5, <1>6 DEF Promise!Init

\* With the same attempt in the section, the same rows and the same view, nothing
\* Redemption shows has changed.
LEMMA SameMaps ==
  ASSUME IInv, IInv', ledger' = ledger,
         \A q \in Attempts : pc'[q] \in Section <=> pc[q] \in Section,
         \A q \in Attempts : InSection(q) => \A i \in Ids : View(q, i)' = View(q, i)
  PROVE  Owner' = Owner /\ Chosen' = Chosen /\ Aged' = Aged
  <1>1. Seen /\ Seen'
    BY SeenHolds, SeenHoldsNext
  <1>2. Aged' = Aged
    BY DEF Aged
  <1>3. CASE \E q \in Attempts : InSection(q)
    <2>1. PICK q \in Attempts : InSection(q)
      BY <1>3
    <2>2. InSection(q)'
      BY <2>1 DEF InSection
    <2>3. Owner = q /\ Chosen = [i \in Ids |-> View(q, i)]
      BY <1>1, <2>1 DEF Seen
    <2>4. Owner' = q /\ Chosen' = [i \in Ids |-> View(q, i)']
      BY <1>1, <2>2 DEF Seen
    <2> QED  BY <1>2, <2>1, <2>3, <2>4
  <1>4. CASE \A q \in Attempts : ~InSection(q)
    <2>1. \A q \in Attempts : ~InSection(q)'
      BY <1>4 DEF InSection
    <2>2. \A i \in Ids : Pinned(i)' = Pinned(i)
      BY DEF Pinned
    <2> QED  BY <1>1, <1>2, <1>4, <2>1, <2>2 DEF Seen
  <1> QED  BY <1>3, <1>4

\* The attempt leaves the section: its id falls back to the row, which says the
\* same or has aged.
LEMMA OutMaps ==
  ASSUME IInv, IInv', UNCHANGED <<ledger, sent>>,
         NEW p \in Attempts, InSection(p), \A q \in Attempts : pc'[q] \notin Section
  PROVE  Promise!Leave
  <1>1. Owner = p /\ Chosen = [i \in Ids |-> View(p, i)]
    BY SeenHolds DEF Seen
  <1>2. \A q \in Attempts : ~InSection(q)'
    BY DEF InSection
  <1>3. Owner' = None /\ Chosen' = [i \in Ids |-> Pinned(i)']
    BY <1>2, SeenHoldsNext DEF Seen
  <1>4. Aged' = Aged
    BY DEF Aged
  <1>5. \A i \in Ids : Pinned(i)' = Pinned(i)
    BY DEF Pinned
  <1>6. Chosen' \in [Ids -> Credits \union {None}]
    BY <1>3, <1>5, PinnedIs DEF IInv
  <1>7. ASSUME NEW i \in Ids
        PROVE  Chosen'[i] = Chosen[i] \/ (i \in Aged /\ Chosen'[i] = None)
    <2>1. Chosen[i] = View(p, i) /\ Chosen'[i] = Pinned(i)
      BY <1>1, <1>3, <1>5
    <2>2. CASE Resolved(p) /\ IdOf[p] = i
      <3>1. i # None
        BY AttemptAssumption
      <3>2. ledger[i].credit = credit[p] /\ credit[p] # None
        BY <2>2, <3>1 DEF IInv, PinKept, RedeemTypeOK, Resolved
      <3>3. Chosen[i] = credit[p]
        BY <2>1, <2>2 DEF View
      <3>4. CASE ledger[i].fresh
        BY <2>1, <3>2, <3>3, <3>4 DEF Pinned
      <3>5. CASE ~ledger[i].fresh
        BY <2>1, <3>2, <3>5 DEF Pinned, Aged
      <3> QED  BY <3>4, <3>5
    <2>3. CASE ~(Resolved(p) /\ IdOf[p] = i)
      BY <2>1, <2>3 DEF View
    <2> QED  BY <2>2, <2>3
  <1>8. p # None
    BY AttemptAssumption
  <1> QED  BY <1>1, <1>3, <1>4, <1>6, <1>7, <1>8 DEF Promise!Leave, Promise!Forgets

\* The abstract variables.
promised == <<Owner, Chosen, Aged, sent>>

\* A step of the attempt in the section that changes no row and resolves what the
\* row said changes nothing Redemption shows.
LEMMA StepMaps ==
  ASSUME IInv, IInv', NEW p \in Attempts, InSection(p),
         NEW next \in Section, NEW c \in Credits \union {None}, Step(p, next, c),
         next \in {"choosing", "consuming", "answering"} => c # None,
         ledger' = ledger,
         \A i \in Ids : View(p, i)' = View(p, i)
  PROVE  Owner' = Owner /\ Chosen' = Chosen /\ Aged' = Aged
  <1>1. /\ pc'[p] = next
        /\ \A q \in Attempts \ {p} : pc'[q] = pc[q] /\ pc'[q] \notin Section
    BY StepKeeps DEF IInv
  <1>2. \A q \in Attempts : pc'[q] \in Section <=> pc[q] \in Section
    BY <1>1 DEF InSection
  <1>3. \A q \in Attempts : InSection(q) => q = p
    BY <1>1 DEF InSection
  <1> QED  BY <1>2, <1>3, SameMaps

\* Taking the claim is entering the section.
LEMMA AcquireMaps ==
  ASSUME IInv, IInv', NEW p \in Attempts, Acquire(p)
  PROVE  Promise!Enter(p)
  <1>1. \A q \in Attempts : ~InSection(q)
    BY AcquireInv DEF InSection
  <1>2. Owner = None /\ Chosen = [i \in Ids |-> Pinned(i)]
    BY <1>1, SeenHolds DEF Seen
  <1>3. pc'[p] = "section"
    BY DEF Acquire, IInv, RedeemTypeOK
  <1>4. InSection(p)' /\ ~Resolved(p)'
    BY <1>3 DEF InSection, Section, Resolved
  <1>5. Owner' = p /\ Chosen' = [i \in Ids |-> View(p, i)']
    BY <1>4, SeenHoldsNext DEF Seen
  <1>6. \A i \in Ids : View(p, i)' = Pinned(i)
    BY <1>4 DEF View, Pinned, Acquire
  <1>7. Aged' = Aged /\ sent' = sent
    BY DEF Aged, Acquire
  <1> QED  BY <1>2, <1>5, <1>6, <1>7 DEF Promise!Enter

\* The lookup, the fetch and the validation resolve what Redemption already
\* shows, or leave.
LEMMA ResolveMaps ==
  ASSUME IInv, IInv', NEW p \in Attempts, LookUp(p) \/ Fetch(p) \/ Validate(p)
  PROVE  Promise!Leave \/ UNCHANGED promised
  <1>1. /\ InSection(p) /\ UNCHANGED <<ledger, sent, available, wire>>
        /\ pc[p] \in {"section", "fetching"}
    BY DEF LookUp, Fetch, Validate, InSection, Section
  <1>2. CASE Leave(p)
    <2>1. \A q \in Attempts : pc'[q] \notin Section
      BY <1>1, <1>2, LeaveKeeps
    <2> QED  BY <1>1, <2>1, OutMaps
  <1> DEFINE Resolves(next, c) ==
        /\ next \in Section /\ c \in Credits \union {None}
        /\ next \in {"choosing", "consuming", "answering"} => c # None
        /\ Step(p, next, c)
        /\ \A i \in Ids :
             (IF (next \in {"consuming", "answering"} \/ (next = "fetching" /\ c # None)) /\ IdOf[p] = i
              THEN c ELSE Pinned(i)) = View(p, i)
  <1>3. ASSUME NEW next, NEW c, Resolves(next, c)
        PROVE  UNCHANGED promised
    <2>1. pc'[p] = next /\ credit'[p] = c
      BY <1>3 DEF Step, IInv, RedeemTypeOK
    <2>2. \A i \in Ids : View(p, i)' = View(p, i)
      <3>1. \A i \in Ids : Pinned(i)' = Pinned(i)
        BY <1>1 DEF Pinned
      <3> QED  BY <1>3, <2>1, <3>1 DEF View, Resolved
    <2> QED  BY <1>1, <1>3, <2>2, StepMaps DEF promised
  <1>4. CASE LookUp(p)
    <2>1. ~Resolved(p) /\ IdOf[p] \in Ids
      BY <1>4, AttemptAssumption DEF LookUp, Resolved, Dashboard
    <2>2. \A i \in Ids : View(p, i) = Pinned(i)
      BY <2>1 DEF View
    <2>3. CASE Step(p, "fetching", Pinned(IdOf[p]))
      <3>1. Resolves("fetching", Pinned(IdOf[p]))
        BY <2>1, <2>2, <2>3, PinnedIs DEF Section, IInv
      <3> QED  BY <1>3, <3>1
    <2> QED  BY <1>2, <1>4, <2>3 DEF LookUp
  <1>5. CASE Fetch(p)
    <2>1. /\ pc[p] = "fetching" /\ credit[p] \in Credits \union {None}
          /\ available \subseteq Credits /\ available \subseteq Nat
      BY <1>5, AttemptAssumption DEF Fetch, IInv, RedeemTypeOK
    <2>2. CASE credit[p] # None /\ Step(p, "consuming", credit[p])
      <3>1. Resolves("consuming", credit[p])
        BY <2>1, <2>2 DEF Section, View, Resolved
      <3> QED  BY <1>3, <3>1
    <2>3. CASE credit[p] = None /\ available # {} /\ Step(p, "choosing", Soonest)
      <3>1. Soonest \in Credits /\ Soonest # None
        BY <2>1, <2>3, MinIn, AttemptAssumption DEF Soonest
      <3>2. Resolves("choosing", Soonest)
        BY <2>1, <2>3, <3>1 DEF Section, View, Resolved
      <3> QED  BY <1>3, <3>2
    <2> QED  BY <1>2, <1>5, <2>2, <2>3 DEF Fetch
  <1>6. CASE Validate(p)
    <2>1. ~Resolved(p) /\ IdOf[p] \notin Ids /\ Wanted[p] \in Credits /\ Wanted[p] # None
      BY <1>6, AttemptAssumption DEF Validate, Resolved, Dashboard
    <2>2. CASE Step(p, "consuming", Wanted[p])
      <3>1. Resolves("consuming", Wanted[p])
        BY <2>1, <2>2 DEF Section, View
      <3> QED  BY <1>3, <3>1
    <2> QED  BY <1>2, <1>6, <2>2 DEF Validate
  <1> QED  BY <1>4, <1>5, <1>6

\* Recording the selected credit is choosing it; the aged rows it purges stood for
\* nothing any more.
LEMMA PinMaps ==
  ASSUME IInv, IInv', NEW p \in Attempts, Pin(p)
  PROVE  /\ Promise!Choose(IdOf[p], credit[p])
         /\ IdOf[p] \in Ids /\ credit[p] \in Credits
  <1>1. /\ IdOf[p] \in Ids /\ credit[p] \in Credits /\ credit[p] # None
        /\ Step(p, "consuming", credit[p])
        /\ ledger' = [i \in Ids |-> IF i = IdOf[p] THEN [credit |-> credit[p], fresh |-> TRUE]
                                    ELSE IF ledger[i].fresh THEN ledger[i] ELSE NoRow]
    BY PinInv
  <1>2. pc[p] = "choosing" /\ InSection(p) /\ ~Resolved(p) /\ sent' = sent
    BY DEF Pin, InSection, Section, Resolved
  <1>3. Owner = p /\ Chosen = [i \in Ids |-> Pinned(i)]
    <2>1. Owner = p /\ Chosen = [i \in Ids |-> View(p, i)]
      BY <1>2, SeenHolds DEF Seen
    <2> QED  BY <1>2, <2>1 DEF View
  <1>4. ~ledger[IdOf[p]].fresh
    BY <1>2 DEF IInv, PinKept
  <1>5. Chosen[IdOf[p]] = None
    BY <1>1, <1>3, <1>4 DEF Pinned
  <1>6. pc'[p] = "consuming" /\ credit'[p] = credit[p]
    BY <1>1 DEF Step, IInv, RedeemTypeOK
  <1>7. InSection(p)' /\ Resolved(p)'
    BY <1>6 DEF InSection, Section, Resolved
  <1>8. Owner' = p /\ Chosen' = [i \in Ids |-> View(p, i)']
    BY <1>7, SeenHoldsNext DEF Seen
  <1>9. \A i \in Ids : View(p, i)' = IF i = IdOf[p] THEN credit[p] ELSE Pinned(i)
    BY <1>1, <1>6, <1>7 DEF View, Pinned, NoRow
  <1>10. Chosen' = [Chosen EXCEPT ![IdOf[p]] = credit[p]]
    BY <1>1, <1>3, <1>8, <1>9
  <1>11. Aged' = {}
    <2>1. \A i \in Ids : ledger'[i].fresh \/ ledger'[i].credit = None
      BY <1>1 DEF NoRow
    <2> QED  BY <2>1 DEF Aged
  <1>12. {j \in Aged : j # IdOf[p] /\ Chosen[j] # None} = {}
    BY <1>3 DEF Aged, Pinned
  <1>13. p # None
    BY AttemptAssumption
  <1> QED  BY <1>1, <1>2, <1>3, <1>5, <1>8, <1>10, <1>11, <1>12, <1>13 DEF Promise!Choose

\* A consume is sent for what the id stands for, or for the credit the caller
\* named.
LEMMA ConsumeMaps ==
  ASSUME IInv, IInv', NEW p \in Attempts, Consume(p)
  PROVE  \/ IdOf[p] \in Ids /\ Promise!Send(IdOf[p])
         \/ credit[p] \in Credits /\ Promise!SendNamed(credit[p])
  <1>1. /\ credit[p] \in Credits /\ credit[p] # None /\ p # None
        /\ InSection(p) /\ Resolved(p) /\ ledger' = ledger
        /\ Step(p, "answering", credit[p])
        /\ sent' = sent \union {<<IdOf[p], credit[p]>>}
    BY ConsumeInv, AttemptAssumption DEF Consume, InSection, Section, Resolved
  <1>2. pc'[p] = "answering" /\ credit'[p] = credit[p]
    BY <1>1 DEF Step, IInv, RedeemTypeOK
  <1>3. Resolved(p)'
    BY <1>2 DEF Resolved
  <1>4. \A i \in Ids : View(p, i)' = View(p, i)
    BY <1>1, <1>2, <1>3 DEF View, Pinned
  <1>5. Owner' = Owner /\ Chosen' = Chosen /\ Aged' = Aged
    <2>1. "answering" \in Section
      BY DEF Section
    <2> QED  BY <1>1, <1>4, <2>1, StepMaps
  <1>6. Owner = p /\ Chosen = [i \in Ids |-> View(p, i)]
    BY <1>1, SeenHolds DEF Seen
  <1>7. CASE IdOf[p] = None
    BY <1>1, <1>5, <1>6, <1>7 DEF Promise!SendNamed
  <1>8. CASE IdOf[p] \in Ids
    <2>1. Chosen[IdOf[p]] = credit[p]
      BY <1>1, <1>6, <1>8 DEF View
    <2> QED  BY <1>1, <1>5, <1>6, <1>8, <2>1 DEF Promise!Send
  <1> QED  BY <1>7, <1>8, AttemptAssumption

\* A row passes its TTL: the id is aged, and stands for nothing unless the attempt
\* in the section has read it.
LEMMA ExpireMaps ==
  ASSUME IInv, IInv', NEW i \in Ids, Expire(i)
  PROVE  Promise!Age(i)
  <1>1. /\ ledger[i].fresh /\ ~ledger'[i].fresh
        /\ \A j \in Ids : ledger'[j].credit = ledger[j].credit
        /\ \A j \in Ids \ {i} : ledger'[j] = ledger[j]
    BY ExpireInv
  <1>2. pc' = pc /\ credit' = credit /\ sent' = sent
    BY DEF Expire
  <1>3. ledger[i].credit # None
    BY <1>1 DEF IInv, RedeemTypeOK
  <1>4. Aged' = Aged \union {i}
    BY <1>1, <1>3 DEF Aged
  <1>5. \A j \in Ids : Pinned(j)' = IF j = i THEN None ELSE Pinned(j)
    BY <1>1 DEF Pinned
  <1>6. CASE \E q \in Attempts : InSection(q)
    <2>1. PICK q \in Attempts : InSection(q)
      BY <1>6
    <2>2. Owner = q /\ Chosen = [j \in Ids |-> View(q, j)]
      BY <2>1, SeenHolds DEF Seen
    <2>3. InSection(q)' /\ (Resolved(q)' <=> Resolved(q))
      BY <1>2, <2>1 DEF InSection, Resolved
    <2>4. Owner' = q /\ Chosen' = [j \in Ids |-> View(q, j)']
      BY <2>3, SeenHoldsNext DEF Seen
    <2>5. CASE Resolved(q) /\ IdOf[q] = i
      <3>1. \A j \in Ids : View(q, j)' = View(q, j)
        BY <1>2, <1>5, <2>3, <2>5 DEF View
      <3>2. Chosen' = Chosen
        BY <2>2, <2>4, <3>1
      <3> QED  BY <1>2, <1>4, <2>2, <2>4, <3>2 DEF Promise!Age
    <2>6. CASE ~(Resolved(q) /\ IdOf[q] = i)
      <3>1. \A j \in Ids : View(q, j)' = IF j = i THEN None ELSE View(q, j)
        BY <1>2, <1>5, <2>3, <2>6 DEF View
      <3>2. Chosen' = [Chosen EXCEPT ![i] = None]
        BY <2>2, <2>4, <3>1
      <3> QED  BY <1>2, <1>4, <2>2, <2>4, <3>2 DEF Promise!Age
    <2> QED  BY <2>5, <2>6
  <1>7. CASE \A q \in Attempts : ~InSection(q)
    <2>1. Owner = None /\ Chosen = [j \in Ids |-> Pinned(j)]
      BY <1>7, SeenHolds DEF Seen
    <2>2. \A q \in Attempts : ~InSection(q)'
      BY <1>2, <1>7 DEF InSection
    <2>3. Owner' = None /\ Chosen' = [j \in Ids |-> Pinned(j)']
      BY <2>2, SeenHoldsNext DEF Seen
    <2>4. Chosen' = [Chosen EXCEPT ![i] = None]
      BY <1>5, <2>1, <2>3
    <2> QED  BY <1>2, <1>4, <2>1, <2>3, <2>4 DEF Promise!Age
  <1> QED  BY <1>6, <1>7

\* A crash of the replica whose attempt is in the section takes it out; any other
\* crash shows nothing.
LEMMA CrashMaps ==
  ASSUME IInv, IInv', NEW r \in Replicas, Crash(r)
  PROVE  Promise!Leave \/ UNCHANGED promised
  <1>1. /\ \A q \in Attempts : \/ pc'[q] = "done" /\ pc[q] # "waiting"
                               \/ pc'[q] = pc[q] /\ credit'[q] = credit[q]
        /\ UNCHANGED <<ledger, sent>>
    BY CrashInv DEF Crash
  <1>2. \A q \in Attempts : pc'[q] \in Section => pc[q] \in Section
    BY <1>1 DEF Section
  <1>3. CASE \E p \in Attempts : InSection(p) /\ pc'[p] \notin Section
    <2>1. PICK p \in Attempts : InSection(p) /\ pc'[p] \notin Section
      BY <1>3
    <2>2. \A q \in Attempts : pc'[q] \notin Section
      BY <1>2, <2>1, GuardedExcludes DEF IInv, SectionExclusive, InSection
    <2> QED  BY <1>1, <2>1, <2>2, OutMaps
  <1>4. CASE \A p \in Attempts : InSection(p) => pc'[p] \in Section
    <2>1. \A q \in Attempts : pc'[q] \in Section <=> pc[q] \in Section
      BY <1>2, <1>4 DEF InSection
    <2>2. ASSUME NEW q \in Attempts, InSection(q), NEW i \in Ids PROVE View(q, i)' = View(q, i)
      <3>1. pc'[q] = pc[q] /\ credit'[q] = credit[q]
        BY <1>1, <1>4, <2>2 DEF Section
      <3> QED  BY <1>1, <3>1 DEF View, Resolved, Pinned
    <2> QED  BY <1>1, <2>1, <2>2, SameMaps DEF promised
  <1> QED  BY <1>3, <1>4

\* A step outside the section, of the heartbeat or of upstream shows nothing.
LEMMA HiddenMaps ==
  ASSUME IInv, IInv', UNCHANGED <<ledger, sent, credit>>,
         \A q \in Attempts : pc'[q] = pc[q] \/ (pc[q] \notin Section /\ pc'[q] \notin Section)
  PROVE  UNCHANGED promised
  <1>1. \A q \in Attempts : pc'[q] \in Section <=> pc[q] \in Section
    OBVIOUS
  <1>2. ASSUME NEW q \in Attempts, InSection(q), NEW i \in Ids PROVE View(q, i)' = View(q, i)
    BY <1>2 DEF View, Resolved, Pinned, InSection
  <1> QED  BY <1>1, <1>2, SameMaps DEF promised

\* Every step maps to a step of Redemption or to a stutter.
LEMMA NextMaps == IInv /\ IInv' /\ [Next]_vars => [Promise!Next]_promised
  <1> SUFFICES ASSUME IInv, IInv', [Next]_vars PROVE Promise!Next \/ UNCHANGED promised
    OBVIOUS
  <1>1. ASSUME NEW p \in Attempts, Acquire(p) PROVE Promise!Next
    BY <1>1, AcquireMaps DEF Promise!Next
  <1>2. ASSUME NEW p \in Attempts, AcquireTimesOut(p) \/ Release(p) PROVE UNCHANGED promised
    BY <1>2, HiddenMaps DEF AcquireTimesOut, Release, Section, IInv, RedeemTypeOK
  <1>3. ASSUME NEW p \in Attempts, Renew(p) \/ RenewFails(p) PROVE UNCHANGED promised
    BY <1>3, HiddenMaps DEF Renew, RenewFails
  <1>4. ASSUME NEW p \in Attempts, NotReady(p) \/ FetchFails(p) \/ Answered(p)
        PROVE  Promise!Next
    <2>1. InSection(p) /\ Leave(p) /\ UNCHANGED <<ledger, available, wire, sent>>
      BY <1>4 DEF NotReady, FetchFails, Answered, InSection, Section
    <2>2. \A q \in Attempts : pc'[q] \notin Section
      BY <2>1, LeaveKeeps
    <2> QED  BY <2>1, <2>2, OutMaps DEF Promise!Next
  <1>5. ASSUME NEW p \in Attempts, LookUp(p) \/ Fetch(p) \/ Validate(p)
        PROVE  Promise!Next \/ UNCHANGED promised
    BY <1>5, ResolveMaps DEF Promise!Next
  <1>6. ASSUME NEW p \in Attempts, Pin(p) PROVE Promise!Next
    BY <1>6, PinMaps DEF Promise!Next
  <1>7. ASSUME NEW p \in Attempts, Consume(p) PROVE Promise!Next
    BY <1>7, ConsumeMaps DEF Promise!Next
  <1>8. ASSUME Tick PROVE UNCHANGED promised
    BY <1>8, HiddenMaps DEF Tick
  <1>9. ASSUME NEW m \in wire, UpstreamTakes(m) PROVE UNCHANGED promised
    BY <1>9, HiddenMaps DEF UpstreamTakes
  <1>10. ASSUME NEW r \in Replicas, Crash(r) PROVE Promise!Next \/ UNCHANGED promised
    BY <1>10, CrashMaps DEF Promise!Next
  <1>11. ASSUME NEW i \in Ids, Expire(i) PROVE Promise!Next
    BY <1>11, ExpireMaps DEF Promise!Next
  <1>12. CASE UNCHANGED vars
    BY <1>12, HiddenMaps DEF vars
  <1> QED
    BY <1>1, <1>2, <1>3, <1>4, <1>5, <1>6, <1>7, <1>8, <1>9, <1>10, <1>11, <1>12 DEF Next

\* The leased claim row, its heartbeat and the ledger implement Redemption: one
\* attempt at a time, an id stands for one credit until its record is a day old,
\* and only that credit is sent for it, across retries, crashes and lost answers.
THEOREM Refinement == Spec => RedeemsAsPromised
  <1>1. IInv /\ IInv' /\ [Next]_vars => [Promise!Next]_<<Owner, Chosen, Aged, sent>>
    BY NextMaps DEF promised
  <1> QED  BY Inductive, InitMaps, <1>1, PTL DEF Spec, RedeemsAsPromised, Promise!Spec
=============================================================================
