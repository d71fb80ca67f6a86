------------------------ MODULE AccountLeasesProofs ------------------------
(***************************************************************************)
(* Proofs about AccountLeases, for any number of requests and accounts,    *)
(* any caps, TTLs and budgets.                                             *)
(***************************************************************************)
EXTENDS AccountLeases, FiniteSetTheorems, TLAPS

\* The counters of a runtime map count its leases by kind.
CountOK(rt) ==
    \A a \in Accounts, k \in Kinds :
        rt[a].inflight[k] = Cardinality(OfKind(rt[a].leases, k))

\* What rt may differ in from the present runtime: leases are gone, those of
\* requests other than r because they were stale, and no counter went up.
Shrunk(rt, r) ==
    /\ rt \in RuntimeStates
    /\ CountOK(rt)
    /\ \A a \in Accounts :
        /\ rt[a].leases \subseteq runtime[a].leases
        /\ \A k \in Kinds : rt[a].inflight[k] <= runtime[a].inflight[k]
        /\ \A q \in runtime[a].leases :
            q # r /\ q \notin rt[a].leases => age[q] >= StaleTtl(LeaseKind(q))

\* A request that holds an account has its lease there, unless it is stale.
GoneOnlyIfStale ==
    \A r \in Requests :
        req[r].held # NoAccount /\ r \notin runtime[req[r].held].leases
            => age[r] >= StaleTtl(LeaseKind(r))

\* A request gets an account at the end of a lock section and not before.
HeldOnlyLate ==
    \A r \in Requests :
        req[r].held # NoAccount => req[r].pc \in {"persisting", "holding", "orphan"}

\* An attempt that is yet to be counted is below the limit; the sticky path has
\* counted it before it chooses.
AttemptsLeft ==
    \A r \in Requests :
        /\ req[r].pc \in {"loading", "selecting"} => req[r].attempt < MaxSelectionAttempts
        /\ req[r].pc = "choosing" => req[r].mode = "sticky"

\* The parts of the invariant that speak about the leases.
LeaseInv ==
    /\ InflightMatchesLeases
    /\ LeaseHasOwner
    /\ GoneOnlyIfStale
    /\ CapNeverExceeded
    /\ ReserveLeftFree

IInv == TypeOK /\ HeldOnlyLate /\ AttemptsLeft /\ LeaseInv

-----------------------------------------------------------------------------
(* The operations on the runtime map *)

\* A part of the requests is finite.
LEMMA FiniteLeases ==
    ASSUME NEW S \in SUBSET Requests
    PROVE  IsFiniteSet(S) /\ Cardinality(S) \in Nat
  BY LeaseAssumption, FS_Subset, FS_CardinalityType

\* Every request's lease has one of the two kinds.
LEMMA KindOfRequest ==
    ASSUME NEW r
    PROVE  LeaseKind(r) \in Kinds
  BY DEF LeaseKind, Kind, Kinds

\* _acquire_account_lease_locked adds one lease and counts it.
LEMMA AcquiredCounts ==
    ASSUME NEW rt \in RuntimeStates, CountOK(rt), NEW a \in Accounts,
           NEW r \in Requests, r \notin rt[a].leases
    PROVE  /\ Acquired(rt, a, r) \in RuntimeStates
           /\ CountOK(Acquired(rt, a, r))
  <1> DEFINE new == Acquired(rt, a, r)
  <1>1. /\ \A b \in Accounts : b # a => new[b] = rt[b]
        /\ new[a].leases = rt[a].leases \cup {r}
        /\ \A k \in Kinds : new[a].inflight[k] =
             IF k = LeaseKind(r) THEN rt[a].inflight[k] + 1 ELSE rt[a].inflight[k]
    BY KindOfRequest DEF Acquired, RuntimeStates
  <1>2. new \in RuntimeStates
    <2>1. [rt[a].inflight EXCEPT ![LeaseKind(r)] = @ + 1] \in [Kinds -> Nat]
      BY KindOfRequest DEF RuntimeStates
    <2> QED  BY <2>1 DEF Acquired, RuntimeStates
  <1>3. ASSUME NEW k \in Kinds
        PROVE  new[a].inflight[k] = Cardinality(OfKind(new[a].leases, k))
    <2>1. OfKind(rt[a].leases, k) \in SUBSET Requests
      BY DEF OfKind, RuntimeStates
    <2>2. CASE k = LeaseKind(r)
      <3>1. OfKind(new[a].leases, k) = OfKind(rt[a].leases, k) \cup {r}
        BY <1>1, <2>2 DEF OfKind
      <3>2. r \notin OfKind(rt[a].leases, k)
        BY DEF OfKind
      <3>3. Cardinality(OfKind(new[a].leases, k)) = Cardinality(OfKind(rt[a].leases, k)) + 1
        BY <2>1, <3>1, <3>2, FiniteLeases, FS_AddElement
      <3> QED  BY <1>1, <2>2, <3>3 DEF CountOK
    <2>3. CASE k # LeaseKind(r)
      <3>1. OfKind(new[a].leases, k) = OfKind(rt[a].leases, k)
        BY <1>1, <2>3 DEF OfKind
      <3> QED  BY <1>1, <2>3, <3>1 DEF CountOK
    <2> QED  BY <2>2, <2>3
  <1>4. CountOK(new)
    BY <1>1, <1>3, ZenonT(30) DEF CountOK
  <1> QED  BY <1>2, <1>4

\* _release_account_lease_locked takes the lease away, counts it down by one,
\* and changes nothing when the lease is already gone.
LEMMA ReleasedCounts ==
    ASSUME TypeOK, CountOK(runtime), NEW r \in Requests,
           NEW a \in Accounts \cup {NoAccount},
           \A b \in Accounts : r \in runtime[b].leases => b = a
    PROVE  /\ Shrunk(Released(runtime, a, r), r)
           /\ \A b \in Accounts : r \notin Released(runtime, a, r)[b].leases
  <1>0. runtime \in RuntimeStates
    BY DEF TypeOK
  <1>1. CASE a = NoAccount \/ r \notin runtime[a].leases
    <2>1. Released(runtime, a, r) = runtime
      BY <1>1 DEF Released
    <2>2. \A b \in Accounts : r \notin runtime[b].leases
      BY <1>1, LeaseAssumption
    <2>3. \A b \in Accounts, k \in Kinds : runtime[b].inflight[k] \in Nat
      BY <1>0 DEF RuntimeStates
    <2> QED  BY <1>0, <2>1, <2>2, <2>3 DEF Shrunk
  <1>2. CASE a \in Accounts /\ r \in runtime[a].leases
    <2> DEFINE new == Released(runtime, a, r)
    <2>0. a # NoAccount
      BY <1>2, LeaseAssumption
    <2>1. /\ \A b \in Accounts : b # a => new[b] = runtime[b]
          /\ new[a].leases = runtime[a].leases \ {r}
          /\ \A k \in Kinds : new[a].inflight[k] =
               IF k = LeaseKind(r) THEN NotNegative(runtime[a].inflight[k] - 1)
                                   ELSE runtime[a].inflight[k]
      BY <1>0, <1>2, <2>0, KindOfRequest DEF Released, RuntimeStates
    <2>2. new \in RuntimeStates
      <3>1. [runtime[a].inflight EXCEPT ![LeaseKind(r)] = NotNegative(@ - 1)] \in [Kinds -> Nat]
        BY <1>0, <1>2, KindOfRequest DEF RuntimeStates, NotNegative
      <3> QED  BY <1>0, <1>2, <2>0, <3>1 DEF Released, RuntimeStates
    <2>3. ASSUME NEW k \in Kinds
          PROVE  /\ new[a].inflight[k] = Cardinality(OfKind(new[a].leases, k))
                 /\ new[a].inflight[k] <= runtime[a].inflight[k]
      <3>1. /\ OfKind(runtime[a].leases, k) \in SUBSET Requests
            /\ runtime[a].inflight[k] \in Nat
            /\ runtime[a].inflight[k] = Cardinality(OfKind(runtime[a].leases, k))
        BY <1>0, <1>2 DEF OfKind, RuntimeStates, CountOK
      <3>2. CASE k = LeaseKind(r)
        <4>1. OfKind(new[a].leases, k) = OfKind(runtime[a].leases, k) \ {r}
          BY <2>1 DEF OfKind
        <4>2. r \in OfKind(runtime[a].leases, k)
          BY <1>2, <3>2 DEF OfKind
        <4>3. /\ Cardinality(OfKind(new[a].leases, k)) = Cardinality(OfKind(runtime[a].leases, k)) - 1
              /\ Cardinality(OfKind(new[a].leases, k)) \in Nat
          BY <3>1, <4>1, <4>2, FiniteLeases, FS_RemoveElement, FS_CardinalityType
        <4> QED  BY <2>1, <3>1, <3>2, <4>3 DEF NotNegative
      <3>3. CASE k # LeaseKind(r)
        <4>1. OfKind(new[a].leases, k) = OfKind(runtime[a].leases, k)
          BY <2>1, <3>3 DEF OfKind
        <4> QED  BY <2>1, <3>1, <3>3, <4>1
      <3> QED  BY <3>2, <3>3
    <2>4. CountOK(new)
      BY <2>1, <2>3, ZenonT(30) DEF CountOK
    <2>5. \A b \in Accounts, k \in Kinds : new[b].inflight[k] <= runtime[b].inflight[k]
      <3>1. \A b \in Accounts, k \in Kinds : runtime[b].inflight[k] \in Nat
        BY <1>0 DEF RuntimeStates
      <3> QED  BY <2>1, <2>3, <3>1
    <2>6. \A b \in Accounts : r \notin new[b].leases
      BY <2>1
    <2>7. \A b \in Accounts : \A q \in runtime[b].leases : q # r => q \in new[b].leases
      BY <2>1
    <2>8. \A b \in Accounts : new[b].leases \subseteq runtime[b].leases
      BY <2>1
    <2> QED  BY <2>2, <2>4, <2>5, <2>6, <2>7, <2>8 DEF Shrunk
  <1> QED  BY <1>1, <1>2

\* _reclaim_stale_account_leases_locked takes away the stale leases and counts
\* each of them down.
LEMMA ReclaimedCounts ==
    ASSUME TypeOK, CountOK(runtime), NEW r \in Requests
    PROVE  Shrunk(Reclaimed(runtime), r)
  <1> DEFINE new == Reclaimed(runtime)
  <1>0. runtime \in RuntimeStates
    BY DEF TypeOK
  <1>1. ASSUME NEW a \in Accounts, NEW k \in Kinds
        PROVE  /\ new[a].inflight[k] = Cardinality(OfKind(new[a].leases, k))
               /\ new[a].inflight[k] <= runtime[a].inflight[k]
               /\ new[a].inflight[k] \in Nat
    <2> DEFINE before == OfKind(runtime[a].leases, k)
               gone == OfKind(runtime[a].leases \cap Stale, k)
    <2>1. /\ before \in SUBSET Requests
          /\ gone \in SUBSET before
          /\ before \cap gone = gone
          /\ before \ gone \in SUBSET before
          /\ OfKind(new[a].leases, k) = before \ gone
      BY <1>0 DEF OfKind, RuntimeStates, Reclaimed
    <2>2. /\ runtime[a].inflight[k] = Cardinality(before)
          /\ new[a].inflight[k] = NotNegative(runtime[a].inflight[k] - Cardinality(gone))
      BY ZenonT(30) DEF CountOK, Reclaimed
    <2>3. IsFiniteSet(before) /\ Cardinality(before) \in Nat
      BY <2>1, FiniteLeases
    <2>4. /\ Cardinality(before \ gone) = Cardinality(before) - Cardinality(before \cap gone)
          /\ IsFiniteSet(before \ gone)
      BY <2>3, FS_Difference, ZenonT(30)
    <2>5. Cardinality(before \ gone) \in Nat
      BY <2>4, FS_CardinalityType
    <2>6. Cardinality(gone) \in Nat
      BY <2>1, <2>3, FS_Subset, FS_CardinalityType, ZenonT(30)
    <2>7. /\ Cardinality(OfKind(new[a].leases, k)) = Cardinality(before) - Cardinality(gone)
          /\ Cardinality(OfKind(new[a].leases, k)) \in Nat
      BY <2>1, <2>4, <2>5, ZenonT(30)
    <2> HIDE DEF new, before, gone
    <2> QED  BY <2>2, <2>3, <2>6, <2>7 DEF NotNegative
  <1>2. \A a \in Accounts : new[a].leases = runtime[a].leases \ Stale
    BY DEF Reclaimed
  <1>3. new \in RuntimeStates
    <2>1. ASSUME NEW a \in Accounts
          PROVE  new[a] \in [leases : SUBSET Requests, inflight : [Kinds -> Nat]]
      <3>1. new[a] = [leases |-> new[a].leases, inflight |-> new[a].inflight]
        BY DEF Reclaimed
      <3>2. new[a].leases \in SUBSET Requests
        BY <1>0, <1>2 DEF RuntimeStates
      <3>3. new[a].inflight \in [Kinds -> Nat]
        <4>1. new[a].inflight = [k \in Kinds |-> new[a].inflight[k]]
          BY ZenonT(30) DEF Reclaimed
        <4> HIDE DEF new
        <4> QED  BY <1>1, <4>1
      <3> HIDE DEF new
      <3> QED  BY <3>1, <3>2, <3>3
    <2>2. new = [a \in Accounts |-> new[a]]
      BY DEF Reclaimed
    <2> HIDE DEF new
    <2> QED  BY <2>1, <2>2 DEF RuntimeStates
  <1>4. CountOK(new)
    BY <1>1 DEF CountOK
  <1>5. \A a \in Accounts : \A q \in runtime[a].leases :
            q \notin new[a].leases => age[q] >= StaleTtl(LeaseKind(q))
    BY <1>2 DEF Stale
  <1>6. Shrunk(new, r)
    <2> HIDE DEF new
    <2> QED  BY <1>1, <1>2, <1>3, <1>4, <1>5 DEF Shrunk
  <1> QED  BY <1>6

\* _prune_runtime forgets only accounts without a lease, so it changes no
\* counter.
LEMMA PrunedCounts ==
    ASSUME TypeOK, NEW r \in Requests, NEW rt, Shrunk(rt, r), NEW known
    PROVE  Shrunk(Pruned(rt, known), r)
  <1> DEFINE new == Pruned(rt, known)
  <1>0. rt \in RuntimeStates /\ runtime \in RuntimeStates
    BY DEF TypeOK, Shrunk
  <1>1. FreshRuntime \in [leases : SUBSET Requests, inflight : [Kinds -> Nat]]
    BY DEF FreshRuntime
  <1>2. new \in RuntimeStates
    BY <1>0, <1>1 DEF Pruned, RuntimeStates
  <1>3. ASSUME NEW a \in Accounts
        PROVE  /\ new[a].leases = rt[a].leases
               /\ \A k \in Kinds : new[a].inflight[k] = rt[a].inflight[k]
    <2>1. CASE new[a] = FreshRuntime /\ rt[a].leases = {}
      <3>1. \A k \in Kinds : OfKind(rt[a].leases, k) = {}
        BY <2>1 DEF OfKind
      <3>2. \A k \in Kinds : rt[a].inflight[k] = 0
        BY <3>1, FS_EmptySet, ZenonT(30) DEF Shrunk, CountOK
      <3> QED  BY <2>1, <3>2 DEF FreshRuntime
    <2>2. CASE new[a] = rt[a]
      BY <2>2
    <2> QED  BY <2>1, <2>2 DEF Pruned
  <1>4. CountOK(new)
    BY <1>3 DEF CountOK, Shrunk
  <1>5. Shrunk(new, r)
    <2> HIDE DEF new
    <2> QED  BY <1>2, <1>3, <1>4 DEF Shrunk
  <1> QED  BY <1>5

\* Doing nothing shrinks nothing.
LEMMA RuntimeShrunk ==
    ASSUME TypeOK, CountOK(runtime), NEW r \in Requests
    PROVE  Shrunk(runtime, r)
  <1>1. \A a \in Accounts, k \in Kinds : runtime[a].inflight[k] \in Nat
    BY DEF TypeOK, RuntimeStates
  <1> QED  BY <1>1 DEF Shrunk, TypeOK

\* The two calls that open the lock sections of a selection.
LEMMA SweptShrunk ==
    ASSUME TypeOK, CountOK(runtime), NEW r \in Requests, NEW known
    PROVE  Shrunk(Swept(known), r)
  BY ReclaimedCounts, PrunedCounts DEF Swept

-----------------------------------------------------------------------------
(* The shapes a step can have, as far as leases are concerned *)

\* The ordinary streams that hold a lease on account a of a runtime map.
Ordinary(rt, a) == {q \in rt[a].leases : req[q].class = "stream"}

\* Ordinary streams are counted as streams.
LEMMA OrdinaryCounted ==
    ASSUME TypeOK, NEW rt \in RuntimeStates, CountOK(rt), NEW a \in Accounts
    PROVE  /\ Cardinality(Ordinary(rt, a)) \in Nat
           /\ Cardinality(Ordinary(rt, a)) <= rt[a].inflight["stream"]
  <1>1. /\ Ordinary(rt, a) \in SUBSET OfKind(rt[a].leases, "stream")
        /\ OfKind(rt[a].leases, "stream") \in SUBSET Requests
        /\ Ordinary(rt, a) \in SUBSET Requests
    BY DEF Ordinary, OfKind, LeaseKind, Kind, RuntimeStates
  <1>2. rt[a].inflight["stream"] = Cardinality(OfKind(rt[a].leases, "stream"))
    BY DEF CountOK, Kinds
  <1> QED  BY <1>1, <1>2, FiniteLeases, FS_Subset

\* Losing leases leaves no more ordinary streams than before.
LEMMA OrdinaryShrinks ==
    ASSUME TypeOK, NEW r \in Requests, NEW rt, Shrunk(rt, r), NEW a \in Accounts
    PROVE  /\ Cardinality(Ordinary(rt, a)) \in Nat
           /\ Cardinality(Ordinary(runtime, a)) \in Nat
           /\ Cardinality(Ordinary(rt, a)) <= Cardinality(Ordinary(runtime, a))
  <1>1. /\ Ordinary(runtime, a) \in SUBSET Requests
        /\ Ordinary(rt, a) \in SUBSET Ordinary(runtime, a)
        /\ Ordinary(rt, a) \in SUBSET Requests
    BY DEF Ordinary, Shrunk, TypeOK, RuntimeStates
  <1> QED  BY <1>1, FiniteLeases, FS_Subset

\* A step of r that leaves r without a lease.
LEMMA NoLeaseStep ==
    ASSUME TypeOK, TypeOK', LeaseInv, NEW r \in Requests, NEW rt, Shrunk(rt, r),
           runtime' = rt,
           \A a \in Accounts : r \notin rt[a].leases,
           req'[r].held = NoAccount,
           \A q \in Requests : q # r => req'[q] = req[q] /\ age'[q] = age[q]
    PROVE  LeaseInv'
  <1>0. runtime \in RuntimeStates /\ rt \in RuntimeStates
    BY DEF TypeOK, Shrunk
  <1>1. \A a \in Accounts : \A q \in rt[a].leases :
            /\ q \in Requests /\ q # r
            /\ q \in runtime[a].leases
            /\ req'[q] = req[q] /\ age'[q] = age[q]
    BY <1>0 DEF Shrunk, RuntimeStates
  <1>2. InflightMatchesLeases'
    <2>1. ASSUME NEW a \in Accounts, NEW k \in Kinds
          PROVE  LeasesOf(a, k)' = OfKind(rt[a].leases, k)
      BY <1>1 DEF LeasesOf, OfKind, LeaseKind
    <2> QED  BY <2>1 DEF InflightMatchesLeases, Shrunk, CountOK
  <1>3. LeaseHasOwner'
    BY <1>1 DEF LeaseInv, LeaseHasOwner
  <1>4. GoneOnlyIfStale'
    <2> SUFFICES ASSUME NEW q \in Requests, req'[q].held # NoAccount,
                        q \notin rt[req'[q].held].leases
                 PROVE  age'[q] >= StaleTtl(LeaseKind(q)')
      BY DEF GoneOnlyIfStale, LeaseKind, StaleTtl
    <2>1. q # r /\ req'[q] = req[q] /\ age'[q] = age[q]
      OBVIOUS
    <2>2. req[q].held \in Accounts
      BY <2>1 DEF TypeOK, RequestStates
    <2>3. CASE q \in runtime[req[q].held].leases
      BY <2>1, <2>2, <2>3 DEF Shrunk, LeaseKind
    <2>4. CASE q \notin runtime[req[q].held].leases
      BY <2>1, <2>4 DEF LeaseInv, GoneOnlyIfStale, LeaseKind
    <2> QED  BY <2>3, <2>4
  <1>5. CapNeverExceeded'
    <2> SUFFICES ASSUME NEW a \in Accounts, NEW k \in Kinds, Limited(k)
                 PROVE  \E caps \in Shares : rt[a].inflight[k] <= caps[k]
      BY DEF CapNeverExceeded, Limited
    <2>1. PICK caps \in Shares : runtime[a].inflight[k] <= caps[k]
      BY DEF LeaseInv, CapNeverExceeded
    <2>2. /\ rt[a].inflight[k] <= runtime[a].inflight[k]
          /\ rt[a].inflight[k] \in Nat /\ runtime[a].inflight[k] \in Nat
          /\ caps[k] \in Int
      BY <1>0, LeaseAssumption DEF Shrunk, RuntimeStates
    <2> QED  BY <2>1, <2>2
  <1>6. ReserveLeftFree'
    <2> SUFFICES ASSUME NEW a \in Accounts, Limited("stream")
                 PROVE  \E caps \in Shares :
                            Cardinality({q \in rt[a].leases : req'[q].class = "stream"})
                                <= AtLeastOne(caps["stream"] - NotNegative(RecoveryReserve))
      BY DEF ReserveLeftFree, Limited
    <2>1. PICK caps \in Shares :
                Cardinality(Ordinary(runtime, a))
                    <= AtLeastOne(caps["stream"] - NotNegative(RecoveryReserve))
      BY DEF LeaseInv, ReserveLeftFree, Ordinary
    <2>2. {q \in rt[a].leases : req'[q].class = "stream"} = Ordinary(rt, a)
      BY <1>1 DEF Ordinary
    <2>3. AtLeastOne(caps["stream"] - NotNegative(RecoveryReserve)) \in Int
      BY LeaseAssumption DEF AtLeastOne, NotNegative, Kinds
    <2>4. /\ Cardinality(Ordinary(rt, a)) \in Nat
          /\ Cardinality(Ordinary(runtime, a)) \in Nat
          /\ Cardinality(Ordinary(rt, a)) <= Cardinality(Ordinary(runtime, a))
      BY OrdinaryShrinks
    <2>5. Cardinality(Ordinary(rt, a)) <= AtLeastOne(caps["stream"] - NotNegative(RecoveryReserve))
      BY <2>1, <2>3, <2>4
    <2> QED  BY <2>2, <2>5, ZenonT(30)
  <1> QED  BY <1>2, <1>3, <1>4, <1>5, <1>6 DEF LeaseInv

\* A step that gives r a lease on an account where it found room.
LEMMA AcquireStep ==
    ASSUME TypeOK, TypeOK', LeaseInv, NEW r \in Requests, NEW rt, Shrunk(rt, r),
           NEW a \in Accounts, NEW caps \in Shares,
           \A b \in Accounts : r \notin runtime[b].leases,
           HasRoom(rt, a, req[r].class, caps),
           runtime' = Acquired(rt, a, r),
           req'[r].held = a, req'[r].class = req[r].class,
           \A q \in Requests : q # r => req'[q] = req[q] /\ age'[q] = age[q]
    PROVE  LeaseInv'
  <1>0. /\ runtime \in RuntimeStates /\ rt \in RuntimeStates /\ CountOK(rt)
        /\ \A b \in Accounts : r \notin rt[b].leases
    BY DEF TypeOK, Shrunk
  <1>1. /\ \A b \in Accounts : b # a => runtime'[b] = rt[b]
        /\ runtime'[a].leases = rt[a].leases \cup {r}
        /\ \A k \in Kinds : runtime'[a].inflight[k] =
             IF k = LeaseKind(r) THEN rt[a].inflight[k] + 1 ELSE rt[a].inflight[k]
    BY <1>0, KindOfRequest DEF Acquired, RuntimeStates
  <1>2. \A q \in Requests : req'[q].class = req[q].class
    OBVIOUS
  <1>3. runtime' \in RuntimeStates
    BY DEF TypeOK
  <1>4. \A b \in Accounts : \A q \in rt[b].leases :
            /\ q \in Requests /\ q # r
            /\ q \in runtime[b].leases
            /\ req'[q] = req[q]
    BY <1>0 DEF Shrunk, RuntimeStates
  <1>5. InflightMatchesLeases'
    <2>1. CountOK(runtime')
      BY <1>0, AcquiredCounts
    <2>2. ASSUME NEW b \in Accounts, NEW k \in Kinds
          PROVE  LeasesOf(b, k)' = OfKind(runtime'[b].leases, k)
      BY <1>2, <1>3 DEF LeasesOf, OfKind, LeaseKind, RuntimeStates
    <2> QED  BY <2>1, <2>2 DEF InflightMatchesLeases, CountOK
  <1>6. LeaseHasOwner'
    BY <1>1, <1>4 DEF LeaseInv, LeaseHasOwner
  <1>7. GoneOnlyIfStale'
    <2> SUFFICES ASSUME NEW q \in Requests, req'[q].held # NoAccount,
                        q \notin runtime'[req'[q].held].leases
                 PROVE  age'[q] >= StaleTtl(LeaseKind(q)')
      BY DEF GoneOnlyIfStale, LeaseKind, StaleTtl
    <2>1. q # r /\ req'[q] = req[q] /\ age'[q] = age[q]
      BY <1>1
    <2>2. req[q].held \in Accounts
      BY <2>1 DEF TypeOK, RequestStates
    <2>3. q \notin rt[req[q].held].leases
      BY <1>1, <2>1, <2>2
    <2>4. CASE q \in runtime[req[q].held].leases
      BY <2>1, <2>2, <2>3, <2>4 DEF Shrunk, LeaseKind
    <2>5. CASE q \notin runtime[req[q].held].leases
      BY <2>1, <2>5 DEF LeaseInv, GoneOnlyIfStale, LeaseKind
    <2> QED  BY <2>4, <2>5
  <1>8. CapNeverExceeded'
    <2> SUFFICES ASSUME NEW b \in Accounts, NEW k \in Kinds, Limited(k)
                 PROVE  \E c \in Shares : runtime'[b].inflight[k] <= c[k]
      BY DEF CapNeverExceeded, Limited
    <2>0. /\ rt[b].inflight[k] <= runtime[b].inflight[k]
          /\ rt[b].inflight[k] \in Nat /\ runtime[b].inflight[k] \in Nat
          /\ \A c \in Shares : c[k] \in Int
      BY <1>0, LeaseAssumption DEF Shrunk, RuntimeStates
    <2>1. CASE b = a /\ k = LeaseKind(r)
      <3>1. caps[k] > 0 /\ caps[k] \in Int
        BY <2>0 DEF Limited
      <3>2. rt[a].inflight[k] < caps[k]
        BY <2>0, <2>1, <3>1, LeaseAssumption
           DEF HasRoom, LeaseKind, AtLeastOne, NotNegative, StreamReserveSlots
      <3>3. runtime'[a].inflight[k] = rt[a].inflight[k] + 1
        BY <1>1, <2>1
      <3> QED  BY <2>0, <2>1, <3>1, <3>2, <3>3
    <2>2. CASE ~(b = a /\ k = LeaseKind(r))
      <3>1. runtime'[b].inflight[k] = rt[b].inflight[k]
        BY <1>1, <2>2
      <3>2. PICK c \in Shares : runtime[b].inflight[k] <= c[k]
        BY DEF LeaseInv, CapNeverExceeded
      <3> QED  BY <2>0, <3>1, <3>2
    <2> QED  BY <2>1, <2>2
  <1>9. ReserveLeftFree'
    <2> SUFFICES ASSUME NEW b \in Accounts, Limited("stream")
                 PROVE  \E c \in Shares :
                            Cardinality({q \in runtime'[b].leases : req'[q].class = "stream"})
                                <= AtLeastOne(c["stream"] - NotNegative(RecoveryReserve))
      BY DEF ReserveLeftFree, Limited
    <2>0. \A c \in Shares : /\ c["stream"] \in Int /\ c["stream"] > 0
                            /\ AtLeastOne(c["stream"] - NotNegative(RecoveryReserve)) \in Int
      BY LeaseAssumption DEF AtLeastOne, NotNegative, Kinds, Limited
    <2>1. /\ Cardinality(Ordinary(rt, b)) \in Nat
          /\ Cardinality(Ordinary(runtime, b)) \in Nat
          /\ Cardinality(Ordinary(rt, b)) <= Cardinality(Ordinary(runtime, b))
      BY OrdinaryShrinks
    <2>2. CASE b = a /\ req[r].class = "stream"
      <3>1. {q \in runtime'[b].leases : req'[q].class = "stream"} = Ordinary(rt, a) \cup {r}
        BY <1>1, <1>2, <1>4, <2>2 DEF Ordinary
      <3>2. r \notin Ordinary(rt, a) /\ Ordinary(rt, a) \in SUBSET Requests
        BY <1>0 DEF Ordinary, RuntimeStates
      <3>3. Cardinality(Ordinary(rt, a) \cup {r}) = Cardinality(Ordinary(rt, a)) + 1
        BY <3>2, FiniteLeases, FS_AddElement
      <3>4. Cardinality(Ordinary(rt, a)) <= rt[a].inflight["stream"]
        BY <1>0, OrdinaryCounted
      <3>5. rt[a].inflight["stream"] < AtLeastOne(caps["stream"] - NotNegative(RecoveryReserve))
        BY <2>0, <2>2 DEF HasRoom, Kind, StreamReserveSlots
      <3>6. rt[a].inflight["stream"] \in Nat
        BY <1>0 DEF RuntimeStates, Kinds
      <3>7. Cardinality(Ordinary(rt, a)) + 1 <= AtLeastOne(caps["stream"] - NotNegative(RecoveryReserve))
        BY <2>0, <2>1, <2>2, <3>4, <3>5, <3>6
      <3> QED  BY <3>1, <3>3, <3>7, ZenonT(30)
    <2>3. CASE ~(b = a /\ req[r].class = "stream")
      <3>1. {q \in runtime'[b].leases : req'[q].class = "stream"} = Ordinary(rt, b)
        BY <1>1, <1>2, <1>4, <2>3 DEF Ordinary
      <3>2. PICK c \in Shares :
                Cardinality(Ordinary(runtime, b))
                    <= AtLeastOne(c["stream"] - NotNegative(RecoveryReserve))
        BY DEF LeaseInv, ReserveLeftFree, Ordinary
      <3>3. Cardinality(Ordinary(rt, b)) <= AtLeastOne(c["stream"] - NotNegative(RecoveryReserve))
        BY <2>0, <2>1, <3>2
      <3> QED  BY <3>1, <3>3, ZenonT(30)
    <2> QED  BY <2>2, <2>3
  <1> QED  BY <1>5, <1>6, <1>7, <1>8, <1>9 DEF LeaseInv

\* A step that touches no lease: time passes, an operator acts, or a request
\* goes on with the account it holds.
LEMMA KeepStep ==
    ASSUME TypeOK, TypeOK', LeaseInv, runtime' = runtime,
           \A q \in Requests : /\ req'[q].held = req[q].held
                               /\ req'[q].class = req[q].class
                               /\ age'[q] >= age[q]
    PROVE  LeaseInv'
  <1>0. runtime \in RuntimeStates
    BY DEF TypeOK
  <1>1. \A a \in Accounts : \A q \in runtime[a].leases :
            q \in Requests /\ req'[q].class = req[q].class /\ req'[q].held = req[q].held
    BY <1>0 DEF RuntimeStates
  <1>2. InflightMatchesLeases'
    <2>1. ASSUME NEW a \in Accounts, NEW k \in Kinds
          PROVE  LeasesOf(a, k)' = LeasesOf(a, k)
      BY <1>1 DEF LeasesOf, OfKind, LeaseKind
    <2> QED  BY <2>1 DEF LeaseInv, InflightMatchesLeases
  <1>3. LeaseHasOwner'
    BY <1>1 DEF LeaseInv, LeaseHasOwner
  <1>4. GoneOnlyIfStale'
    <2> SUFFICES ASSUME NEW q \in Requests, req[q].held # NoAccount,
                        q \notin runtime[req[q].held].leases
                 PROVE  age'[q] >= StaleTtl(LeaseKind(q)')
      BY DEF GoneOnlyIfStale, LeaseKind, StaleTtl
    <2>1. age[q] >= StaleTtl(LeaseKind(q))
      BY DEF LeaseInv, GoneOnlyIfStale
    <2>2. LeaseKind(q)' = LeaseKind(q)
      BY DEF LeaseKind
    <2>3. age[q] \in Int /\ age'[q] \in Int /\ StaleTtl(LeaseKind(q)) \in Int
      BY LeaseAssumption DEF TypeOK, StaleTtl, Larger
    <2> QED  BY <2>1, <2>2, <2>3
  <1>5. CapNeverExceeded'
    BY DEF LeaseInv, CapNeverExceeded, Limited
  <1>6. ReserveLeftFree'
    <2>1. ASSUME NEW a \in Accounts
          PROVE  {q \in runtime[a].leases : req'[q].class = "stream"} = Ordinary(runtime, a)
      BY <1>1 DEF Ordinary
    <2> QED  BY <2>1 DEF LeaseInv, ReserveLeftFree, Limited, Ordinary
  <1> QED  BY <1>2, <1>3, <1>4, <1>5, <1>6 DEF LeaseInv

-----------------------------------------------------------------------------
(* The inductive invariant *)

\* A request without an account has no lease.
LEMMA NoAccountNoLease ==
    ASSUME TypeOK, LeaseInv, NEW r \in Requests, req[r].held = NoAccount
    PROVE  \A a \in Accounts : r \notin runtime[a].leases
  BY LeaseAssumption DEF LeaseInv, LeaseHasOwner

\* The initial request is a request.
LEMMA IdleType ==
    /\ Idle \in RequestStates
    /\ Idle.pc = "idle" /\ Idle.held = NoAccount
    /\ \A class \in Classes, a \in Accounts :
        /\ Holding(class, a) \in RequestStates
        /\ Holding(class, a).pc = "holding"
        /\ Holding(class, a).class = class
        /\ Holding(class, a).held = a
  <1>1. NoCaps \in Shares
    BY LeaseAssumption DEF NoCaps
  <1>2. 0 \in 0..MaxSelectionAttempts
    BY LeaseAssumption
  <1> QED  BY <1>1, <1>2, ZenonT(30) DEF Idle, Holding, RequestStates, PCs, Classes, Modes, Errors

\* Ages stay in their range when one is reset.
LEMMA MaxAgeType ==
    /\ MaxAge \in Nat
    /\ 0 \in 0..MaxAge
    /\ \A k : StaleTtl(k) \in Nat /\ StaleTtl(k) > 0
  BY LeaseAssumption DEF MaxAge, StaleTtl, Larger

\* Before the first request the invariant holds.
LEMMA InitInv == Init => IInv
  <1> SUFFICES ASSUME Init PROVE IInv
    OBVIOUS
  <1>1. TypeOK
    <2>1. runtime \in RuntimeStates
      BY DEF Init, RuntimeStates, FreshRuntime
    <2>2. req \in [Requests -> RequestStates]
      BY IdleType DEF Init
    <2>3. age \in [Requests -> 0..MaxAge]
      BY MaxAgeType DEF Init
    <2> QED  BY <2>1, <2>2, <2>3 DEF Init, TypeOK
  <1>2. \A a \in Accounts : /\ runtime[a].leases = {}
                            /\ \A k \in Kinds : runtime[a].inflight[k] = 0
    BY DEF Init, FreshRuntime
  <1>3. \A r \in Requests : req[r].held = NoAccount /\ req[r].pc = "idle"
    BY IdleType DEF Init
  <1>4. InflightMatchesLeases
    <2>1. \A a \in Accounts, k \in Kinds : LeasesOf(a, k) = {}
      BY <1>2 DEF LeasesOf, OfKind
    <2> QED  BY <1>2, <2>1, FS_EmptySet DEF InflightMatchesLeases
  <1>5. CapNeverExceeded
    <2>1. \A caps \in Shares, k \in Kinds : caps[k] \in Int
      BY LeaseAssumption
    <2> QED  BY <1>2, <2>1, LeaseAssumption DEF CapNeverExceeded, Limited
  <1>6. ReserveLeftFree
    <2>1. ASSUME NEW a \in Accounts, NEW caps \in Shares
          PROVE  Cardinality({r \in runtime[a].leases : req[r].class = "stream"})
                    <= AtLeastOne(caps["stream"] - NotNegative(RecoveryReserve))
      <3>1. Cardinality({r \in runtime[a].leases : req[r].class = "stream"}) = 0
        BY <1>2, FS_EmptySet
      <3> QED  BY <3>1, LeaseAssumption DEF AtLeastOne, NotNegative, Kinds
    <2> QED  BY <2>1, LeaseAssumption DEF ReserveLeftFree
  <1> QED  BY <1>1, <1>2, <1>3, <1>4, <1>5, <1>6
           DEF IInv, HeldOnlyLate, LeaseInv, LeaseHasOwner, GoneOnlyIfStale, AttemptsLeft

\* The step of a request r that ends up without an account, in state new.
LEMMA Unleased ==
    ASSUME IInv, NEW r \in Requests, NEW rt, Shrunk(rt, r), runtime' = rt,
           \A a \in Accounts : r \notin rt[a].leases,
           NEW new \in RequestStates, new.held = NoAccount,
           new.pc \in {"loading", "selecting"} => new.attempt < MaxSelectionAttempts,
           new.pc = "choosing" => new.mode = "sticky",
           req' = [req EXCEPT ![r] = new],
           age' \in [Requests -> 0..MaxAge],
           \A q \in Requests : q # r => age'[q] = age[q],
           listed' = listed, share' = share
    PROVE  IInv'
  <1>1. TypeOK'
    BY ZenonT(30) DEF IInv, TypeOK, Shrunk
  <1>2. \A q \in Requests : req'[q] = IF q = r THEN new ELSE req[q]
    BY DEF IInv, TypeOK
  <1>3. HeldOnlyLate' /\ AttemptsLeft'
    BY <1>2 DEF IInv, HeldOnlyLate, AttemptsLeft
  <1>4. LeaseInv'
    BY <1>1, <1>2, NoLeaseStep DEF IInv
  <1> QED  BY <1>1, <1>3, <1>4 DEF IInv

\* The step of a request r that gets a lease, in state new.
LEMMA Leased ==
    ASSUME IInv, NEW r \in Requests, NEW rt, Shrunk(rt, r),
           NEW a \in Accounts, NEW caps \in Shares,
           req[r].held = NoAccount,
           HasRoom(rt, a, req[r].class, caps),
           runtime' = Acquired(rt, a, r),
           NEW new \in RequestStates, new.held = a, new.class = req[r].class,
           new.pc \in {"persisting", "holding"},
           req' = [req EXCEPT ![r] = new],
           age' = [age EXCEPT ![r] = 0],
           listed' = listed, share' = share
    PROVE  IInv'
  <1>1. \A b \in Accounts : r \notin runtime[b].leases
    BY NoAccountNoLease DEF IInv
  <1>2. \A b \in Accounts : r \notin rt[b].leases
    BY <1>1 DEF Shrunk
  <1>3. TypeOK'
    <2>1. runtime' \in RuntimeStates
      BY <1>2, AcquiredCounts DEF Shrunk
    <2>2. age' \in [Requests -> 0..MaxAge]
      BY MaxAgeType DEF IInv, TypeOK
    <2> QED  BY <2>1, <2>2 DEF IInv, TypeOK
  <1>4. \A q \in Requests : req'[q] = IF q = r THEN new ELSE req[q]
    BY DEF IInv, TypeOK
  <1>5. HeldOnlyLate' /\ AttemptsLeft'
    BY <1>4 DEF IInv, HeldOnlyLate, AttemptsLeft
  <1>6. \A q \in Requests : q # r => age'[q] = age[q]
    BY DEF IInv, TypeOK
  <1>7. LeaseInv'
    BY <1>1, <1>3, <1>4, <1>6, AcquireStep DEF IInv
  <1> QED  BY <1>3, <1>5, <1>7 DEF IInv

\* The end of a request, and of a failed selection.
LEMMA Finished ==
    ASSUME IInv, NEW r \in Requests, NEW rt, Shrunk(rt, r), runtime' = rt,
           \A a \in Accounts : r \notin rt[a].leases,
           Finish(r), listed' = listed, share' = share
    PROVE  IInv'
  <1>1. age' \in [Requests -> 0..MaxAge] /\ \A q \in Requests : q # r => age'[q] = age[q]
    BY MaxAgeType DEF IInv, TypeOK, Finish
  <1> QED  BY <1>1, IdleType, Unleased, ZenonT(30) DEF Finish

\* A retry gives the lease back.
LEMMA Retried ==
    ASSUME IInv, NEW r \in Requests, Retry(r), req[r].attempt < MaxSelectionAttempts,
           listed' = listed, share' = share
    PROVE  IInv'
  <1> DEFINE new == [req[r] EXCEPT !.pc = "loading", !.held = NoAccount, !.err = "none"]
  <1>1. req[r] \in RequestStates
    BY DEF IInv, TypeOK
  <1>2. /\ new \in RequestStates /\ new.held = NoAccount /\ new.attempt = req[r].attempt
        /\ new.pc # "choosing"
    BY <1>1, ZenonT(30) DEF RequestStates, PCs, Errors
  <1>3. req' = [req EXCEPT ![r] = new]
    BY DEF Retry
  <1>4. age' \in [Requests -> 0..MaxAge] /\ \A q \in Requests : q # r => age'[q] = age[q]
    BY MaxAgeType DEF IInv, TypeOK, Retry
  <1>5. /\ req[r].held \in Accounts \cup {NoAccount}
        /\ \A b \in Accounts : r \in runtime[b].leases => b = req[r].held
        /\ CountOK(runtime)
    BY <1>1 DEF RequestStates, IInv, LeaseInv, LeaseHasOwner, InflightMatchesLeases,
                CountOK, LeasesOf
  <1>6. /\ Shrunk(runtime', r)
        /\ \A b \in Accounts : r \notin runtime'[b].leases
    BY <1>5, ReleasedCounts DEF Retry, IInv
  <1> HIDE DEF new
  <1> QED  BY <1>2, <1>3, <1>4, <1>6, Unleased, ZenonT(30)

\* The lease is given back and the request is over.
LEMMA GivenBack ==
    ASSUME IInv, NEW r \in Requests, runtime' = Released(runtime, req[r].held, r),
           Finish(r), listed' = listed, share' = share
    PROVE  IInv'
  <1>1. /\ req[r].held \in Accounts \cup {NoAccount}
        /\ \A b \in Accounts : r \in runtime[b].leases => b = req[r].held
        /\ CountOK(runtime)
    BY DEF RequestStates, IInv, TypeOK, LeaseInv, LeaseHasOwner, InflightMatchesLeases,
           CountOK, LeasesOf
  <1>2. /\ Shrunk(runtime', r)
        /\ \A b \in Accounts : r \notin runtime'[b].leases
    BY <1>1, ReleasedCounts DEF IInv
  <1> QED  BY <1>2, Finished

\* What the invariant says of a request r that has no account yet.
LEMMA Selecting ==
    ASSUME IInv, NEW r \in Requests, req[r].pc \in {"idle", "direct", "loading", "selecting", "choosing"}
    PROVE  /\ req[r] \in RequestStates
           /\ req[r].held = NoAccount
           /\ CountOK(runtime)
           /\ \A rt : Shrunk(rt, r) => \A a \in Accounts : r \notin rt[a].leases
  <1>1. req[r].held = NoAccount
    BY DEF IInv, HeldOnlyLate
  <1>2. \A a \in Accounts : r \notin runtime[a].leases
    BY <1>1, NoAccountNoLease DEF IInv
  <1> QED  BY <1>1, <1>2 DEF IInv, TypeOK, LeaseInv, InflightMatchesLeases, CountOK, LeasesOf, Shrunk

\* The steps before the lock section of a selection.
LEMMA EarlySteps ==
    ASSUME IInv, NEW r \in Requests
    PROVE  /\ \A class \in Classes, mode \in Modes : Begin(r, class, mode) => IInv'
           /\ LoadInputs(r) => IInv'
           /\ SelectionAborts(r) => IInv'
  <1>0. CountOK(runtime) /\ Shrunk(runtime, r)
    <2>1. CountOK(runtime)
      BY DEF IInv, LeaseInv, InflightMatchesLeases, CountOK, LeasesOf
    <2> QED  BY <2>1, RuntimeShrunk DEF IInv
  <1>1. ASSUME NEW class \in Classes, NEW mode \in Modes, Begin(r, class, mode)
        PROVE  IInv'
    <2> DEFINE new == [Idle EXCEPT !.pc = IF mode = "direct" THEN "direct" ELSE "loading",
                                   !.class = class, !.mode = mode, !.caps = share]
    <2>1. /\ new \in RequestStates /\ new.held = NoAccount /\ new.attempt = 0
          /\ new.pc # "choosing"
      BY IdleType, ZenonT(30) DEF RequestStates, PCs, IInv, TypeOK, Idle
    <2>2. \A a \in Accounts : r \notin runtime[a].leases
      BY <1>0, <1>1, Selecting DEF Begin
    <2>3. age' \in [Requests -> 0..MaxAge] /\ \A q \in Requests : q # r => age'[q] = age[q]
      BY <1>1, MaxAgeType DEF IInv, TypeOK, Begin
    <2>4. /\ req' = [req EXCEPT ![r] = new] /\ runtime' = runtime
          /\ listed' = listed /\ share' = share
      BY <1>1 DEF Begin
    <2>5. new.attempt < MaxSelectionAttempts
      BY <2>1, LeaseAssumption
    <2> HIDE DEF new
    <2> QED  BY <1>0, <2>1, <2>2, <2>3, <2>4, <2>5, Unleased, ZenonT(30)
  <1>2. ASSUME LoadInputs(r)
        PROVE  IInv'
    <2>1. PICK scope \in SUBSET listed,
               caps \in IF req[r].attempt = 0 THEN {req[r].caps, share} ELSE {req[r].caps} :
            req' = [req EXCEPT ![r] = [@ EXCEPT !.pc = "selecting", !.known = listed,
                                                !.scope = scope, !.caps = caps]]
      BY <1>2, ZenonT(30) DEF LoadInputs
    <2> DEFINE new == [req[r] EXCEPT !.pc = "selecting", !.known = listed,
                                     !.scope = scope, !.caps = caps]
    <2>2. req[r] \in RequestStates /\ req[r].held = NoAccount
      BY <1>2, Selecting DEF LoadInputs
    <2>3. caps \in Shares /\ scope \in SUBSET Accounts /\ listed \in SUBSET Accounts
      BY <2>2 DEF IInv, TypeOK, RequestStates
    <2>4. /\ new \in RequestStates /\ new.held = NoAccount /\ new.attempt = req[r].attempt
          /\ new.pc # "choosing"
      BY <2>2, <2>3, ZenonT(30) DEF RequestStates, PCs
    <2>5. req[r].attempt < MaxSelectionAttempts
      BY <1>2 DEF LoadInputs, IInv, AttemptsLeft
    <2>6. \A a \in Accounts : r \notin runtime[a].leases
      BY <1>0, <1>2, Selecting DEF LoadInputs
    <2>7. /\ req' = [req EXCEPT ![r] = new] /\ runtime' = runtime /\ age' = age
          /\ age \in [Requests -> 0..MaxAge] /\ listed' = listed /\ share' = share
      BY <1>2, <2>1, ZenonT(30) DEF LoadInputs, IInv, TypeOK
    <2> HIDE DEF new
    <2> QED  BY <1>0, <2>4, <2>5, <2>6, <2>7, Unleased, ZenonT(30)
  <1>3. ASSUME SelectionAborts(r)
        PROVE  IInv'
    BY <1>0, <1>3, Selecting, Finished DEF SelectionAborts
  <1> QED  BY <1>1, <1>2, <1>3

\* Where ToPersist leads: without an account, or with one.
LEMMA PersistState ==
    ASSUME IInv, NEW r \in Requests, NEW a \in Accounts \cup {NoAccount}, NEW err \in Errors,
           req[r].pc \in {"selecting", "choosing"},
           ToPersist(r, a, err)
    PROVE  \E new \in RequestStates :
              /\ new.held = a /\ new.class = req[r].class /\ new.pc = "persisting"
              /\ req' = [req EXCEPT ![r] = new]
  <1> DEFINE n == IF req[r].mode = "plain" THEN req[r].attempt + 1 ELSE req[r].attempt
             new == [req[r] EXCEPT !.pc = "persisting", !.attempt = n, !.held = a,
                                   !.err = err, !.known = {}, !.scope = {}, !.roomy = {}]
  <1>1. req[r] \in RequestStates
    BY DEF IInv, TypeOK
  <1>2. n \in 0..MaxSelectionAttempts
    <2>1. req[r].attempt \in 0..MaxSelectionAttempts
      BY <1>1 DEF RequestStates
    <2>2. req[r].mode = "plain" => req[r].attempt < MaxSelectionAttempts
      BY DEF IInv, AttemptsLeft
    <2> QED  BY <2>1, <2>2, LeaseAssumption
  <1>3. req' = [req EXCEPT ![r] = new]
    BY DEF ToPersist
  <1> HIDE DEF n
  <1>4. new \in RequestStates /\ new.held = a /\ new.class = req[r].class /\ new.pc = "persisting"
    BY <1>1, <1>2, ZenonT(30) DEF RequestStates, PCs
  <1> HIDE DEF new
  <1> QED  BY <1>3, <1>4, ZenonT(30)

\* The lock sections of a selection.
LEMMA SectionSteps ==
    ASSUME IInv, NEW r \in Requests
    PROVE  /\ SelectPlain(r) => IInv'
           /\ StickyBuild(r) => IInv'
           /\ StickyAcquire(r) => IInv'
           /\ AcquireDirect(r) => IInv'
           /\ CheckOpportunistic(r) => IInv'
  <1>0. /\ CountOK(runtime) /\ Shrunk(runtime, r) /\ Shrunk(Reclaimed(runtime), r)
        /\ Shrunk(Swept(req[r].known), r)
        /\ age \in [Requests -> 0..MaxAge]
    <2>1. CountOK(runtime)
      BY DEF IInv, LeaseInv, InflightMatchesLeases, CountOK, LeasesOf
    <2> QED  BY <2>1, RuntimeShrunk, ReclaimedCounts, SweptShrunk DEF IInv, TypeOK
  <1>a. ASSUME NEW rt, Shrunk(rt, r), req[r].pc \in {"selecting", "choosing"},
               NEW err \in Errors, ToPersist(r, NoAccount, err), runtime' = rt,
               age' = age, listed' = listed, share' = share
        PROVE  IInv'
    <2>1. PICK new \in RequestStates :
            /\ new.held = NoAccount /\ new.pc = "persisting"
            /\ req' = [req EXCEPT ![r] = new]
      BY <1>a, PersistState
    <2>2. \A a \in Accounts : r \notin rt[a].leases
      BY <1>a, Selecting
    <2> QED  BY <1>0, <1>a, <2>1, <2>2, Unleased, ZenonT(30)
  <1>b. ASSUME NEW rt, Shrunk(rt, r), req[r].pc \in {"selecting", "choosing"},
               NEW a \in Accounts, HasRoom(rt, a, req[r].class, req[r].caps),
               ToPersist(r, a, "none"), runtime' = Acquired(rt, a, r),
               age' = [age EXCEPT ![r] = 0], listed' = listed, share' = share
        PROVE  IInv'
    <2>1. PICK new \in RequestStates :
            /\ new.held = a /\ new.class = req[r].class /\ new.pc = "persisting"
            /\ req' = [req EXCEPT ![r] = new]
      BY <1>b, PersistState DEF Errors
    <2>2. req[r].held = NoAccount /\ req[r].caps \in Shares
      BY <1>b, Selecting DEF RequestStates
    <2> QED  BY <1>b, <2>1, <2>2, Leased, ZenonT(30)
  <1>1. ASSUME SelectPlain(r)
        PROVE  IInv'
    <2> DEFINE rt == Swept(req[r].known)
               candidates == {a \in req[r].scope : HasRoom(rt, a, req[r].class, req[r].caps)}
    <2>1. /\ req[r].pc \in {"selecting", "choosing"}
          /\ listed' = listed /\ share' = share
          /\ \/ \E err \in Errors : ToPersist(r, NoAccount, err) /\ runtime' = rt /\ age' = age
             \/ \E a \in candidates : /\ runtime' = Acquired(rt, a, r)
                                      /\ age' = [age EXCEPT ![r] = 0]
                                      /\ ToPersist(r, a, "none")
      BY <1>1 DEF SelectPlain, Errors
    <2>2. req[r].scope \in SUBSET Accounts
      BY DEF IInv, TypeOK, RequestStates
    <2>3. \A a \in candidates : a \in Accounts /\ HasRoom(rt, a, req[r].class, req[r].caps)
      BY <2>2
    <2> HIDE DEF rt, candidates
    <2>4. Shrunk(rt, r)
      BY <1>0 DEF rt
    <2> QED  BY <1>a, <1>b, <2>1, <2>3, <2>4
  <1>2. ASSUME StickyBuild(r)
        PROVE  IInv'
    <2> DEFINE rt == Swept(req[r].known)
               seen == {a \in req[r].scope : HasRoom(rt, a, req[r].class, req[r].caps)}
               new == [req[r] EXCEPT !.pc = "choosing", !.attempt = req[r].attempt + 1,
                                     !.roomy = seen]
    <2>1. req[r] \in RequestStates /\ req[r].held = NoAccount
      BY <1>2, Selecting DEF StickyBuild
    <2>2. req[r].attempt + 1 \in 0..MaxSelectionAttempts
      <3>1. req[r].attempt < MaxSelectionAttempts /\ req[r].attempt \in 0..MaxSelectionAttempts
        BY <1>2, <2>1 DEF StickyBuild, IInv, AttemptsLeft, RequestStates
      <3> QED  BY <3>1, LeaseAssumption
    <2>3. seen \in SUBSET Accounts
      BY <2>1 DEF RequestStates
    <2>4. /\ req' = [req EXCEPT ![r] = new] /\ runtime' = rt
          /\ age' = age /\ listed' = listed /\ share' = share
          /\ req[r].mode = "sticky"
      BY <1>2 DEF StickyBuild
    <2> HIDE DEF seen
    <2>5. /\ new \in RequestStates /\ new.held = NoAccount
          /\ new.pc = "choosing" /\ new.mode = req[r].mode
      BY <2>1, <2>2, <2>3, ZenonT(30) DEF RequestStates, PCs
    <2> HIDE DEF new, rt
    <2>6. Shrunk(rt, r)
      BY <1>0 DEF rt
    <2>7. \A a \in Accounts : r \notin rt[a].leases
      BY <1>2, <2>6, Selecting DEF StickyBuild
    <2> QED  BY <1>0, <2>4, <2>5, <2>6, <2>7, Unleased, ZenonT(30)
  <1>3. ASSUME StickyAcquire(r)
        PROVE  IInv'
    <2>1. req[r].scope \in SUBSET Accounts /\ req[r].roomy \in SUBSET Accounts
      BY DEF IInv, TypeOK, RequestStates
    <2>2. /\ req[r].pc \in {"selecting", "choosing"}
          /\ listed' = listed /\ share' = share
          /\ \/ \E err \in Errors : ToPersist(r, NoAccount, err) /\ runtime' = runtime /\ age' = age
             \/ \E a \in Accounts : /\ HasRoom(runtime, a, req[r].class, req[r].caps)
                                    /\ runtime' = Acquired(runtime, a, r)
                                    /\ age' = [age EXCEPT ![r] = 0]
                                    /\ ToPersist(r, a, "none")
      BY <1>3, <2>1 DEF StickyAcquire, Errors
    <2> QED  BY <1>0, <1>a, <1>b, <2>2
  <1>4. ASSUME AcquireDirect(r)
        PROVE  IInv'
    <2> DEFINE rt == Reclaimed(runtime)
    <2>1. /\ Shrunk(rt, r) /\ req[r].held = NoAccount /\ req[r].class \in Classes
          /\ \A a \in Accounts : r \notin rt[a].leases
          /\ share \in Shares
      BY <1>0, <1>4, Selecting, ZenonT(30) DEF AcquireDirect, RequestStates, IInv, TypeOK
    <2>2. /\ listed' = listed /\ share' = share
          /\ \/ runtime' = rt /\ Finish(r)
             \/ \E a \in Accounts : /\ HasRoom(rt, a, req[r].class, share)
                                    /\ runtime' = Acquired(rt, a, r)
                                    /\ age' = [age EXCEPT ![r] = 0]
                                    /\ req' = [req EXCEPT ![r] = Holding(req[r].class, a)]
      BY <1>4 DEF AcquireDirect
    <2> HIDE DEF rt
    <2>3. CASE runtime' = rt /\ Finish(r)
      BY <2>1, <2>2, <2>3, Finished
    <2>4. ASSUME NEW a \in Accounts, HasRoom(rt, a, req[r].class, share),
                 runtime' = Acquired(rt, a, r), age' = [age EXCEPT ![r] = 0],
                 req' = [req EXCEPT ![r] = Holding(req[r].class, a)]
          PROVE  IInv'
      <3>1. /\ Holding(req[r].class, a) \in RequestStates
            /\ Holding(req[r].class, a).pc = "holding"
            /\ Holding(req[r].class, a).class = req[r].class
            /\ Holding(req[r].class, a).held = a
        BY <2>1, IdleType
      <3> QED  BY <2>1, <2>2, <2>4, <3>1, Leased, ZenonT(30)
    <2> QED  BY <2>2, <2>3, <2>4
  <1>5. ASSUME CheckOpportunistic(r)
        PROVE  IInv'
    <2> DEFINE rt == Swept(req[r].known)
    <2>1. Shrunk(rt, r) /\ \A a \in Accounts : r \notin rt[a].leases
      BY <1>0, <1>5, Selecting DEF CheckOpportunistic
    <2>2. runtime' = rt /\ Finish(r) /\ listed' = listed /\ share' = share
      BY <1>5 DEF CheckOpportunistic
    <2> HIDE DEF rt
    <2> QED  BY <2>1, <2>2, Finished
  <1> QED  BY <1>1, <1>2, <1>3, <1>4, <1>5

\* The ways a selection goes on after it has persisted its rows, and the end of
\* the request.
LEMMA LateSteps ==
    ASSUME IInv, NEW r \in Requests
    PROVE  /\ PersistRaises(r) => IInv'
           /\ SelectedIsStale(r) => IInv'
           /\ GenerationMoved(r) => IInv'
           /\ RuntimeRecovered(r) => IInv'
           /\ StickyCapRetry(r) => IInv'
           /\ SelectionReturns(r) => IInv'
           /\ Release(r) => IInv'
           /\ TaskLost(r) => IInv'
  <1>0. req[r] \in RequestStates
    BY DEF IInv, TypeOK
  <1>a. ASSUME NEW new \in RequestStates, new.held = req[r].held, new.class = req[r].class,
               new.pc \in {"holding", "orphan"},
               req' = [req EXCEPT ![r] = new],
               runtime' = runtime, age' = age, listed' = listed, share' = share
        PROVE  IInv'
    <2>1. TypeOK'
      BY <1>a DEF IInv, TypeOK
    <2>2. \A q \in Requests : req'[q] = IF q = r THEN new ELSE req[q]
      BY <1>a DEF IInv, TypeOK
    <2>3. HeldOnlyLate' /\ AttemptsLeft'
      BY <1>a, <2>2 DEF IInv, HeldOnlyLate, AttemptsLeft
    <2>4. \A q \in Requests : age'[q] >= age[q]
      <3>1. \A q \in Requests : age[q] \in Int
        BY DEF IInv, TypeOK
      <3> QED  BY <1>a, <3>1
    <2>5. LeaseInv'
      BY <1>a, <2>1, <2>2, <2>4, KeepStep DEF IInv
    <2> QED  BY <2>1, <2>3, <2>5 DEF IInv
  <1>1. ASSUME PersistRaises(r) PROVE IInv'
    BY <1>1, GivenBack DEF PersistRaises
  <1>2. ASSUME SelectedIsStale(r) PROVE IInv'
    <2>1. CASE req[r].attempt >= MaxSelectionAttempts
      BY <1>2, <2>1, GivenBack DEF SelectedIsStale
    <2>2. CASE ~(req[r].attempt >= MaxSelectionAttempts)
      <3>1. req[r].attempt < MaxSelectionAttempts
        BY <1>0, <2>2, LeaseAssumption DEF RequestStates
      <3> QED  BY <1>2, <2>2, <3>1, Retried DEF SelectedIsStale
    <2> QED  BY <2>1, <2>2
  <1>3. ASSUME GenerationMoved(r) PROVE IInv'
    BY <1>3, Retried DEF GenerationMoved
  <1>4. ASSUME RuntimeRecovered(r) PROVE IInv'
    BY <1>4, Retried DEF RuntimeRecovered
  <1>5. ASSUME StickyCapRetry(r) PROVE IInv'
    BY <1>5, Retried DEF StickyCapRetry, MustRetryCap
  <1>6. ASSUME SelectionReturns(r) PROVE IInv'
    <2>1. CASE req[r].held # NoAccount
      <3>1. req[r].held \in Accounts /\ req[r].class \in Classes
        BY <1>0, <2>1 DEF RequestStates
      <3> QED  BY <1>6, <1>a, <2>1, <3>1, IdleType DEF SelectionReturns
    <2>2. CASE req[r].held = NoAccount
      <3>1. CountOK(runtime) /\ \A a \in Accounts : r \notin runtime[a].leases
        BY <2>2, NoAccountNoLease DEF IInv, LeaseInv, InflightMatchesLeases, CountOK, LeasesOf
      <3>2. Shrunk(runtime, r)
        BY <3>1, RuntimeShrunk DEF IInv
      <3> QED  BY <1>6, <2>2, <3>1, <3>2, Finished DEF SelectionReturns
    <2> QED  BY <2>1, <2>2
  <1>7. ASSUME Release(r) PROVE IInv'
    BY <1>7, GivenBack DEF Release
  <1>8. ASSUME TaskLost(r) PROVE IInv'
    <2> DEFINE new == [req[r] EXCEPT !.pc = "orphan"]
    <2>1. /\ new \in RequestStates /\ new.held = req[r].held /\ new.class = req[r].class
          /\ new.pc = "orphan"
      BY <1>0 DEF RequestStates, PCs
    <2>2. req' = [req EXCEPT ![r] = new]
      BY <1>8 DEF TaskLost
    <2> HIDE DEF new
    <2> QED  BY <1>8, <1>a, <2>1, <2>2, ZenonT(30) DEF TaskLost
  <1> QED  BY <1>1, <1>2, <1>3, <1>4, <1>5, <1>6, <1>7, <1>8

\* Operators and the clock do not touch the runtime map.
LEMMA EnvironmentSteps ==
    ASSUME IInv
    PROVE  /\ \A a \in Removable : AddAccount(a) \/ DeleteAccount(a) => IInv'
           /\ ShareChanges => IInv'
           /\ Tick => IInv'
           /\ UNCHANGED vars => IInv'
  <1>0. /\ age \in [Requests -> 0..MaxAge]
        /\ \A q \in Requests : age[q] \in Int /\ age[q] >= age[q]
    BY DEF IInv, TypeOK
  <1>a. ASSUME TypeOK', runtime' = runtime, req' = req, \A q \in Requests : age'[q] >= age[q]
        PROVE  IInv'
    <2>1. LeaseInv'
      BY <1>a, KeepStep DEF IInv
    <2> QED  BY <1>a, <2>1 DEF IInv, HeldOnlyLate, AttemptsLeft
  <1>1. ASSUME NEW a \in Removable, AddAccount(a) \/ DeleteAccount(a)
        PROVE  IInv'
    <2>1. TypeOK'
      BY <1>1, LeaseAssumption DEF AddAccount, DeleteAccount, IInv, TypeOK
    <2> QED  BY <1>0, <1>1, <1>a, <2>1 DEF AddAccount, DeleteAccount
  <1>2. ASSUME ShareChanges PROVE IInv'
    <2>1. TypeOK'
      BY <1>2 DEF ShareChanges, IInv, TypeOK
    <2> QED  BY <1>0, <1>2, <1>a, <2>1 DEF ShareChanges
  <1>3. ASSUME Tick PROVE IInv'
    <2>1. \A q \in Requests : age'[q] \in 0..MaxAge /\ age'[q] >= age[q]
      BY <1>0, <1>3, MaxAgeType DEF Tick
    <2>2. age' \in [Requests -> 0..MaxAge]
      BY <1>3, <2>1 DEF Tick
    <2>3. TypeOK'
      BY <1>3, <2>2 DEF Tick, IInv, TypeOK
    <2> QED  BY <1>3, <1>a, <2>1, <2>3 DEF Tick
  <1>4. ASSUME UNCHANGED vars PROVE IInv'
    <2>1. TypeOK'
      BY <1>4 DEF vars, IInv, TypeOK
    <2> QED  BY <1>0, <1>4, <1>a, <2>1 DEF vars
  <1> QED  BY <1>1, <1>2, <1>3, <1>4

\* Every step preserves the invariant.
LEMMA NextInv == IInv /\ [Next]_vars => IInv'
  BY EarlySteps, SectionSteps, LateSteps, EnvironmentSteps DEF Next, RequestStep, RequestDetour

\* The invariant holds in every reachable state.
LEMMA Invariance == Spec => []IInv
  BY InitInv, NextInv, PTL DEF Spec

-----------------------------------------------------------------------------
(* Theorems *)

\* Types are respected; in particular no in-flight counter goes below zero.
THEOREM TypeCorrect == Spec => []TypeOK
  <1>1. IInv => TypeOK
    BY DEF IInv
  <1> QED  BY <1>1, Invariance, PTL

\* The in-flight counters count exactly the live leases.
THEOREM CountersExact == Spec => []InflightMatchesLeases
  <1>1. IInv => InflightMatchesLeases
    BY DEF IInv, LeaseInv
  <1> QED  BY <1>1, Invariance, PTL

\* No path through select_account leaks a lease.
THEOREM NoLeaseLeaks == Spec => []LeaseHasOwner
  <1>1. IInv => LeaseHasOwner
    BY DEF IInv, LeaseInv
  <1> QED  BY <1>1, Invariance, PTL

\* A running request is counted until its lease may be called stale.
THEOREM LiveLeasesCounted == Spec => []LiveLeaseCounted
  <1>1. IInv => LiveLeaseCounted
    <2> SUFFICES ASSUME IInv, NEW r \in Requests, req[r].held # NoAccount,
                        age[r] < (IF LeaseKind(r) = "stream" THEN StreamBudget ELSE LeaseTtl),
                        r \notin runtime[req[r].held].leases
                 PROVE  FALSE
      BY DEF LiveLeaseCounted
    <2>1. age[r] >= StaleTtl(LeaseKind(r))
      BY DEF IInv, LeaseInv, GoneOnlyIfStale
    <2>2. age[r] \in Int
      BY DEF IInv, TypeOK
    <2> QED  BY <2>1, <2>2, LeaseAssumption DEF StaleTtl, Larger
  <1> QED  BY <1>1, Invariance, PTL

\* The concurrency of an account stays within the caps.
THEOREM CapsHold == Spec => []CapNeverExceeded
  <1>1. IInv => CapNeverExceeded
    BY DEF IInv, LeaseInv
  <1> QED  BY <1>1, Invariance, PTL

\* Ordinary streams leave the recovery reserve free.
THEOREM ReserveHolds == Spec => []ReserveLeftFree
  <1>1. IInv => ReserveLeftFree
    BY DEF IInv, LeaseInv
  <1> QED  BY <1>1, Invariance, PTL

\* The books of every account are exact, for any number of requests and
\* accounts, any caps and any time-outs.
THEOREM BooksExact == Spec => []LeasesAccounted
  BY CountersExact, NoLeaseLeaks, LiveLeasesCounted, PTL DEF LeasesAccounted

\* Caps and recovery reserve hold together.
THEOREM LimitsHold == Spec => []LimitsKept
  BY CapsHold, ReserveHolds, PTL DEF LimitsKept

=============================================================================
