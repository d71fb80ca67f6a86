---------------------- MODULE CacheInvalidationProofs -----------------------
(***************************************************************************)
(* A replica that acknowledged a version of a cache serves nothing older   *)
(* than it: for every kind of cache, and any number of replicas, writes,   *)
(* lost replicas and database faults.                                      *)
(***************************************************************************)
EXTENDS CacheInvalidation, TLAPS

\* The phases of a replica and of its poll, and the shapes of its running tasks.
Phases == {"off", "prime", "load", "idle", "flush", "flushed", "read", "rows"}
Held == Changes \cup {Nothing}
Refreshes == [value : Held, marked : BOOLEAN, on : BOOLEAN]
Readers == [value : Held, valid : BOOLEAN, on : BOOLEAN]
Writers == [change : Changes, at : {"none", "committed", "bump", "ack"}]

\* A version was bumped after the changes it stands for were committed.
LogOK ==
    /\ written \in Changes
    /\ bumpedAt \in Seq(Changes)
    /\ \A i \in 1..version : bumpedAt[i] <= written

\* Types of what a replica keeps: no version it knows or read is ahead of the log.
Shape ==
    /\ phase \in [Nodes -> Phases]
    /\ rows \in [Nodes -> 0..version]
    /\ known \in [Nodes -> 0..version]
    /\ primed \in [Nodes -> BOOLEAN]
    /\ seeded \in [Nodes -> BOOLEAN]
    /\ pending \in [Nodes -> BOOLEAN]
    /\ cached \in [Nodes -> Held]
    /\ mark \in [Nodes -> BOOLEAN]
    /\ refresh \in [Nodes -> Refreshes]
    /\ reader \in [Nodes -> Readers]
    /\ writer \in [Nodes -> Writers]

\* Each task of a replica runs in the phases that start it, and what a replica
\* that is not up yet would serve is empty.
RunsOK(r) ==
    /\ writer[r].at # "none" => Serving(r)
    /\ writer[r].at = "ack" => kind = "reset_credits"
    /\ reader[r].on => ~Routing /\ Serving(r)
    /\ refresh[r].on => Routing /\ phase[r] \in {"load", "rows"}
    /\ ~refresh[r].on => refresh[r].value = Nothing
    /\ seeded[r] => primed[r]
    /\ phase[r] \in {"off", "prime"} => cached[r] = Nothing

\* What reflects change n is no older than the bump of version v.
Reflects(n, v) == v > 0 => n >= bumpedAt[v]

\* A read-through entry, and a fill that may still store one, reflect the
\* acknowledged version.
FillOK(r) ==
    ~Routing /\ kind # "reset_credits" /\ seeded[r] =>
        /\ cached[r] # Nothing => Reflects(cached[r], known[r])
        /\ reader[r].on /\ reader[r].valid /\ reader[r].value # Nothing =>
              Reflects(reader[r].value, known[r])

\* A refresh that has read the database reflects the acknowledged version and
\* the one it will acknowledge.
RefreshOK(r) ==
    refresh[r].on /\ refresh[r].value # Nothing =>
        /\ Reflects(refresh[r].value, known[r])
        /\ phase[r] = "rows" => Reflects(refresh[r].value, rows[r])

\* A routing snapshot reflects the acknowledged version, or a reload is due.
SnapshotOK(r) ==
    Routing /\ seeded[r] /\ cached[r] # Nothing =>
        \/ Reflects(cached[r], known[r])
        \/ pending[r] \/ phase[r] = "flush" \/ known[r] < version

\* The inductive invariant: one replica, and all of them with the log.
NodeOK(r) == RunsOK(r) /\ FillOK(r) /\ RefreshOK(r) /\ SnapshotOK(r)

CInv == kind \in Kinds /\ LogOK /\ Shape /\ \A r \in Nodes : NodeOK(r)

\* What a step does to the log, and that it leaves the replicas but one alone.
LogGrows ==
    /\ kind' = kind
    /\ written <= written'
    /\ version <= version'
    /\ \A i \in 1..version : bumpedAt'[i] = bumpedAt[i]

\* The step leaves replica q alone.
Same(q) ==
    /\ phase'[q] = phase[q] /\ rows'[q] = rows[q] /\ known'[q] = known[q]
    /\ primed'[q] = primed[q] /\ seeded'[q] = seeded[q] /\ pending'[q] = pending[q]
    /\ cached'[q] = cached[q] /\ refresh'[q] = refresh[q]
    /\ reader'[q] = reader[q] /\ writer'[q] = writer[q]

\* The pending bump of a mutation moves the version on by one.
LEMMA Bumped ==
    ASSUME LogOK, BumpOnce, UNCHANGED <<kind, written>>
    PROVE  LogOK' /\ LogGrows
<1>1. /\ bumpedAt' \in Seq(Changes)
      /\ Len(bumpedAt') = Len(bumpedAt) + 1
      /\ \A i \in 1..Len(bumpedAt) : bumpedAt'[i] = bumpedAt[i]
      /\ bumpedAt'[Len(bumpedAt) + 1] = written
  BY DEF LogOK, BumpOnce
<1>2. Len(bumpedAt) \in Nat /\ written \in Int
  BY CacheAssumption DEF LogOK, Changes
<1>3. ASSUME NEW i \in 1..Len(bumpedAt') PROVE bumpedAt'[i] <= written
  <2>1. i \in 1..Len(bumpedAt) \/ i = Len(bumpedAt) + 1
    BY <1>1, <1>2
  <2> QED BY <1>1, <1>2, <2>1 DEF LogOK, version
<1> QED BY <1>1, <1>2, <1>3 DEF LogOK, LogGrows, version

\* A step that writes neither a row nor a version keeps the log.
LEMMA LogKept ==
    ASSUME LogOK, UNCHANGED <<kind, written, bumpedAt>>
    PROVE  LogOK' /\ LogGrows
<1>1. Len(bumpedAt) \in Nat /\ written \in Int
  BY CacheAssumption DEF LogOK, Changes
<1> QED BY <1>1 DEF LogOK, LogGrows, version

\* Every step only ever extends the log: a commit, a bump, or neither.
LEMMA LogSteps ==
    ASSUME LogOK, CacheNext
    PROVE  LogOK' /\ LogGrows
<1> PICK r \in Nodes :
      \/ Task(r) \/ RefreshFails(r) \/ Lose(r)
      \/ Commit(r) \/ Mutation(r)
      \/ ReadMiss(r) \/ ReadRow(r) \/ Fill(r) \/ ExpireEntry(r)
  BY DEF CacheNext
<1>1. CASE Commit(r)
  <2>1. /\ written' = written + 1 /\ written < MaxWrites
        /\ UNCHANGED <<kind, bumpedAt>>
    BY <1>1, Zenon DEF Commit
  <2>2. Len(bumpedAt) \in Nat /\ written \in Nat
    BY CacheAssumption DEF LogOK, Changes
  <2>3. written' \in Changes
    BY <2>1, <2>2, CacheAssumption DEF Changes
  <2>4. \A i \in 1..version : bumpedAt[i] \in Int
    BY CacheAssumption DEF LogOK, Changes, version
  <2> QED BY <2>1, <2>2, <2>3, <2>4 DEF LogOK, LogGrows, version
<1>2. CASE DurableBump(r) \/ FlushBump(r)
  <2>1. UNCHANGED <<kind, written>> /\ (BumpOnce \/ bumpedAt' = bumpedAt)
    BY <1>2, Zenon DEF DurableBump, FlushBump, BumpSucceeds, BumpFails
  <2> QED BY <2>1, Bumped, LogKept, Zenon
<1>3. CASE ~Commit(r) /\ ~DurableBump(r) /\ ~FlushBump(r)
  <2>1. UNCHANGED <<kind, written, bumpedAt>>
    BY <1>3, Zenon DEF Task, Mutation, Boot, Prime, Start, RefreshRead, RefreshDone,
       PollBegins, FlushEnds, PollRead, PollRow, RefreshFails, Lose, Apply, AckLocal,
       ReadMiss, ReadRow, Fill, ExpireEntry
  <2> QED BY <2>1, LogKept, Zenon
<1> QED BY <1>1, <1>2, <1>3, Zenon


\* The values the invariant is about, one replica at a time.
LEMMA NodeFacts ==
    ASSUME CInv, NEW r \in Nodes
    PROVE  /\ NodeOK(r)
           /\ version \in Nat /\ written \in Changes /\ Changes \subseteq Nat
           /\ rows[r] \in 0..version /\ known[r] \in 0..version
           /\ cached[r] \in Held /\ refresh[r] \in Refreshes /\ reader[r] \in Readers
           /\ writer[r] \in Writers
           /\ \A i \in 1..version : bumpedAt[i] \in Changes /\ bumpedAt[i] <= written
<1>1. LogOK /\ Shape /\ NodeOK(r)
  BY Zenon DEF CInv
<1>2. version \in Nat /\ Changes \subseteq Nat
  BY <1>1, CacheAssumption DEF LogOK, Changes, version
<1>3. \A i \in 1..version : bumpedAt[i] \in Changes
  BY <1>1 DEF LogOK, version
<1>4. rows[r] \in 0..version /\ known[r] \in 0..version
  BY <1>1 DEF Shape
<1> QED BY <1>1, <1>2, <1>3, <1>4, Zenon DEF LogOK, Shape

\* What was acknowledged or read still stands for the same changes.
LEMMA StillReflects ==
    ASSUME CInv, LogGrows, NEW n, NEW v \in 0..version
    PROVE  Reflects(n, v)' <=> Reflects(n, v)
<1>1. version \in Nat
  BY CacheAssumption DEF CInv, LogOK, version
<1>2. v > 0 => v \in 1..version
  BY <1>1
<1> QED BY <1>2 DEF Reflects, LogGrows

\* What is read from the database now reflects every version.
LEMMA ReadReflects ==
    ASSUME CInv, LogGrows, written' = written, NEW v \in 0..version
    PROVE  Reflects(written, v) /\ Reflects(written, v)'
<1>1. version \in Nat /\ written \in Nat
  BY CacheAssumption DEF CInv, LogOK, version, Changes
<1>2. v > 0 => v \in 1..version /\ bumpedAt[v] <= written /\ bumpedAt[v] \in Nat
  BY <1>1, CacheAssumption DEF CInv, LogOK, version, Changes
<1> QED BY <1>1, <1>2, StillReflects DEF Reflects

\* A replica that a step leaves alone stays as the invariant says.
LEMMA OthersKept ==
    ASSUME CInv, LogGrows, LogOK', NEW q \in Nodes, Same(q)
    PROVE  NodeOK(q)'
<1>1. NodeOK(q) /\ version \in Nat /\ known[q] \in 0..version /\ rows[q] \in 0..version
  BY NodeFacts
<1>2. kind' = kind /\ Routing' = Routing /\ Serving(q)' = Serving(q)
  BY DEF LogGrows, Routing, Serving, Same
<1>3. RunsOK(q)'
  BY <1>1, <1>2, Zenon DEF NodeOK, RunsOK, Same
<1>4. FillOK(q)'
  BY <1>1, <1>2, StillReflects, Zenon DEF NodeOK, FillOK, Same
<1>5. RefreshOK(q)'
  BY <1>1, <1>2, StillReflects, Zenon DEF NodeOK, RefreshOK, Same
<1>6. version' \in Nat /\ version <= version'
  BY DEF LogOK, LogGrows, version
<1>7. known[q] < version => known[q] < version'
  BY <1>1, <1>6
<1>8. SnapshotOK(q)'
  BY <1>1, <1>2, <1>7, StillReflects, Zenon DEF NodeOK, SnapshotOK, Same
<1> QED BY <1>3, <1>4, <1>5, <1>8, Zenon DEF NodeOK

\* What the log bounds stays bounded as it grows.
LEMMA Bounds ==
    ASSUME CInv, LogGrows, LogOK'
    PROVE  /\ version \in Nat /\ version' \in Nat /\ 0..version \subseteq 0..version'
           /\ version \in 0..version' /\ 0 \in 0..version'
           /\ rows \in [Nodes -> 0..version'] /\ known \in [Nodes -> 0..version']
           /\ written \in Changes /\ 0 \in Changes /\ Nothing \in Held
           /\ Changes \subseteq Held
<1>1. version \in Nat /\ version' \in Nat /\ version <= version'
  BY DEF CInv, LogOK, LogGrows, version
<1>2. 0..version \subseteq 0..version' /\ version \in 0..version' /\ 0 \in 0..version'
  BY <1>1
<1>3. rows \in [Nodes -> 0..version'] /\ known \in [Nodes -> 0..version']
  BY <1>2 DEF CInv, Shape
<1>4. written \in Changes /\ 0 \in Changes /\ Nothing \in Held /\ Changes \subseteq Held
  BY CacheAssumption DEF CInv, LogOK, Changes, Held
<1> QED BY <1>1, <1>2, <1>3, <1>4

\* A step that writes one entry of a table leaves the others alone.
LEMMA Entry ==
    ASSUME NEW S, NEW f \in [Nodes -> S], NEW r \in Nodes, NEW v \in S
    PROVE  /\ [f EXCEPT ![r] = v] \in [Nodes -> S]
           /\ [f EXCEPT ![r] = v][r] = v
           /\ \A q \in Nodes \ {r} : [f EXCEPT ![r] = v][q] = f[q]
<1> QED BY SMT

\* The records of the running tasks keep their shape.
LEMMA Records ==
    ASSUME NEW n \in Held, NEW c \in Changes, NEW e \in BOOLEAN
    PROVE  /\ [value |-> n, valid |-> e, on |-> TRUE] \in Readers
           /\ [change |-> c, at |-> "committed"] \in Writers
           /\ \A x \in Readers : /\ [x EXCEPT !.value = n] \in Readers
                                 /\ [x EXCEPT !.valid = FALSE] \in Readers
           /\ \A x \in Refreshes : /\ [x EXCEPT !.value = n] \in Refreshes
                                   /\ [x EXCEPT !.on = TRUE, !.marked = e] \in Refreshes
                                   /\ [x EXCEPT !.on = FALSE, !.marked = e] \in Refreshes
           /\ \A x \in Writers : \A p \in {"none", "bump", "ack"} : [x EXCEPT !.at = p] \in Writers
<1>1. /\ [value |-> n, valid |-> e, on |-> TRUE] \in Readers
      /\ [change |-> c, at |-> "committed"] \in Writers
  BY Zenon DEF Readers, Writers
<1>2. ASSUME NEW x \in Readers PROVE /\ [x EXCEPT !.value = n] \in Readers
                                     /\ [x EXCEPT !.valid = FALSE] \in Readers
  BY Zenon DEF Readers
<1>3. ASSUME NEW x \in Refreshes PROVE /\ [x EXCEPT !.value = n] \in Refreshes
                                       /\ [x EXCEPT !.on = TRUE, !.marked = e] \in Refreshes
                                       /\ [x EXCEPT !.on = FALSE, !.marked = e] \in Refreshes
  BY Zenon DEF Refreshes
<1>4. ASSUME NEW x \in Writers, NEW p \in {"none", "bump", "ack"}
      PROVE [x EXCEPT !.at = p] \in Writers
  BY Zenon DEF Writers
<1> QED BY <1>1, <1>2, <1>3, <1>4, Zenon

\* The frame of every step: the types stay, and replicas other than the one that
\* moves are left alone.
LEMMA Framed ==
    ASSUME CInv, LogGrows, LogOK', NEW r \in Nodes,
           \/ Task(r) \/ RefreshFails(r) \/ Lose(r)
           \/ Commit(r) \/ Mutation(r)
           \/ ReadMiss(r) \/ ReadRow(r) \/ Fill(r) \/ ExpireEntry(r)
    PROVE  Shape' /\ \A q \in Nodes \ {r} : Same(q)
<1> DEFINE Sets(f, g, S) == g \in [Nodes -> S] /\ \A q \in Nodes \ {r} : g[q] = f[q]
<1>a. /\ phase \in [Nodes -> Phases] /\ primed \in [Nodes -> BOOLEAN]
      /\ seeded \in [Nodes -> BOOLEAN] /\ pending \in [Nodes -> BOOLEAN]
      /\ cached \in [Nodes -> Held] /\ mark \in [Nodes -> BOOLEAN]
      /\ refresh \in [Nodes -> Refreshes] /\ reader \in [Nodes -> Readers]
      /\ writer \in [Nodes -> Writers]
      /\ rows \in [Nodes -> 0..version'] /\ known \in [Nodes -> 0..version']
  BY Bounds, Zenon DEF CInv, Shape
<1>b. ASSUME Sets(phase, phase', Phases), Sets(rows, rows', 0..version'),
             Sets(known, known', 0..version'), Sets(primed, primed', BOOLEAN),
             Sets(seeded, seeded', BOOLEAN), Sets(pending, pending', BOOLEAN),
             Sets(cached, cached', Held), Sets(mark, mark', BOOLEAN),
             Sets(refresh, refresh', Refreshes), Sets(reader, reader', Readers),
             Sets(writer, writer', Writers)
      PROVE  Shape' /\ \A q \in Nodes \ {r} : Same(q)
  <2>1. Shape'
    BY <1>b, Zenon DEF Shape, Held, Refreshes, Readers, Writers, Changes
  <2> QED BY <1>b, <2>1, Zenon DEF Same
<1>1. CASE ReadMiss(r)
  <2>0. UNCHANGED <<phase, rows, known, primed, seeded, pending, cached, mark, refresh, writer>>
    BY <1>1, Zenon DEF ReadMiss
  <2>1. Sets(reader, reader', Readers)
    BY <1>1, <1>a, Bounds DEF ReadMiss, Readers
  <2> QED BY <1>a, <1>b, <2>0, <2>1
<1>2. CASE ReadRow(r)
  <2>0. UNCHANGED <<phase, rows, known, primed, seeded, pending, cached, mark, refresh, writer>>
    BY <1>2, Zenon DEF ReadRow
  <2>1. Sets(reader, reader', Readers)
    BY <1>2, <1>a, Bounds DEF ReadRow, Readers
  <2> QED BY <1>a, <1>b, <2>0, <2>1
<1>3. CASE Fill(r)
  <2>0. UNCHANGED <<phase, rows, known, primed, seeded, pending, mark, refresh, writer>>
    BY <1>3, Zenon DEF Fill
  <2>1. Sets(reader, reader', Readers)
    BY <1>3, <1>a, Bounds DEF Fill, NoReader, Readers
  <2>2. Sets(cached, cached', Held)
    BY <1>3, <1>a, Bounds DEF Fill, Readers
  <2> QED BY <1>a, <1>b, <2>0, <2>1, <2>2
<1>4. CASE ExpireEntry(r)
  <2>0. UNCHANGED <<phase, rows, known, primed, seeded, pending, mark, refresh, reader, writer>>
    BY <1>4, Zenon DEF ExpireEntry
  <2>1. Sets(cached, cached', Held)
    BY <1>4, <1>a, Bounds DEF ExpireEntry
  <2> QED BY <1>a, <1>b, <2>0, <2>1
<1>5. CASE Commit(r)
  <2>0. UNCHANGED <<phase, rows, known, primed, seeded, pending, cached, mark, refresh, reader>>
    BY <1>5, Zenon DEF Commit
  <2>1. Sets(writer, writer', Writers)
    <3>1. writer' = [writer EXCEPT ![r] = [change |-> written + 1, at |-> "committed"]]
      BY <1>5, Zenon DEF Commit
    <3>2. written + 1 \in Changes
      BY <1>5 DEF Commit, LogOK
    <3>3. [change |-> written + 1, at |-> "committed"] \in Writers
      BY <3>2, Records, Bounds, Zenon
    <3> QED BY <1>a, <3>1, <3>3, Entry, Zenon
  <2> QED BY <1>a, <1>b, <2>0, <2>1
<1>6. CASE Apply(r)
  <2>0. UNCHANGED <<phase, rows, known, primed, seeded, refresh>>
    BY <1>6, Zenon DEF Apply
  <2>1. Sets(mark, mark', BOOLEAN)
    BY <1>6, <1>a, Bounds, Zenon DEF Apply, MarkOrClear
  <2>2. Sets(cached, cached', Held)
    BY <1>6, <1>a, Bounds DEF Apply, MarkOrClear, Drop, Writers
  <2>3. Sets(reader, reader', Readers)
    <3>1. \/ reader' = reader
          \/ reader' = [reader EXCEPT ![r] = [reader[r] EXCEPT !.valid = FALSE]]
      BY <1>6, Zenon DEF Apply, Drop
    <3>2. reader[r] \in Readers
      BY <1>a
    <3>3. [reader[r] EXCEPT !.valid = FALSE] \in Readers
      BY <3>2, Records, Bounds, Zenon
    <3>4. CASE reader' = reader
      BY <1>a, <3>4, Zenon
    <3>5. CASE reader' = [reader EXCEPT ![r] = [reader[r] EXCEPT !.valid = FALSE]]
      BY <1>a, <3>3, <3>5, Entry, Zenon
    <3> QED BY <3>1, <3>4, <3>5, Zenon
  <2>4. Sets(pending, pending', BOOLEAN)
    BY <1>6, <1>a, Bounds DEF Apply
  <2>5. Sets(writer, writer', Writers)
    BY <1>6, <1>a, Bounds DEF Apply, Writers
  <2> QED BY <1>a, <1>b, <2>0, <2>1, <2>2, <2>3, <2>4, <2>5
<1>7. CASE DurableBump(r)
  <2>0. UNCHANGED <<phase, rows, known, primed, seeded, pending, cached, mark, refresh, reader>>
    BY <1>7, Zenon DEF DurableBump
  <2>1. Sets(writer, writer', Writers)
    <3>1. PICK p \in {"none", "ack"} : writer' = [writer EXCEPT ![r] = [writer[r] EXCEPT !.at = p]]
      BY <1>7, Zenon DEF DurableBump
    <3>2. writer[r] \in Writers
      BY <1>a
    <3>3. [writer[r] EXCEPT !.at = p] \in Writers
      BY <3>1, <3>2, Records, Bounds, Zenon
    <3> QED BY <1>a, <3>1, <3>3, Entry, Zenon
  <2> QED BY <1>a, <1>b, <2>0, <2>1
<1>8. CASE AckLocal(r)
  <2>0. UNCHANGED <<phase, rows, primed, seeded, pending, cached, mark, refresh, reader>>
    BY <1>8, Zenon DEF AckLocal
  <2>1. Sets(writer, writer', Writers)
    BY <1>8, <1>a, Bounds DEF AckLocal, Writers
  <2>2. Sets(known, known', 0..version')
    BY <1>8, <1>a, Bounds DEF AckLocal, Acknowledge, MaxOf
  <2> QED BY <1>a, <1>b, <2>0, <2>1, <2>2
<1>9. CASE Boot(r)
  <2>0. UNCHANGED <<rows, known, primed, seeded, pending, cached, mark, refresh, reader, writer>>
    BY <1>9, Zenon DEF Boot
  <2>1. Sets(phase, phase', Phases)
    BY <1>9, <1>a, Bounds DEF Boot, Phases
  <2> QED BY <1>a, <1>b, <2>0, <2>1
<1>10. CASE Prime(r)
  <2>0. UNCHANGED <<rows, pending, cached, mark, reader, writer>>
    BY <1>10, Zenon DEF Prime
  <2>1. Sets(phase, phase', Phases)
    BY <1>10, <1>a, Bounds DEF Prime, Phases
  <2>2. Sets(known, known', 0..version')
    BY <1>10, <1>a, Bounds DEF Prime, Acknowledge, MaxOf
  <2>3. Sets(primed, primed', BOOLEAN)
    BY <1>10, <1>a, Bounds, Zenon DEF Prime
  <2>4. Sets(seeded, seeded', BOOLEAN)
    BY <1>10, <1>a, Bounds, Zenon DEF Prime
  <2>5. Sets(refresh, refresh', Refreshes)
    <3>1. refresh' = [refresh EXCEPT ![r] = [refresh[r] EXCEPT !.on = Routing, !.marked = mark[r]]]
      BY <1>10, Zenon DEF Prime
    <3>2. /\ refresh[r] \in Refreshes /\ mark[r] \in BOOLEAN
          /\ (Routing = TRUE \/ Routing = FALSE)
      BY <1>a, Zenon DEF Routing
    <3>3. [refresh[r] EXCEPT !.on = Routing, !.marked = mark[r]] \in Refreshes
      BY <3>2, Records, Bounds, Zenon
    <3> QED BY <1>a, <3>1, <3>3, Entry, Zenon
  <2> QED BY <1>a, <1>b, <2>0, <2>1, <2>2, <2>3, <2>4, <2>5
<1>11. CASE Start(r)
  <2>0. UNCHANGED <<rows, known, primed, seeded, pending, cached, mark, refresh, reader, writer>>
    BY <1>11, Zenon DEF Start
  <2>1. Sets(phase, phase', Phases)
    BY <1>11, <1>a, Bounds DEF Start, Phases
  <2> QED BY <1>a, <1>b, <2>0, <2>1
<1>12. CASE RefreshRead(r)
  <2>0. UNCHANGED <<phase, rows, known, primed, seeded, pending, cached, mark, reader, writer>>
    BY <1>12, Zenon DEF RefreshRead
  <2>1. Sets(refresh, refresh', Refreshes)
    BY <1>12, <1>a, Bounds DEF RefreshRead, Refreshes
  <2> QED BY <1>a, <1>b, <2>0, <2>1
<1>13. CASE RefreshDone(r)
  <2>0. UNCHANGED <<rows, primed, seeded, pending, reader, writer>>
    BY <1>13, Zenon DEF RefreshDone
  <2>1. Sets(refresh, refresh', Refreshes)
    BY <1>13, <1>a, Bounds DEF RefreshDone, NoRefresh, Refreshes
  <2>2. Sets(cached, cached', Held)
    BY <1>13, <1>a, Bounds DEF RefreshDone, Refreshes
  <2>3. Sets(mark, mark', BOOLEAN)
    BY <1>13, <1>a, Bounds DEF RefreshDone, KeptMark, Unavailable
  <2>4. Sets(known, known', 0..version')
    BY <1>13, <1>a, Bounds DEF RefreshDone, Acknowledge, MaxOf
  <2>5. Sets(phase, phase', Phases)
    BY <1>13, <1>a, Bounds DEF RefreshDone, Phases
  <2> QED BY <1>a, <1>b, <2>0, <2>1, <2>2, <2>3, <2>4, <2>5
<1>14. CASE RefreshFails(r)
  <2>0. UNCHANGED <<rows, known, primed, seeded, pending, cached, mark, reader, writer>>
    BY <1>14, Zenon DEF RefreshFails
  <2>1. Sets(refresh, refresh', Refreshes)
    BY <1>14, <1>a, Bounds DEF RefreshFails, NoRefresh, Refreshes
  <2>2. Sets(phase, phase', Phases)
    BY <1>14, <1>a, Bounds DEF RefreshFails, Phases
  <2> QED BY <1>a, <1>b, <2>0, <2>1, <2>2
<1>15. CASE PollBegins(r)
  <2>0. UNCHANGED <<rows, known, primed, seeded, cached, mark, refresh, reader, writer>>
    BY <1>15, Zenon DEF PollBegins
  <2>1. Sets(phase, phase', Phases)
    BY <1>15, <1>a, Bounds DEF PollBegins, Phases
  <2>2. Sets(pending, pending', BOOLEAN)
    BY <1>15, <1>a, Bounds DEF PollBegins
  <2> QED BY <1>a, <1>b, <2>0, <2>1, <2>2
<1>16. CASE FlushBump(r)
  <2>0. UNCHANGED <<rows, known, primed, seeded, pending, cached, mark, refresh, reader, writer>>
    BY <1>16, Zenon DEF FlushBump
  <2>1. Sets(phase, phase', Phases)
    BY <1>16, <1>a, Bounds DEF FlushBump, Phases
  <2> QED BY <1>a, <1>b, <2>0, <2>1
<1>17. CASE FlushEnds(r)
  <2>0. UNCHANGED <<rows, known, primed, seeded, cached, mark, refresh, reader, writer>>
    BY <1>17, Zenon DEF FlushEnds
  <2>1. Sets(phase, phase', Phases)
    BY <1>17, <1>a, Bounds DEF FlushEnds, Phases
  <2>2. Sets(pending, pending', BOOLEAN)
    BY <1>17, <1>a, Bounds, Zenon DEF FlushEnds
  <2> QED BY <1>a, <1>b, <2>0, <2>1, <2>2
<1>18. CASE PollRead(r)
  <2>0. UNCHANGED <<known, primed, seeded, pending, cached, mark, refresh, reader, writer>>
    BY <1>18, Zenon DEF PollRead
  <2>1. Sets(phase, phase', Phases)
    BY <1>18, <1>a, Bounds DEF PollRead, Phases
  <2>2. Sets(rows, rows', 0..version')
    BY <1>18, <1>a, Bounds DEF PollRead
  <2> QED BY <1>a, <1>b, <2>0, <2>1, <2>2
<1>19. CASE PollRow(r)
  <2>0. UNCHANGED <<rows, seeded, pending, mark, writer>>
    BY <1>19, Zenon DEF PollRow
  <2>1. Sets(phase, phase', Phases)
    BY <1>19, <1>a, Bounds DEF PollRow, Phases
  <2>2. Sets(primed, primed', BOOLEAN)
    BY <1>19, <1>a, Bounds DEF PollRow
  <2>3. Sets(refresh, refresh', Refreshes)
    <3>1. \/ refresh' = refresh
          \/ refresh' = [refresh EXCEPT ![r] = [refresh[r] EXCEPT !.on = TRUE, !.marked = mark[r]]]
      BY <1>19, Zenon DEF PollRow
    <3>2. refresh[r] \in Refreshes /\ mark[r] \in BOOLEAN
      BY <1>a, Zenon
    <3>3. [refresh[r] EXCEPT !.on = TRUE, !.marked = mark[r]] \in Refreshes
      BY <3>2, Records, Bounds, Zenon
    <3>4. CASE refresh' = refresh
      BY <1>a, <3>4, Zenon
    <3>5. CASE refresh' = [refresh EXCEPT ![r] = [refresh[r] EXCEPT !.on = TRUE, !.marked = mark[r]]]
      BY <1>a, <3>3, <3>5, Entry, Zenon
    <3> QED BY <3>1, <3>4, <3>5, Zenon
  <2>4. Sets(cached, cached', Held)
    BY <1>19, <1>a, Bounds DEF PollRow, Drop
  <2>5. Sets(reader, reader', Readers)
    <3>1. \/ reader' = reader
          \/ reader' = [reader EXCEPT ![r] = [reader[r] EXCEPT !.valid = FALSE]]
      BY <1>19, Zenon DEF PollRow, Drop
    <3>2. reader[r] \in Readers
      BY <1>a
    <3>3. [reader[r] EXCEPT !.valid = FALSE] \in Readers
      BY <3>2, Records, Bounds, Zenon
    <3>4. CASE reader' = reader
      BY <1>a, <3>4, Zenon
    <3>5. CASE reader' = [reader EXCEPT ![r] = [reader[r] EXCEPT !.valid = FALSE]]
      BY <1>a, <3>3, <3>5, Entry, Zenon
    <3> QED BY <3>1, <3>4, <3>5, Zenon
  <2>6. Sets(known, known', 0..version')
    BY <1>19, <1>a, Bounds DEF PollRow, Acknowledge, MaxOf
  <2> QED BY <1>a, <1>b, <2>0, <2>1, <2>2, <2>3, <2>4, <2>5, <2>6
<1>20. CASE Lose(r)
  <2>1. Sets(phase, phase', Phases)
    BY <1>20, <1>a, Bounds DEF Lose, Phases
  <2>2. Sets(rows, rows', 0..version')
    BY <1>20, <1>a, Bounds DEF Lose
  <2>3. Sets(known, known', 0..version')
    BY <1>20, <1>a, Bounds DEF Lose
  <2>4. Sets(primed, primed', BOOLEAN)
    BY <1>20, <1>a, Bounds DEF Lose
  <2>5. Sets(seeded, seeded', BOOLEAN)
    BY <1>20, <1>a, Bounds DEF Lose
  <2>6. Sets(pending, pending', BOOLEAN)
    BY <1>20, <1>a, Bounds DEF Lose
  <2>7. Sets(cached, cached', Held)
    BY <1>20, <1>a, Bounds DEF Lose
  <2>8. Sets(mark, mark', BOOLEAN)
    BY <1>20, <1>a, Bounds DEF Lose
  <2>9. Sets(refresh, refresh', Refreshes)
    BY <1>20, <1>a, Bounds DEF Lose, NoRefresh, Refreshes
  <2>10. Sets(reader, reader', Readers)
    BY <1>20, <1>a, Bounds DEF Lose, NoReader, Readers
  <2>11. Sets(writer, writer', Writers)
    BY <1>20, <1>a, Bounds DEF Lose, NoWriter, Writers
  <2> QED BY <1>a, <1>b, <2>1, <2>2, <2>3, <2>4, <2>5, <2>6, <2>7, <2>8, <2>9, <2>10, <2>11
<1> QED BY <1>1, <1>2, <1>3, <1>4, <1>5, <1>6, <1>7, <1>8, <1>9, <1>10, <1>11, <1>12,
           <1>13, <1>14, <1>15, <1>16, <1>17, <1>18, <1>19, <1>20, Zenon DEF Task,
           Mutation

-----------------------------------------------------------------------------
(* The replica that takes the step.                                        *)

\* A new reader has read nothing yet.
LEMMA ReadMissOK ==
    ASSUME CInv, LogGrows, LogOK', NEW r \in Nodes, ReadMiss(r)
    PROVE  NodeOK(r)'
<1>a. /\ NodeOK(r) /\ kind' = kind /\ Routing' = Routing
      /\ known[r] \in 0..version /\ rows[r] \in 0..version
  BY NodeFacts, Zenon DEF LogGrows, Routing
<1>b. /\ phase'[r] = phase[r] /\ rows'[r] = rows[r] /\ known'[r] = known[r]
      /\ primed'[r] = primed[r] /\ seeded'[r] = seeded[r]
      /\ pending'[r] = pending[r] /\ cached'[r] = cached[r]
      /\ refresh'[r] = refresh[r] /\ writer'[r] = writer[r]
  BY Zenon DEF ReadMiss
<1>c. /\ reader'[r].value = Nothing /\ reader'[r].on
      /\ ~Routing /\ Serving(r)
  BY DEF ReadMiss, CInv, Shape
<1>v. known[r] < version => known[r] < version'
  BY <1>a, Bounds DEF LogGrows
<1>1. RunsOK(r)'
  BY <1>a, <1>b, <1>c, Zenon DEF NodeOK, RunsOK, Serving
<1>2. FillOK(r)'
  BY <1>a, <1>b, <1>c, StillReflects, Zenon DEF NodeOK, FillOK
<1>3. RefreshOK(r)'
  BY <1>a, <1>b, <1>c, StillReflects, Zenon DEF NodeOK, RefreshOK
<1>4. SnapshotOK(r)'
  BY <1>a, <1>b, <1>c, <1>v, StillReflects, Zenon DEF NodeOK, SnapshotOK
<1> QED BY <1>1, <1>2, <1>3, <1>4, Zenon DEF NodeOK

\* What a reader reads reflects every version.
LEMMA ReadRowOK ==
    ASSUME CInv, LogGrows, LogOK', NEW r \in Nodes, ReadRow(r)
    PROVE  NodeOK(r)'
<1>a. /\ NodeOK(r) /\ kind' = kind /\ Routing' = Routing
      /\ known[r] \in 0..version /\ rows[r] \in 0..version
  BY NodeFacts, Zenon DEF LogGrows, Routing
<1>b. /\ phase'[r] = phase[r] /\ rows'[r] = rows[r] /\ known'[r] = known[r]
      /\ primed'[r] = primed[r] /\ seeded'[r] = seeded[r]
      /\ pending'[r] = pending[r] /\ cached'[r] = cached[r]
      /\ refresh'[r] = refresh[r] /\ writer'[r] = writer[r]
  BY Zenon DEF ReadRow
<1>c. /\ reader'[r].value = written /\ reader'[r].on = reader[r].on
      /\ reader'[r].valid = reader[r].valid /\ written' = written
  BY Zenon DEF ReadRow, CInv, Shape, Readers
<1>v. known[r] < version => known[r] < version'
  BY <1>a, Bounds DEF LogGrows
<1>1. RunsOK(r)'
  BY <1>a, <1>b, <1>c, Zenon DEF NodeOK, RunsOK, Serving
<1>2. FillOK(r)'
  BY <1>a, <1>b, <1>c, ReadReflects, StillReflects, Zenon DEF NodeOK, FillOK
<1>3. RefreshOK(r)'
  BY <1>a, <1>b, <1>c, StillReflects, Zenon DEF NodeOK, RefreshOK
<1>4. SnapshotOK(r)'
  BY <1>a, <1>b, <1>c, <1>v, StillReflects, Zenon DEF NodeOK, SnapshotOK
<1> QED BY <1>1, <1>2, <1>3, <1>4, Zenon DEF NodeOK

\* A fill stores what its reader holds, unless an invalidation came first.
LEMMA FillStepOK ==
    ASSUME CInv, LogGrows, LogOK', NEW r \in Nodes, Fill(r)
    PROVE  NodeOK(r)'
<1>a. /\ NodeOK(r) /\ kind' = kind /\ Routing' = Routing
      /\ known[r] \in 0..version /\ rows[r] \in 0..version
  BY NodeFacts, Zenon DEF LogGrows, Routing
<1>b. /\ phase'[r] = phase[r] /\ rows'[r] = rows[r] /\ known'[r] = known[r]
      /\ primed'[r] = primed[r] /\ seeded'[r] = seeded[r]
      /\ pending'[r] = pending[r] /\ refresh'[r] = refresh[r] /\ writer'[r] = writer[r]
  BY Zenon DEF Fill
<1>c. /\ ~reader'[r].on /\ reader[r].on /\ reader[r].value # Nothing
      /\ cached'[r] = IF reader[r].valid THEN reader[r].value ELSE cached[r]
  BY DEF Fill, MayFill, NoReader, CInv, Shape
<1>v. known[r] < version => known[r] < version'
  BY <1>a, Bounds DEF LogGrows
<1>1. RunsOK(r)'
  BY <1>a, <1>b, <1>c, Zenon DEF NodeOK, RunsOK, Serving
<1>2. FillOK(r)'
  BY <1>a, <1>b, <1>c, StillReflects, Zenon DEF NodeOK, FillOK
<1>3. RefreshOK(r)'
  BY <1>a, <1>b, <1>c, StillReflects, Zenon DEF NodeOK, RefreshOK
<1>4. SnapshotOK(r)'
  BY <1>a, <1>b, <1>c, Zenon DEF NodeOK, SnapshotOK, RunsOK
<1> QED BY <1>1, <1>2, <1>3, <1>4, Zenon DEF NodeOK

\* An entry expires.
LEMMA ExpireOK ==
    ASSUME CInv, LogGrows, LogOK', NEW r \in Nodes, ExpireEntry(r)
    PROVE  NodeOK(r)'
<1>a. /\ NodeOK(r) /\ kind' = kind /\ Routing' = Routing
      /\ known[r] \in 0..version /\ rows[r] \in 0..version
  BY NodeFacts, Zenon DEF LogGrows, Routing
<1>b. /\ phase'[r] = phase[r] /\ rows'[r] = rows[r] /\ known'[r] = known[r]
      /\ primed'[r] = primed[r] /\ seeded'[r] = seeded[r]
      /\ pending'[r] = pending[r] /\ refresh'[r] = refresh[r]
      /\ reader'[r] = reader[r] /\ writer'[r] = writer[r]
  BY Zenon DEF ExpireEntry
<1>c. cached'[r] = Nothing
  BY DEF ExpireEntry, CInv, Shape
<1>v. known[r] < version => known[r] < version'
  BY <1>a, Bounds DEF LogGrows
<1>1. RunsOK(r)'
  BY <1>a, <1>b, <1>c, Zenon DEF NodeOK, RunsOK, Serving
<1>2. FillOK(r)'
  BY <1>a, <1>b, <1>c, StillReflects, Zenon DEF NodeOK, FillOK
<1>3. RefreshOK(r)'
  BY <1>a, <1>b, StillReflects, Zenon DEF NodeOK, RefreshOK
<1>4. SnapshotOK(r)'
  BY <1>a, <1>b, <1>c, <1>v, StillReflects, Zenon DEF NodeOK, SnapshotOK
<1> QED BY <1>1, <1>2, <1>3, <1>4, Zenon DEF NodeOK

\* A commit touches no cache.
LEMMA CommitOK ==
    ASSUME CInv, LogGrows, LogOK', NEW r \in Nodes, Commit(r)
    PROVE  NodeOK(r)'
<1>a. /\ NodeOK(r) /\ kind' = kind /\ Routing' = Routing
      /\ known[r] \in 0..version /\ rows[r] \in 0..version
  BY NodeFacts, Zenon DEF LogGrows, Routing
<1>b. /\ phase'[r] = phase[r] /\ rows'[r] = rows[r] /\ known'[r] = known[r]
      /\ primed'[r] = primed[r] /\ seeded'[r] = seeded[r]
      /\ pending'[r] = pending[r] /\ cached'[r] = cached[r]
      /\ refresh'[r] = refresh[r] /\ reader'[r] = reader[r]
  BY Zenon DEF Commit
<1>c. writer'[r].at = "committed" /\ Serving(r)
  BY DEF Commit, CInv, Shape
<1>v. known[r] < version => known[r] < version'
  BY <1>a, Bounds DEF LogGrows
<1>1. RunsOK(r)'
  BY <1>a, <1>b, <1>c, Zenon DEF NodeOK, RunsOK, Serving
<1>2. FillOK(r)'
  BY <1>a, <1>b, <1>c, StillReflects, Zenon DEF NodeOK, FillOK
<1>3. RefreshOK(r)'
  BY <1>a, <1>b, <1>c, StillReflects, Zenon DEF NodeOK, RefreshOK
<1>4. SnapshotOK(r)'
  BY <1>a, <1>b, <1>c, <1>v, StillReflects, Zenon DEF NodeOK, SnapshotOK
<1> QED BY <1>1, <1>2, <1>3, <1>4, Zenon DEF NodeOK

\* A durable bump touches no cache.
LEMMA DurableBumpOK ==
    ASSUME CInv, LogGrows, LogOK', NEW r \in Nodes, DurableBump(r)
    PROVE  NodeOK(r)'
<1>a. /\ NodeOK(r) /\ kind' = kind /\ Routing' = Routing
      /\ known[r] \in 0..version /\ rows[r] \in 0..version
  BY NodeFacts, Zenon DEF LogGrows, Routing
<1>b. /\ phase'[r] = phase[r] /\ rows'[r] = rows[r] /\ known'[r] = known[r]
      /\ primed'[r] = primed[r] /\ seeded'[r] = seeded[r]
      /\ pending'[r] = pending[r] /\ cached'[r] = cached[r]
      /\ refresh'[r] = refresh[r] /\ reader'[r] = reader[r]
  BY Zenon DEF DurableBump
<1>c. /\ writer[r].at = "bump"
      /\ \/ writer'[r].at = "none"
         \/ writer'[r].at = "ack" /\ kind = "reset_credits"
  <2>1. /\ writer[r].at = "bump"
        /\ \E p \in {"none", "ack"} :
             /\ writer' = [writer EXCEPT ![r].at = p]
             /\ p = "ack" => kind = "reset_credits"
    BY Zenon DEF DurableBump
  <2>2. writer[r] \in Writers /\ writer \in [Nodes -> Writers]
    BY Zenon DEF CInv, Shape
  <2>3. PICK p \in {"none", "ack"} :
          /\ writer' = [writer EXCEPT ![r] = [writer[r] EXCEPT !.at = p]]
          /\ p = "ack" => kind = "reset_credits"
    BY <2>1, Zenon
  <2>4. writer'[r] = [writer[r] EXCEPT !.at = p]
    BY <2>2, <2>3
  <2>5. writer'[r].at = p
    BY <2>2, <2>4, Zenon DEF Writers
  <2> QED BY <2>1, <2>3, <2>5
<1>v. known[r] < version => known[r] < version'
  BY <1>a, Bounds DEF LogGrows
<1>1. RunsOK(r)'
  BY <1>a, <1>b, <1>c, Zenon DEF NodeOK, RunsOK, Serving
<1>2. FillOK(r)'
  BY <1>a, <1>b, <1>c, StillReflects, Zenon DEF NodeOK, FillOK
<1>3. RefreshOK(r)'
  BY <1>a, <1>b, <1>c, StillReflects, Zenon DEF NodeOK, RefreshOK
<1>4. SnapshotOK(r)'
  BY <1>a, <1>b, <1>c, <1>v, StillReflects, Zenon DEF NodeOK, SnapshotOK
<1> QED BY <1>1, <1>2, <1>3, <1>4, Zenon DEF NodeOK

\* Only reset_credits acknowledges its own bump.
LEMMA AckLocalOK ==
    ASSUME CInv, LogGrows, LogOK', NEW r \in Nodes, AckLocal(r)
    PROVE  NodeOK(r)'
<1>a. /\ NodeOK(r) /\ kind' = kind /\ Routing' = Routing
      /\ known[r] \in 0..version /\ rows[r] \in 0..version
  BY NodeFacts, Zenon DEF LogGrows, Routing
<1>b. /\ phase'[r] = phase[r] /\ rows'[r] = rows[r] /\ primed'[r] = primed[r]
      /\ seeded'[r] = seeded[r] /\ pending'[r] = pending[r]
      /\ cached'[r] = cached[r] /\ refresh'[r] = refresh[r] /\ reader'[r] = reader[r]
  BY Zenon DEF AckLocal
<1>c. writer[r].at = "ack" /\ writer'[r].at = "none"
  BY DEF AckLocal, CInv, Shape, Writers
<1>d. kind = "reset_credits" /\ ~Routing
  BY <1>a, <1>c, Zenon DEF NodeOK, RunsOK, Routing
<1>1. RunsOK(r)'
  BY <1>a, <1>b, <1>c, Zenon DEF NodeOK, RunsOK, Serving
<1>2. FillOK(r)' /\ RefreshOK(r)' /\ SnapshotOK(r)'
  BY <1>a, <1>b, <1>d, Zenon DEF FillOK, RefreshOK, SnapshotOK, NodeOK, RunsOK
<1> QED BY <1>1, <1>2, Zenon DEF NodeOK

\* A replica boots with empty caches.
LEMMA BootOK ==
    ASSUME CInv, LogGrows, LogOK', NEW r \in Nodes, Boot(r)
    PROVE  NodeOK(r)'
<1>a. /\ NodeOK(r) /\ kind' = kind /\ Routing' = Routing
      /\ known[r] \in 0..version /\ rows[r] \in 0..version
  BY NodeFacts, Zenon DEF LogGrows, Routing
<1>b. /\ rows'[r] = rows[r] /\ known'[r] = known[r] /\ primed'[r] = primed[r]
      /\ seeded'[r] = seeded[r] /\ pending'[r] = pending[r]
      /\ cached'[r] = cached[r] /\ refresh'[r] = refresh[r]
      /\ reader'[r] = reader[r] /\ writer'[r] = writer[r]
  BY Zenon DEF Boot
<1>c. phase[r] = "off" /\ phase'[r] = "prime"
  BY DEF Boot, CInv, Shape
<1>v. known[r] < version => known[r] < version'
  BY <1>a, Bounds DEF LogGrows
<1>1. RunsOK(r)'
  BY <1>a, <1>b, <1>c, Zenon DEF NodeOK, RunsOK, Serving
<1>2. FillOK(r)'
  BY <1>a, <1>b, <1>c, StillReflects, Zenon DEF NodeOK, FillOK
<1>3. RefreshOK(r)'
  BY <1>a, <1>b, <1>c, StillReflects, Zenon DEF NodeOK, RefreshOK
<1>4. SnapshotOK(r)'
  BY <1>a, <1>b, <1>c, <1>v, StillReflects, Zenon DEF NodeOK, SnapshotOK
<1> QED BY <1>1, <1>2, <1>3, <1>4, Zenon DEF NodeOK

\* Serving starts.
LEMMA StartOK ==
    ASSUME CInv, LogGrows, LogOK', NEW r \in Nodes, Start(r)
    PROVE  NodeOK(r)'
<1>a. /\ NodeOK(r) /\ kind' = kind /\ Routing' = Routing
      /\ known[r] \in 0..version /\ rows[r] \in 0..version
  BY NodeFacts, Zenon DEF LogGrows, Routing
<1>b. /\ rows'[r] = rows[r] /\ known'[r] = known[r] /\ primed'[r] = primed[r]
      /\ seeded'[r] = seeded[r] /\ pending'[r] = pending[r]
      /\ cached'[r] = cached[r] /\ refresh'[r] = refresh[r]
      /\ reader'[r] = reader[r] /\ writer'[r] = writer[r]
  BY Zenon DEF Start
<1>c. phase[r] = "load" /\ phase'[r] = "idle" /\ ~refresh[r].on
  BY DEF Start, CInv, Shape
<1>v. known[r] < version => known[r] < version'
  BY <1>a, Bounds DEF LogGrows
<1>1. RunsOK(r)'
  BY <1>a, <1>b, <1>c, Zenon DEF NodeOK, RunsOK, Serving
<1>2. FillOK(r)'
  BY <1>a, <1>b, <1>c, StillReflects, Zenon DEF NodeOK, FillOK
<1>3. RefreshOK(r)'
  BY <1>a, <1>b, <1>c, StillReflects, Zenon DEF NodeOK, RefreshOK
<1>4. SnapshotOK(r)'
  BY <1>a, <1>b, <1>c, <1>v, StillReflects, Zenon DEF NodeOK, SnapshotOK
<1> QED BY <1>1, <1>2, <1>3, <1>4, Zenon DEF NodeOK

\* What a refresh reads reflects every version.
LEMMA RefreshReadOK ==
    ASSUME CInv, LogGrows, LogOK', NEW r \in Nodes, RefreshRead(r)
    PROVE  NodeOK(r)'
<1>a. /\ NodeOK(r) /\ kind' = kind /\ Routing' = Routing
      /\ known[r] \in 0..version /\ rows[r] \in 0..version
  BY NodeFacts, Zenon DEF LogGrows, Routing
<1>b. /\ phase'[r] = phase[r] /\ rows'[r] = rows[r] /\ known'[r] = known[r]
      /\ primed'[r] = primed[r] /\ seeded'[r] = seeded[r]
      /\ pending'[r] = pending[r] /\ cached'[r] = cached[r]
      /\ reader'[r] = reader[r] /\ writer'[r] = writer[r]
  BY Zenon DEF RefreshRead
<1>c. /\ refresh'[r].value = written /\ refresh'[r].on = refresh[r].on
      /\ written' = written /\ refresh[r].on
  BY Zenon DEF RefreshRead, CInv, Shape, Refreshes
<1>v. known[r] < version => known[r] < version'
  BY <1>a, Bounds DEF LogGrows
<1>1. RunsOK(r)'
  BY <1>a, <1>b, <1>c, Zenon DEF NodeOK, RunsOK, Serving
<1>2. FillOK(r)'
  BY <1>a, <1>b, <1>c, StillReflects, Zenon DEF NodeOK, FillOK
<1>3. RefreshOK(r)'
  BY <1>a, <1>b, <1>c, ReadReflects, StillReflects, Zenon DEF NodeOK, RefreshOK
<1>4. SnapshotOK(r)'
  BY <1>a, <1>b, <1>c, <1>v, StillReflects, Zenon DEF NodeOK, SnapshotOK
<1> QED BY <1>1, <1>2, <1>3, <1>4, Zenon DEF NodeOK

\* A refresh that fails stores nothing.
LEMMA RefreshFailsOK ==
    ASSUME CInv, LogGrows, LogOK', NEW r \in Nodes, RefreshFails(r)
    PROVE  NodeOK(r)'
<1>a. /\ NodeOK(r) /\ kind' = kind /\ Routing' = Routing
      /\ known[r] \in 0..version /\ rows[r] \in 0..version
  BY NodeFacts, Zenon DEF LogGrows, Routing
<1>b. /\ rows'[r] = rows[r] /\ known'[r] = known[r] /\ primed'[r] = primed[r]
      /\ seeded'[r] = seeded[r] /\ pending'[r] = pending[r]
      /\ cached'[r] = cached[r] /\ reader'[r] = reader[r] /\ writer'[r] = writer[r]
  BY Zenon DEF RefreshFails
<1>c. /\ ~refresh'[r].on /\ refresh'[r].value = Nothing /\ refresh[r].on
      /\ phase'[r] = IF phase[r] = "rows" THEN "idle" ELSE phase[r]
  BY DEF RefreshFails, NoRefresh, CInv, Shape
<1>v. known[r] < version => known[r] < version'
  BY <1>a, Bounds DEF LogGrows
<1>1. RunsOK(r)'
  BY <1>a, <1>b, <1>c, Zenon DEF NodeOK, RunsOK, Serving
<1>2. FillOK(r)'
  BY <1>a, <1>b, <1>c, StillReflects, Zenon DEF NodeOK, FillOK
<1>3. RefreshOK(r)'
  BY <1>a, <1>b, <1>c, StillReflects, Zenon DEF NodeOK, RefreshOK
<1>4. SnapshotOK(r)'
  BY <1>a, <1>b, <1>c, <1>v, StillReflects, Zenon DEF NodeOK, SnapshotOK, RunsOK
<1> QED BY <1>1, <1>2, <1>3, <1>4, Zenon DEF NodeOK

\* The poll takes the requested bump along.
LEMMA PollBeginsOK ==
    ASSUME CInv, LogGrows, LogOK', NEW r \in Nodes, PollBegins(r)
    PROVE  NodeOK(r)'
<1>a. /\ NodeOK(r) /\ kind' = kind /\ Routing' = Routing
      /\ known[r] \in 0..version /\ rows[r] \in 0..version
  BY NodeFacts, Zenon DEF LogGrows, Routing
<1>b. /\ rows'[r] = rows[r] /\ known'[r] = known[r] /\ primed'[r] = primed[r]
      /\ seeded'[r] = seeded[r] /\ cached'[r] = cached[r]
      /\ refresh'[r] = refresh[r] /\ reader'[r] = reader[r] /\ writer'[r] = writer[r]
  BY Zenon DEF PollBegins
<1>c. /\ phase[r] = "idle" /\ ~pending'[r]
      /\ phase'[r] = IF pending[r] THEN "flush" ELSE "read"
  BY DEF PollBegins, CInv, Shape
<1>v. known[r] < version => known[r] < version'
  BY <1>a, Bounds DEF LogGrows
<1>1. RunsOK(r)'
  BY <1>a, <1>b, <1>c, Zenon DEF NodeOK, RunsOK, Serving
<1>2. FillOK(r)'
  BY <1>a, <1>b, <1>c, StillReflects, Zenon DEF NodeOK, FillOK
<1>3. RefreshOK(r)'
  BY <1>a, <1>b, <1>c, StillReflects, Zenon DEF NodeOK, RefreshOK
<1>4. SnapshotOK(r)'
  BY <1>a, <1>b, <1>c, <1>v, StillReflects, Zenon DEF NodeOK, SnapshotOK
<1> QED BY <1>1, <1>2, <1>3, <1>4, Zenon DEF NodeOK

\* A flushed bump is a version the replica has not acknowledged.
LEMMA FlushBumpOK ==
    ASSUME CInv, LogGrows, LogOK', NEW r \in Nodes, FlushBump(r)
    PROVE  NodeOK(r)'
<1>a. /\ NodeOK(r) /\ kind' = kind /\ Routing' = Routing
      /\ known[r] \in 0..version /\ rows[r] \in 0..version
  BY NodeFacts, Zenon DEF LogGrows, Routing
<1>b. /\ rows'[r] = rows[r] /\ known'[r] = known[r] /\ primed'[r] = primed[r]
      /\ seeded'[r] = seeded[r] /\ pending'[r] = pending[r]
      /\ cached'[r] = cached[r] /\ refresh'[r] = refresh[r]
      /\ reader'[r] = reader[r] /\ writer'[r] = writer[r]
  BY Zenon DEF FlushBump
<1>c. phase[r] = "flush" /\ phase'[r] = "flushed" /\ BumpOnce
  BY DEF FlushBump, CInv, Shape
<1>v. known[r] < version => known[r] < version'
  BY <1>a, Bounds DEF LogGrows
<1>1. RunsOK(r)'
  BY <1>a, <1>b, <1>c, Zenon DEF NodeOK, RunsOK, Serving
<1>2. FillOK(r)'
  BY <1>a, <1>b, <1>c, StillReflects, Zenon DEF NodeOK, FillOK
<1>3. RefreshOK(r)'
  BY <1>a, <1>b, <1>c, StillReflects, Zenon DEF NodeOK, RefreshOK
<1>4. SnapshotOK(r)'
  <2>1. version' = version + 1
    BY <1>c DEF BumpOnce, CInv, LogOK, version
  <2>2. known[r] < version'
    BY <1>a, <2>1, Bounds
  <2> QED BY <1>b, <2>2, Zenon DEF SnapshotOK
<1> QED BY <1>1, <1>2, <1>3, <1>4, Zenon DEF NodeOK

\* A bump that failed stays requested.
LEMMA FlushEndsOK ==
    ASSUME CInv, LogGrows, LogOK', NEW r \in Nodes, FlushEnds(r)
    PROVE  NodeOK(r)'
<1>a. /\ NodeOK(r) /\ kind' = kind /\ Routing' = Routing
      /\ known[r] \in 0..version /\ rows[r] \in 0..version
  BY NodeFacts, Zenon DEF LogGrows, Routing
<1>b. /\ rows'[r] = rows[r] /\ known'[r] = known[r] /\ primed'[r] = primed[r]
      /\ seeded'[r] = seeded[r] /\ cached'[r] = cached[r]
      /\ refresh'[r] = refresh[r] /\ reader'[r] = reader[r] /\ writer'[r] = writer[r]
  BY Zenon DEF FlushEnds
<1>c. /\ phase'[r] = "read" /\ phase[r] \in {"flush", "flushed"}
      /\ \/ pending'[r]
         \/ pending'[r] = pending[r] /\ phase[r] = "flushed"
  <2>1. phase'[r] = "read" /\ phase[r] \in {"flush", "flushed"}
    BY Zenon DEF FlushEnds, CInv, Shape
  <2>2. \/ pending' = pending /\ phase[r] = "flushed"
        \/ pending' = [pending EXCEPT ![r] = TRUE]
    BY Zenon DEF FlushEnds
  <2>3. CASE pending' = [pending EXCEPT ![r] = TRUE]
    <3>1. pending'[r]
      BY <2>3, Zenon DEF CInv, Shape
    <3> QED BY <2>1, <3>1, Zenon
  <2>4. CASE pending' = pending /\ phase[r] = "flushed"
    BY <2>1, <2>4, Zenon
  <2> QED BY <2>2, <2>3, <2>4, Zenon
<1>v. known[r] < version => known[r] < version'
  BY <1>a, Bounds DEF LogGrows
<1>1. RunsOK(r)'
  BY <1>a, <1>b, <1>c, Zenon DEF NodeOK, RunsOK, Serving
<1>2. FillOK(r)'
  BY <1>a, <1>b, <1>c, StillReflects, Zenon DEF NodeOK, FillOK
<1>3. RefreshOK(r)'
  BY <1>a, <1>b, <1>c, StillReflects, Zenon DEF NodeOK, RefreshOK
<1>4. SnapshotOK(r)'
  BY <1>a, <1>b, <1>c, <1>v, StillReflects, Zenon DEF NodeOK, SnapshotOK
<1> QED BY <1>1, <1>2, <1>3, <1>4, Zenon DEF NodeOK

\* The poll reads the version.
LEMMA PollReadOK ==
    ASSUME CInv, LogGrows, LogOK', NEW r \in Nodes, PollRead(r)
    PROVE  NodeOK(r)'
<1>a. /\ NodeOK(r) /\ kind' = kind /\ Routing' = Routing
      /\ known[r] \in 0..version /\ rows[r] \in 0..version
  BY NodeFacts, Zenon DEF LogGrows, Routing
<1>b. /\ known'[r] = known[r] /\ primed'[r] = primed[r] /\ seeded'[r] = seeded[r]
      /\ pending'[r] = pending[r] /\ cached'[r] = cached[r]
      /\ refresh'[r] = refresh[r] /\ reader'[r] = reader[r] /\ writer'[r] = writer[r]
  BY Zenon DEF PollRead
<1>c. phase[r] = "read" /\ phase'[r] \in {"rows", "idle"}
  BY DEF PollRead, CInv, Shape
<1>v. known[r] < version => known[r] < version'
  BY <1>a, Bounds DEF LogGrows
<1>1. RunsOK(r)'
  BY <1>a, <1>b, <1>c, Zenon DEF NodeOK, RunsOK, Serving
<1>2. FillOK(r)'
  BY <1>a, <1>b, <1>c, StillReflects, Zenon DEF NodeOK, FillOK
<1>3. RefreshOK(r)'
  BY <1>a, <1>b, <1>c, Zenon DEF NodeOK, RefreshOK, RunsOK
<1>4. SnapshotOK(r)'
  BY <1>a, <1>b, <1>c, <1>v, StillReflects, Zenon DEF NodeOK, SnapshotOK
<1> QED BY <1>1, <1>2, <1>3, <1>4, Zenon DEF NodeOK

\* A lost replica forgets everything.
LEMMA LoseOK ==
    ASSUME CInv, LogGrows, LogOK', NEW r \in Nodes, Lose(r)
    PROVE  NodeOK(r)'
<1>a. /\ NodeOK(r) /\ kind' = kind /\ Routing' = Routing
      /\ known[r] \in 0..version /\ rows[r] \in 0..version
  BY NodeFacts, Zenon DEF LogGrows, Routing
<1>c. /\ phase'[r] = "off" /\ ~seeded'[r] /\ cached'[r] = Nothing /\ writer'[r].at = "none"
      /\ ~refresh'[r].on /\ refresh'[r].value = Nothing /\ ~reader'[r].on
  BY DEF Lose, NoRefresh, NoReader, NoWriter, CInv, Shape
<1>1. RunsOK(r)'
  BY <1>c, Zenon DEF RunsOK
<1>2. FillOK(r)'
  BY <1>c, Zenon DEF FillOK
<1>3. RefreshOK(r)'
  BY <1>c, Zenon DEF RefreshOK
<1>4. SnapshotOK(r)'
  BY <1>c, Zenon DEF SnapshotOK
<1> QED BY <1>1, <1>2, <1>3, <1>4, Zenon DEF NodeOK

\* A mutation empties its cache, or marks the account and requests a bump.
LEMMA ApplyOK ==
    ASSUME CInv, LogGrows, LogOK', NEW r \in Nodes, Apply(r)
    PROVE  NodeOK(r)'
<1>a. /\ NodeOK(r) /\ kind' = kind /\ Routing' = Routing
      /\ known[r] \in 0..version /\ rows[r] \in 0..version
  BY NodeFacts, Zenon DEF LogGrows, Routing
<1>b. /\ phase'[r] = phase[r] /\ rows'[r] = rows[r] /\ known'[r] = known[r]
      /\ primed'[r] = primed[r] /\ seeded'[r] = seeded[r]
      /\ refresh'[r] = refresh[r]
  BY Zenon DEF Apply
<1>c. /\ writer[r].at = "committed" /\ (writer'[r].at = "none" \/ writer'[r].at = "bump")
      /\ Routing => /\ pending'[r] /\ reader'[r] = reader[r]
                    /\ cached[r] = Nothing => cached'[r] = Nothing
      /\ ~Routing => cached'[r] = Nothing /\ ~reader'[r].valid
      /\ reader'[r].on = reader[r].on
  <2>0. /\ writer[r] \in Writers /\ writer \in [Nodes -> Writers]
        /\ reader[r] \in Readers /\ reader \in [Nodes -> Readers]
        /\ pending \in [Nodes -> BOOLEAN] /\ cached \in [Nodes -> Held]
    BY Zenon DEF CInv, Shape
  <2>1. writer[r].at = "committed"
    BY Zenon DEF Apply
  <2>2. \E p \in {"none", "bump"} : writer' = [writer EXCEPT ![r] = [writer[r] EXCEPT !.at = p]]
    <3>1. (CASE kind = "account_selection" -> {"none"}
             [] Routing -> {"none", "bump"}
             [] OTHER -> {"bump"}) \subseteq {"none", "bump"}
      BY DEF Routing
    <3> QED BY <3>1, Zenon DEF Apply
  <2>3. writer'[r].at = "none" \/ writer'[r].at = "bump"
    <3>1. PICK p \in {"none", "bump"} : writer' = [writer EXCEPT ![r] = [writer[r] EXCEPT !.at = p]]
      BY <2>2, Zenon
    <3>2. writer'[r].at = p
      BY <2>0, <3>1, Zenon DEF Writers
    <3> QED BY <3>1, <3>2
  <2>4. ASSUME Routing PROVE pending'[r] /\ reader'[r] = reader[r]
    BY <2>0, <2>4, Zenon DEF Apply, Routing
  <2>5. ASSUME Routing, cached[r] = Nothing PROVE cached'[r] = Nothing
    BY <2>0, <2>5, Zenon DEF Apply, MarkOrClear
  <2>6. ASSUME ~Routing
        PROVE cached'[r] = Nothing /\ ~reader'[r].valid /\ reader'[r].on = reader[r].on
    <3>1. /\ cached' = [cached EXCEPT ![r] = Nothing]
          /\ reader' = [reader EXCEPT ![r] = [reader[r] EXCEPT !.valid = FALSE]]
      BY <2>6, Zenon DEF Apply, Drop
    <3> QED BY <2>0, <3>1, Zenon DEF Readers
  <2> QED BY <2>1, <2>3, <2>4, <2>5, <2>6, Zenon
<1>v. known[r] < version => known[r] < version'
  BY <1>a, Bounds DEF LogGrows
<1>1. RunsOK(r)'
  BY <1>a, <1>b, <1>c, Zenon DEF NodeOK, RunsOK, Serving
<1>2. FillOK(r)'
  BY <1>a, <1>b, <1>c, StillReflects, Zenon DEF NodeOK, FillOK
<1>3. RefreshOK(r)'
  BY <1>a, <1>b, <1>c, StillReflects, Zenon DEF NodeOK, RefreshOK
<1>4. SnapshotOK(r)'
  BY <1>a, <1>b, <1>c, Zenon DEF SnapshotOK
<1> QED BY <1>1, <1>2, <1>3, <1>4, Zenon DEF NodeOK

\* Before the first load there is nothing to be stale.
LEMMA PrimeOK ==
    ASSUME CInv, LogGrows, LogOK', NEW r \in Nodes, Prime(r)
    PROVE  NodeOK(r)'
<1>a. /\ NodeOK(r) /\ kind' = kind /\ Routing' = Routing
      /\ known[r] \in 0..version /\ rows[r] \in 0..version
  BY NodeFacts, Zenon DEF LogGrows, Routing
<1>b. /\ rows'[r] = rows[r] /\ pending'[r] = pending[r] /\ cached'[r] = cached[r]
      /\ reader'[r] = reader[r] /\ writer'[r] = writer[r]
  BY Zenon DEF Prime
<1>c. /\ phase[r] = "prime" /\ phase'[r] = "load"
      /\ refresh'[r].on = Routing /\ refresh'[r].value = refresh[r].value
      /\ primed'[r] \/ (primed'[r] = primed[r] /\ seeded'[r] = seeded[r])
  <2>0. refresh[r] \in Refreshes /\ refresh \in [Nodes -> Refreshes]
    BY Zenon DEF CInv, Shape
  <2>1. phase[r] = "prime" /\ phase'[r] = "load"
    BY Zenon DEF Prime, CInv, Shape
  <2>2. refresh' = [refresh EXCEPT ![r] = [refresh[r] EXCEPT !.on = Routing, !.marked = mark[r]]]
    BY Zenon DEF Prime
  <2>3. refresh'[r].on = Routing /\ refresh'[r].value = refresh[r].value
    BY <2>0, <2>2, Zenon DEF Refreshes
  <2>4. primed'[r] \/ (primed'[r] = primed[r] /\ seeded'[r] = seeded[r])
    BY Zenon DEF Prime, CInv, Shape
  <2> QED BY <2>1, <2>3, <2>4, Zenon
<1>d. /\ cached[r] = Nothing /\ ~reader[r].on /\ refresh[r].value = Nothing
      /\ writer[r].at = "none"
  BY <1>a, <1>c, Zenon DEF NodeOK, RunsOK, Serving
<1>1. RunsOK(r)'
  BY <1>a, <1>b, <1>c, <1>d, Zenon DEF NodeOK, RunsOK
<1>2. FillOK(r)' /\ RefreshOK(r)' /\ SnapshotOK(r)'
  BY <1>b, <1>c, <1>d, Zenon DEF FillOK, RefreshOK, SnapshotOK
<1> QED BY <1>1, <1>2, Zenon DEF NodeOK

\* A refresh that was read for a version reflects it when it is acknowledged.
LEMMA RefreshDoneOK ==
    ASSUME CInv, LogGrows, LogOK', NEW r \in Nodes, RefreshDone(r)
    PROVE  NodeOK(r)'
<1>a. /\ NodeOK(r) /\ kind' = kind /\ Routing' = Routing
      /\ known[r] \in 0..version /\ rows[r] \in 0..version
  BY NodeFacts, Zenon DEF LogGrows, Routing
<1>b. /\ rows'[r] = rows[r] /\ primed'[r] = primed[r] /\ seeded'[r] = seeded[r]
      /\ pending'[r] = pending[r] /\ reader'[r] = reader[r]
      /\ writer'[r] = writer[r]
  BY Zenon DEF RefreshDone
<1>c. /\ refresh[r].on /\ refresh[r].value # Nothing
      /\ ~refresh'[r].on /\ refresh'[r].value = Nothing
      /\ cached'[r] = refresh[r].value
      /\ phase[r] = "rows" => phase'[r] = "idle" /\ known'[r] \in {known[r], rows[r]}
      /\ phase[r] # "rows" => phase'[r] = phase[r] /\ known'[r] = known[r]
  <2>1. /\ refresh[r].on /\ refresh[r].value # Nothing
        /\ ~refresh'[r].on /\ refresh'[r].value = Nothing
        /\ cached'[r] = refresh[r].value
    BY DEF RefreshDone, NoRefresh, CInv, Shape
  <2>2. MaxOf(known[r], rows[r]) \in {known[r], rows[r]}
    BY Zenon DEF MaxOf
  <2>3. phase[r] = "rows" => phase'[r] = "idle" /\ known'[r] \in {known[r], rows[r]}
    BY <2>2, Zenon DEF RefreshDone, Acknowledge, CInv, Shape
  <2>4. phase[r] # "rows" => phase'[r] = phase[r] /\ known'[r] = known[r]
    BY Zenon DEF RefreshDone
  <2> QED BY <2>1, <2>3, <2>4, Zenon
<1>d. Routing /\ phase[r] \in {"load", "rows"}
  BY <1>a, <1>c, Zenon DEF NodeOK, RunsOK
<1>1. RunsOK(r)'
  BY <1>a, <1>b, <1>c, <1>d, Zenon DEF NodeOK, RunsOK, Serving
<1>2. FillOK(r)' /\ RefreshOK(r)'
  BY <1>a, <1>c, <1>d, Zenon DEF FillOK, RefreshOK
<1>3. Reflects(refresh[r].value, known'[r])
  BY <1>a, <1>c, Zenon DEF NodeOK, RefreshOK
<1>4. known'[r] \in 0..version
  BY <1>a, <1>c, Zenon
<1>5. Reflects(cached[r], known[r])'
  BY <1>c, <1>3, <1>4 DEF Reflects, LogGrows
<1>6. SnapshotOK(r)'
  BY <1>5, Zenon DEF SnapshotOK
<1> QED BY <1>1, <1>2, <1>6, Zenon DEF NodeOK

\* A version is acknowledged when nothing changed, or when the cache was emptied.
LEMMA PollRowOK ==
    ASSUME CInv, LogGrows, LogOK', NEW r \in Nodes, PollRow(r)
    PROVE  NodeOK(r)'
<1>a. /\ NodeOK(r) /\ kind' = kind /\ Routing' = Routing
      /\ known[r] \in 0..version /\ rows[r] \in 0..version
  BY NodeFacts, Zenon DEF LogGrows, Routing
<1>b. /\ rows'[r] = rows[r] /\ seeded'[r] = seeded[r] /\ pending'[r] = pending[r]
      /\ writer'[r] = writer[r]
  BY Zenon DEF PollRow
<1>c. /\ phase[r] = "rows" /\ ~refresh[r].on /\ primed'[r]
      /\ \/ /\ Routing /\ refresh'[r].on /\ refresh'[r].value = refresh[r].value
            /\ known'[r] = known[r] /\ phase'[r] = phase[r]
            /\ cached'[r] = cached[r] /\ reader'[r] = reader[r]
         \/ /\ phase'[r] = "idle" /\ refresh'[r] = refresh[r]
            /\ \/ /\ ~Routing /\ cached'[r] = Nothing
                  /\ ~reader'[r].valid /\ reader'[r].on = reader[r].on
               \/ /\ cached'[r] = cached[r] /\ reader'[r] = reader[r]
                  /\ seeded[r] => known'[r] = known[r]
  <2>0. /\ refresh[r] \in Refreshes /\ refresh \in [Nodes -> Refreshes]
        /\ reader[r] \in Readers /\ reader \in [Nodes -> Readers]
        /\ known \in [Nodes -> 0..version] /\ cached \in [Nodes -> Held]
        /\ phase \in [Nodes -> Phases] /\ primed \in [Nodes -> BOOLEAN]
        /\ version \in Nat
    BY Bounds, Zenon DEF CInv, Shape
  <2>1. phase[r] = "rows" /\ ~refresh[r].on /\ primed'[r]
    BY <2>0, Zenon DEF PollRow
  <2>2. CASE Changed(r) /\ Routing
    <3>1. /\ refresh' = [refresh EXCEPT ![r] = [refresh[r] EXCEPT !.on = TRUE, !.marked = mark[r]]]
          /\ UNCHANGED <<known, phase, cached, reader>>
      BY <2>2, Zenon DEF PollRow
    <3>2. refresh'[r].on /\ refresh'[r].value = refresh[r].value
      BY <2>0, <3>1, Zenon DEF Refreshes
    <3> QED BY <2>1, <2>2, <3>1, <3>2, Zenon
  <2>3. CASE ~(Changed(r) /\ Routing)
    <3>1. /\ known' = [known EXCEPT ![r] = MaxOf(known[r], rows[r])]
          /\ phase' = [phase EXCEPT ![r] = "idle"]
          /\ IF Changed(r) THEN Drop(r) ELSE UNCHANGED <<cached, reader>>
          /\ refresh' = refresh
      BY <2>3, Zenon DEF PollRow, Acknowledge
    <3>2. phase'[r] = "idle" /\ refresh'[r] = refresh[r]
      BY <2>0, <3>1, Zenon
    <3>3. CASE Changed(r)
      <4>1. /\ cached' = [cached EXCEPT ![r] = Nothing]
            /\ reader' = [reader EXCEPT ![r] = [reader[r] EXCEPT !.valid = FALSE]]
        BY <3>1, <3>3, Zenon DEF Drop
      <4>2. cached'[r] = Nothing /\ ~reader'[r].valid /\ reader'[r].on = reader[r].on
        BY <2>0, <4>1, Zenon DEF Readers
      <4> QED BY <2>1, <2>3, <3>2, <3>3, <4>2, Zenon
    <3>4. CASE ~Changed(r)
      <4>1. seeded[r] => ~(rows[r] > known[r])
        BY <1>a, <3>4, Zenon DEF Changed, NodeOK, RunsOK
      <4>2. seeded[r] => MaxOf(known[r], rows[r]) = known[r]
        BY <1>a, <2>0, <4>1 DEF MaxOf
      <4>3. seeded[r] => known'[r] = known[r]
        BY <2>0, <3>1, <4>2, Zenon
      <4>4. cached'[r] = cached[r] /\ reader'[r] = reader[r]
        BY <3>1, <3>4, Zenon
      <4> QED BY <2>1, <3>2, <4>3, <4>4, Zenon
    <3> QED BY <3>3, <3>4, Zenon
  <2> QED BY <2>2, <2>3, Zenon
<1>v. known[r] < version => known[r] < version'
  BY <1>a, Bounds DEF LogGrows
<1>1. RunsOK(r)'
  BY <1>a, <1>b, <1>c, Zenon DEF NodeOK, RunsOK, Serving
<1>2. FillOK(r)'
  BY <1>a, <1>b, <1>c, StillReflects, Zenon DEF NodeOK, FillOK
<1>3. RefreshOK(r)'
  BY <1>a, <1>b, <1>c, Zenon DEF NodeOK, RefreshOK, RunsOK
<1>4. SnapshotOK(r)'
  BY <1>a, <1>b, <1>c, <1>v, StillReflects, Zenon DEF NodeOK, SnapshotOK
<1> QED BY <1>1, <1>2, <1>3, <1>4, Zenon DEF NodeOK

-----------------------------------------------------------------------------
(* The invariant holds.                                                    *)

\* The replicas start with empty caches and an empty log.
LEMMA CacheInitOK == ASSUME CacheInit PROVE CInv
<1>1. LogOK /\ version = 0
  <2>1. 0 \in Changes
    BY CacheAssumption DEF Changes
  <2>2. <<>> \in Seq(Changes) /\ Len(<<>>) = 0
    OBVIOUS
  <2> QED BY <2>1, <2>2 DEF CacheInit, LogOK, version
<1>2. 0 \in 0..version /\ 0 \in Changes
  BY <1>1, CacheAssumption DEF Changes
<1>3. NoRefresh \in Refreshes /\ NoReader \in Readers /\ NoWriter \in Writers
  BY <1>2, Zenon DEF NoRefresh, NoReader, NoWriter, Refreshes, Readers, Writers, Held
<1>4. Shape
  BY <1>2, <1>3 DEF CacheInit, Shape, Phases, Held
<1>5. ASSUME NEW r \in Nodes PROVE NodeOK(r)
  <2>1. /\ phase[r] = "off" /\ ~seeded[r] /\ cached[r] = Nothing /\ writer[r].at = "none"
        /\ ~refresh[r].on /\ refresh[r].value = Nothing /\ ~reader[r].on
    BY DEF CacheInit, NoRefresh, NoReader, NoWriter
  <2> QED BY <2>1, Zenon DEF NodeOK, RunsOK, FillOK, RefreshOK, SnapshotOK
<1> QED BY <1>1, <1>4, <1>5, Zenon DEF CInv, CacheInit

\* Every step keeps it.
LEMMA CacheStepOK == ASSUME CInv, [CacheNext]_cacheVars PROVE CInv'
<1>1. CASE CacheNext
  <2>1. LogOK' /\ LogGrows
    BY <1>1, LogSteps, Zenon DEF CInv
  <2>2. PICK r \in Nodes :
          \/ Task(r) \/ RefreshFails(r) \/ Lose(r)
          \/ Commit(r) \/ Mutation(r)
          \/ ReadMiss(r) \/ ReadRow(r) \/ Fill(r) \/ ExpireEntry(r)
    BY <1>1, Zenon DEF CacheNext
  <2>3. Shape' /\ \A q \in Nodes \ {r} : Same(q)
    BY <2>1, <2>2, Framed, Zenon
  <2>4. NodeOK(r)'
    <3>1. CASE Task(r)
      BY <2>1, <3>1, BootOK, PrimeOK, StartOK, RefreshReadOK, RefreshDoneOK, PollBeginsOK,
         FlushBumpOK, FlushEndsOK, PollReadOK, PollRowOK, Zenon DEF Task
    <3>2. CASE Mutation(r)
      BY <2>1, <3>2, ApplyOK, DurableBumpOK, AckLocalOK, Zenon DEF Mutation
    <3>3. CASE RefreshFails(r) \/ Lose(r) \/ Commit(r)
      BY <2>1, <3>3, RefreshFailsOK, LoseOK, CommitOK, Zenon
    <3>4. CASE ReadMiss(r) \/ ReadRow(r) \/ Fill(r) \/ ExpireEntry(r)
      BY <2>1, <3>4, ReadMissOK, ReadRowOK, FillStepOK, ExpireOK, Zenon
    <3> QED BY <2>2, <3>1, <3>2, <3>3, <3>4, Zenon
  <2>5. \A q \in Nodes : NodeOK(q)'
    BY <2>1, <2>3, <2>4, OthersKept, Zenon
  <2> QED BY <2>1, <2>3, <2>5, Zenon DEF CInv, LogGrows
<1>2. CASE UNCHANGED cacheVars
  <2>1. UNCHANGED <<kind, written, bumpedAt>>
    BY <1>2, Zenon DEF cacheVars
  <2>2. LogOK' /\ LogGrows
    BY <2>1, LogKept, Zenon DEF CInv
  <2>3. version' = version
    BY <2>1 DEF version
  <2>4. Shape'
    BY <1>2, <2>3, Zenon DEF CInv, cacheVars, Shape, Held, Refreshes, Readers,
       Writers, Changes
  <2>5. ASSUME NEW q \in Nodes PROVE NodeOK(q)'
    <3>1. Same(q)
      BY <1>2, Zenon DEF cacheVars, Same
    <3> QED BY <2>2, <3>1, OthersKept, Zenon
  <2> QED BY <2>2, <2>4, <2>5, Zenon DEF CInv, LogGrows
<1> QED BY <1>1, <1>2, Zenon

\* Types, and that a reader, a refresh and a mutation run only in the phases of
\* the lifespan and poll tasks (invalidation.py) that start them.
THEOREM CacheTypeCorrect == CacheSpec => []CacheTypeOK
<1>1. ASSUME CInv PROVE CacheTypeOK
  <2>1. kind \in Kinds /\ LogOK /\ Shape /\ \A r \in Nodes : NodeOK(r)
    BY <1>1, Zenon DEF CInv
  <2>2. ASSUME NEW r \in Nodes
        PROVE  /\ phase[r] \in Phases
               /\ rows[r] \in 0..version /\ known[r] \in 0..version
               /\ primed[r] \in BOOLEAN /\ pending[r] \in BOOLEAN /\ mark[r] \in BOOLEAN
               /\ cached[r] \in Held
               /\ writer[r].at \in {"none", "committed", "bump", "ack"}
    BY <2>1, Zenon DEF Shape, Writers
  <2>3. ASSUME NEW r \in Nodes
        PROVE  /\ refresh[r].on => Routing /\ phase[r] \in {"load", "rows"}
               /\ reader[r].on => ~Routing /\ Serving(r)
               /\ writer[r].at # "none" => Serving(r)
    BY <2>1, Zenon DEF NodeOK, RunsOK
  <2> QED BY <2>1, <2>2, <2>3, Zenon DEF CacheTypeOK, LogOK, Phases, Held
<1> QED BY <1>1, CacheInitOK, CacheStepOK, PTL DEF CacheSpec

\* What a replica serves is no older than the version it acknowledged, but for
\* a routing snapshot that its own bump is about to reload (_poll_once of
\* invalidation.py, set(if_version) and refresh_from_db of account_cache.py).
THEOREM AcknowledgedReflected == CacheSpec => []AcknowledgedIsReflected
<1>1. ASSUME CInv PROVE AcknowledgedIsReflected
  <2> SUFFICES ASSUME NEW r \in Nodes, kind # "reset_credits", seeded[r],
                      cached[r] # Nothing, known[r] > 0
               PROVE  \/ cached[r] >= bumpedAt[known[r]]
                      \/ Routing /\ \/ pending[r] \/ phase[r] = "flush"
                                    \/ known[r] < version
    BY Zenon DEF AcknowledgedIsReflected
  <2>1. FillOK(r) /\ SnapshotOK(r)
    BY <1>1, Zenon DEF CInv, NodeOK
  <2>2. CASE Routing
    BY <2>1, <2>2, Zenon DEF SnapshotOK, Reflects
  <2>3. CASE ~Routing
    BY <2>1, <2>3, Zenon DEF FillOK, Reflects
  <2> QED BY <2>2, <2>3, Zenon
<1> QED BY <1>1, CacheInitOK, CacheStepOK, PTL DEF CacheSpec

=============================================================================
