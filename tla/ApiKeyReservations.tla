------------------------- MODULE ApiKeyReservations -------------------------
(***************************************************************************)
(* Usage limits of one API key (app/modules/api_keys): a request reserves  *)
(* a budget on every limit that applies to it, streams while a heartbeat   *)
(* keeps the reservation fresh, and settles it once, in a task detached    *)
(* from the response.  Windows of limits run out and are reset by requests *)
(* and by the hourly scheduler, which also releases reservations nobody    *)
(* touched for hours.                                                      *)
(*                                                                         *)
(* A database transaction is one step; what a handler read before it is in *)
(* a variable of the request.  The reset instant of a limit is abstracted  *)
(* to a counter of its windows (every reset writes an instant not used     *)
(* before) and a flag that the instant has passed; tokens and costs are    *)
(* small numbers.                                                          *)
(***************************************************************************)
EXTENDS Integers, FiniteSets, FiniteSetsExt

CONSTANTS
  Requests,
  Limits,
  Applies,      \* Applies[q]: the limits whose model filter lets q through
  Budget,       \* Budget[q]: what q wants to reserve on each of them
  Usage,        \* what a finished stream may turn out to have used
  MaxValues,    \* values of max_value
  MaxWindows,   \* windows of a limit in a behaviour
  MaxFaults,    \* database errors and lost processes in a behaviour
  MaxEdits      \* edits of the key in a behaviour

VARIABLES
  limit,     \* current_value, max_value, window (reset_at) and expired
  valid,     \* the key is active and not expired
  status,    \* of the reservation row of a request, "none" before it exists
  items,     \* its items: reserved_delta, window (expected_reset_at), actual
  stale,     \* updated_at is older than the cutoff of the sweep
  pc,        \* what the request and its settlement task are doing
  seen,      \* the limits as the request read them
  used,      \* tokens the finished stream reported, or -1
  batch,     \* ids the sweep selected
  edit,      \* limits as a usage reset of the dashboard read them
  carried,   \* history: value a usage reset carried into the new window
  faults, edits

vars == <<limit, valid, status, items, stale, pc, seen, used, batch, edit,
          carried, faults, edits>>

NoEdit == <<>>

Init ==
  /\ \E m \in MaxValues :
       limit = [l \in Limits |-> [current |-> 0, max |-> m, window |-> 0,
                                  expired |-> FALSE]]
  /\ valid = TRUE
  /\ status = [q \in Requests |-> "none"]
  /\ items = [q \in Requests |->
                [l \in Limits |-> [reserved |-> 0, window |-> 0, actual |-> 0]]]
  /\ stale = [q \in Requests |-> FALSE]
  /\ pc = [q \in Requests |-> "new"]
  /\ seen = [q \in Requests |-> NoEdit]
  /\ used = [q \in Requests |-> -1]
  /\ batch = {}
  /\ edit = NoEdit
  /\ carried = [l \in Limits |-> 0]
  /\ faults = 0
  /\ edits = 0

Fault == faults < MaxFaults /\ faults' = faults + 1

Smaller(m, n) == IF m < n THEN m ELSE n

(***************************************************************************)
(* Windows.                                                                *)
(***************************************************************************)
WindowEnds(l) ==
  /\ ~limit[l].expired /\ limit[l].window < MaxWindows
  /\ limit' = [limit EXCEPT ![l].expired = TRUE]
  /\ UNCHANGED <<valid, status, items, stale, pc, seen, used, batch, edit,
                 carried, faults, edits>>

(* reset_limit: only if the window is still the one that was read. *)
ResetLimit(now, l, window) ==
  IF now.window = window
  THEN [now EXCEPT !.current = 0, !.window = @ + 1, !.expired = FALSE]
  ELSE now

(* reset_expired_limits: selects the expired rows and resets each. *)
ResetExpired ==
  /\ \E l \in Limits : limit[l].expired
  /\ limit' = [l \in Limits |->
       IF limit[l].expired THEN ResetLimit(limit[l], l, limit[l].window) ELSE limit[l]]
  /\ carried' = [l \in Limits |-> IF limit[l].expired THEN 0 ELSE carried[l]]
  /\ UNCHANGED <<valid, status, items, stale, pc, seen, used, batch, edit,
                 faults, edits>>

(***************************************************************************)
(* enforce_limits_for_request.                                             *)
(***************************************************************************)
(* The key and its limits are read; an expired one is reset first. *)
Look(q) ==
  /\ pc[q] = "new"
  /\ IF valid
     THEN /\ seen' = [seen EXCEPT ![q] = limit]
          /\ pc' = [pc EXCEPT ![q] =
               IF \E l \in Limits : limit[l].expired THEN "expired" ELSE "seen"]
     ELSE pc' = [pc EXCEPT ![q] = "refused"] /\ UNCHANGED seen
  /\ UNCHANGED <<limit, valid, status, items, stale, used, batch, edit, carried,
                 faults, edits>>

(* _lazy_reset_expired_limits, each reset under its own commit. *)
LazyReset(q) ==
  /\ pc[q] = "expired"
  /\ LET due == {l \in Limits : seen[q][l].expired /\ limit[l].window = seen[q][l].window} IN
       /\ limit' = [l \in Limits |->
            IF l \in due THEN ResetLimit(limit[l], l, seen[q][l].window) ELSE limit[l]]
       /\ carried' = [l \in Limits |-> IF l \in due THEN 0 ELSE carried[l]]
  /\ pc' = [pc EXCEPT ![q] = "again"]
  /\ UNCHANGED <<valid, status, items, stale, seen, used, batch, edit, faults,
                 edits>>

LookAgain(q) ==
  /\ pc[q] = "again"
  /\ IF valid
     THEN seen' = [seen EXCEPT ![q] = limit] /\ pc' = [pc EXCEPT ![q] = "seen"]
     ELSE pc' = [pc EXCEPT ![q] = "refused"] /\ UNCHANGED seen
  /\ UNCHANGED <<limit, valid, status, items, stale, used, batch, edit, carried,
                 faults, edits>>

(* _reserve_delta_for_limit, from the values that were read. *)
Delta(q, l) == Smaller(seen[q][l].max - seen[q][l].current, Budget[q])

Exhausted(q) == \E l \in Applies[q] : seen[q][l].current >= seen[q][l].max

TryReserveSeen(q, l) ==
  Delta(q, l) > 0 => seen[q][l].current + Delta(q, l) <= limit[l].max

(* try_reserve_usage on the row as it is now. *)
TryReserve(q, l) ==
  Delta(q, l) > 0 =>
    /\ limit[l].window = seen[q][l].window
    /\ limit[l].current + Delta(q, l) <= limit[l].max

ReserveUnrecorded(q) ==
  /\ pc[q] = "seen" /\ ~Exhausted(q) /\ \A l \in Applies[q] : TryReserve(q, l)
  /\ limit' = [l \in Limits |->
       IF l \in Applies[q] THEN [limit[l] EXCEPT !.current = @ + Delta(q, l)]
       ELSE limit[l]]
  /\ pc' = [pc EXCEPT ![q] = "streaming"]
  /\ UNCHANGED <<valid, status, items, stale, seen, used, batch, edit, carried,
                 faults, edits>>

(* A transaction that reserves on every limit or on none. *)
Reserve(q) ==
  /\ pc[q] = "seen" /\ ~Exhausted(q) /\ \A l \in Applies[q] : TryReserve(q, l)
  /\ limit' = [l \in Limits |->
       IF l \in Applies[q] THEN [limit[l] EXCEPT !.current = @ + Delta(q, l)]
       ELSE limit[l]]
  /\ items' = [items EXCEPT ![q] = [l \in Limits |->
       IF l \in Applies[q]
       THEN [reserved |-> Delta(q, l), window |-> seen[q][l].window, actual |-> 0]
       ELSE @[l]]]
  /\ status' = [status EXCEPT ![q] = "reserved"]
  /\ \/ pc' = [pc EXCEPT ![q] = "streaming"] /\ UNCHANGED faults
     \/ Fault /\ pc' = [pc EXCEPT ![q] = "gone"]   \* committed, answer lost
  /\ seen' = [seen EXCEPT ![q] = NoEdit]
  /\ UNCHANGED <<valid, stale, used, batch, edit, carried, edits>>

Refuse(q) ==
  /\ pc[q] = "seen"
  /\ Exhausted(q) \/ \E l \in Applies[q] : ~TryReserve(q, l)
  /\ pc' = [pc EXCEPT ![q] = "refused"]
  /\ seen' = [seen EXCEPT ![q] = NoEdit]
  /\ UNCHANGED <<limit, valid, status, items, stale, used, batch, edit,
                 carried, faults, edits>>

(* The database was locked: rolled back, and tried again from the start. *)
RetryReserve(q) ==
  /\ pc[q] = "seen" /\ Fault
  /\ pc' = [pc EXCEPT ![q] = "new"]
  /\ UNCHANGED <<limit, valid, status, items, stale, seen, used, batch, edit,
                 carried, edits>>

(***************************************************************************)
(* The stream and its heartbeat.                                           *)
(***************************************************************************)
(* Hours pass without a touch: nobody holds the reservation any more, or    *)
(* the touches of a running stream fail.                                   *)
Ages(q) ==
  /\ status[q] = "reserved" /\ ~stale[q]
  /\ \/ pc[q] \in {"gone", "settled"} /\ UNCHANGED faults
     \/ pc[q] = "streaming" /\ Fault
  /\ stale' = [stale EXCEPT ![q] = TRUE]
  /\ UNCHANGED <<limit, valid, status, items, pc, seen, used, batch, edit,
                 carried, edits>>

BeatingForEver(q) == pc[q] # "new"
Beating(q) == pc[q] = "streaming"

(* touch_usage_reservation. *)
Touch(q) ==
  /\ Beating(q) /\ status[q] = "reserved" /\ stale[q]
  /\ stale' = [stale EXCEPT ![q] = FALSE]
  /\ UNCHANGED <<limit, valid, status, items, pc, seen, used, batch, edit,
                 carried, faults, edits>>

(* The stream ends, with the usage upstream reported or without. *)
StreamEnds(q) ==
  /\ pc[q] = "streaming"
  /\ \/ \E u \in Usage : used' = [used EXCEPT ![q] = u] /\ pc' = [pc EXCEPT ![q] = "finalize"]
     \/ pc' = [pc EXCEPT ![q] = "release"] /\ UNCHANGED used
  /\ UNCHANGED <<limit, valid, status, items, stale, seen, batch, edit, carried,
                 faults, edits>>

(***************************************************************************)
(* Settlement.                                                             *)
(***************************************************************************)
AdjustAnyWindow(row, item, delta) ==
  IF delta < 0 => row.current >= -delta
  THEN [row EXCEPT !.current = @ + delta]
  ELSE row

(* adjust_reserved_usage: only in the window it was reserved in, and never *)
(* below zero.                                                             *)
Adjust(row, item, delta) ==
  IF row.window = item.window /\ (delta < 0 => row.current >= -delta)
  THEN [row EXCEPT !.current = @ + delta]
  ELSE row

(* A transaction that closes a reservation, if it is still reserved, with   *)
(* `actual` used on every limit.                                           *)
Settle(q, new, actual) ==
  IF status[q] = "reserved"
  THEN /\ status' = [status EXCEPT ![q] = new]
       /\ limit' = [l \in Limits |->
            IF l \in Applies[q]
            THEN Adjust(limit[l], items[q][l], actual - items[q][l].reserved)
            ELSE limit[l]]
       /\ items' = [items EXCEPT ![q] = [l \in Limits |->
            IF l \in Applies[q] THEN [@[l] EXCEPT !.actual = actual] ELSE @[l]]]
  ELSE UNCHANGED <<status, limit, items>>

(* finalize_usage_reservation in the detached task. *)
Finalize(q) ==
  /\ pc[q] = "finalize"
  /\ Settle(q, "finalized", used[q])
  /\ pc' = [pc EXCEPT ![q] = "settled"]
  /\ UNCHANGED <<valid, stale, seen, used, batch, edit, carried, faults, edits>>

(* The settlement failed or was cancelled; if its commit was not what was    *)
(* lost, nothing is written.  The tracking callback schedules a release.   *)
FinalizeFails(q) ==
  /\ pc[q] = "finalize" /\ Fault
  /\ Settle(q, "finalized", used[q]) \/ UNCHANGED <<status, limit, items>>
  /\ pc' = [pc EXCEPT ![q] = "release"]
  /\ UNCHANGED <<valid, stale, seen, used, batch, edit, carried, edits>>

Release(q) ==
  /\ pc[q] = "release"
  /\ Settle(q, "released", 0)
  /\ pc' = [pc EXCEPT ![q] = "settled"]
  /\ UNCHANGED <<valid, stale, seen, used, batch, edit, carried, faults, edits>>

(* The release failed too, or the process was lost: left to the sweep. *)
Lose(q) ==
  /\ pc[q] \in {"streaming", "finalize", "release"} /\ Fault
  /\ pc' = [pc EXCEPT ![q] = "gone"]
  /\ UNCHANGED <<limit, valid, status, items, stale, seen, used, batch, edit,
                 carried, edits>>

(***************************************************************************)
(* release_stale_usage_reservations: select, then claim each id that is     *)
(* still reserved and still stale.                                         *)
(***************************************************************************)
SweepSelects ==
  /\ batch = {}
  /\ batch' = {q \in Requests : status[q] = "reserved" /\ stale[q]}
  /\ batch' # {}
  /\ UNCHANGED <<limit, valid, status, items, stale, pc, seen, used, edit,
                 carried, faults, edits>>

Claimed == {q \in batch : status[q] = "reserved" /\ stale[q]}

SweepReleases ==
  /\ batch # {}
  /\ status' = [q \in Requests |-> IF q \in Claimed THEN "released" ELSE status[q]]
  /\ limit' = [l \in Limits |->
       FoldSet(LAMBDA q, row : IF l \in Applies[q]
                               THEN Adjust(row, items[q][l], -items[q][l].reserved)
                               ELSE row,
               limit[l], Claimed)]
  /\ batch' = {}
  /\ UNCHANGED <<valid, items, stale, pc, seen, used, edit, carried, faults, edits>>

(***************************************************************************)
(* Edits of the key on the dashboard.                                      *)
(***************************************************************************)
MayEdit == edits < MaxEdits /\ edits' = edits + 1

SetActive ==
  /\ MayEdit
  /\ valid' = ~valid
  /\ UNCHANGED <<limit, status, items, stale, pc, seen, used, batch, edit,
                 carried, faults>>

(* Limits submitted again: the counter and its window are written back     *)
(* unchanged, which writes nothing; only max_value moves.                  *)
SetMax ==
  /\ MayEdit
  /\ \E l \in Limits, m \in MaxValues : limit' = [limit EXCEPT ![l].max = m]
  /\ UNCHANGED <<valid, status, items, stale, pc, seen, used, batch, edit,
                 carried, faults>>

ResetUsageReads ==
  /\ MayEdit /\ edit = NoEdit
  /\ \A l \in Limits : limit[l].window < MaxWindows
  /\ edit' = limit
  /\ UNCHANGED <<limit, valid, status, items, stale, pc, seen, used, batch,
                 carried, faults>>

(* resetUsage gives every limit a fresh window and the value 0; a counter   *)
(* that was 0 when it was read does not change and so is not written.      *)
ResetUsageWrites ==
  /\ edit # NoEdit
  /\ limit' = [l \in Limits |->
       [limit[l] EXCEPT !.current = IF edit[l].current = 0 THEN @ ELSE 0,
                        !.window = @ + 1, !.expired = FALSE]]
  /\ carried' = [l \in Limits |-> limit'[l].current]
  /\ edit' = NoEdit
  /\ UNCHANGED <<valid, status, items, stale, pc, seen, used, batch, faults, edits>>

Request(q) ==
  \/ Look(q) \/ LazyReset(q) \/ LookAgain(q) \/ Reserve(q) \/ Refuse(q)
  \/ StreamEnds(q) \/ Finalize(q) \/ Release(q)

Sweep == SweepSelects \/ SweepReleases

Next ==
  \/ \E q \in Requests :
       \/ Request(q) \/ RetryReserve(q) \/ FinalizeFails(q) \/ Lose(q)
       \/ Ages(q) \/ Touch(q)
  \/ \E l \in Limits : WindowEnds(l)
  \/ ResetExpired \/ Sweep
  \/ SetActive \/ SetMax \/ ResetUsageReads \/ ResetUsageWrites

Spec == Init /\ [][Next]_vars

(* Requests and their settlement tasks run on, streams end, and the hourly  *)
(* sweep comes round after a reservation nobody touches has aged.          *)
Fairness ==
  /\ \A q \in Requests :
       WF_vars(Request(q)) /\ WF_vars(pc[q] # "streaming" /\ Ages(q))
  /\ WF_vars(Sweep)

FairSpec == Spec /\ Fairness

(***************************************************************************)
(* Properties.                                                             *)
(***************************************************************************)
Steps == {"new", "expired", "again", "seen", "refused", "streaming", "finalize",
          "release", "settled", "gone"}

(* Types; a row exists exactly for the requests that got past Reserve.  *)
ReservationTypeOK ==
  /\ \A l \in Limits : limit[l].current \in Nat /\ limit[l].window \in Nat
                       /\ limit[l].max \in MaxValues /\ limit[l].expired \in BOOLEAN
  /\ \A q \in Requests :
       /\ status[q] \in {"none", "reserved", "finalized", "released"}
       /\ pc[q] \in Steps
       /\ status[q] = "none" <=>
            pc[q] \in {"new", "expired", "again", "seen", "refused"}
       /\ stale[q] \in BOOLEAN

(* What request q counts for on limit l: its reservation until it is        *)
(* settled, what it used afterwards, and nothing in another window.        *)
Charge(q, l) ==
  IF status[q] = "none" \/ l \notin Applies[q] \/ items[q][l].window # limit[l].window
  THEN 0
  ELSE IF status[q] = "reserved" THEN items[q][l].reserved ELSE items[q][l].actual

(* current_value of a limit is always the sum of what the requests of its   *)
(* window count for, plus what a racing usage reset left standing: no      *)
(* settlement is lost, applied twice or applied in a later window, however *)
(* resets, retries, lost commits, the sweep and late settlements overlap.  *)
CountedOnce ==
  \A l \in Limits :
    limit[l].current = carried[l] + MapThenSumSet(LAMBDA q : Charge(q, l), Requests)

(* Admission never takes a limit past its maximum: only settling more than  *)
(* was reserved does.  A deferred settlement keeps counting as reserved.   *)
NeverOverAdmits ==
  [][\A q \in Requests, l \in Limits :
       status[q] = "none" /\ status'[q] = "reserved" /\ limit'[l].current > limit[l].current
         => limit'[l].current <= limit'[l].max]_vars

(* No reservation stays open for ever: it is settled, or released by the    *)
(* task, or swept after its process is gone.                               *)
ReservationEnds ==
  \A q \in Requests : status[q] = "reserved" ~> status[q] # "reserved"
=============================================================================
