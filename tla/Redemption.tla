------------------------------ MODULE Redemption ------------------------------
(***************************************************************************)
(* What the redemption of an account's reset credits promises, whatever    *)
(* database serializes it: one attempt at a time is inside the redeem      *)
(* section; a request id stands for one credit from the moment it is       *)
(* recorded until the record is a day old; and only the attempt in the     *)
(* section sends upstream, for the credit its id stands for or the one its *)
(* caller named.  On PostgreSQL the section is pg_advisory_xact_lock,      *)
(* which is exactly Enter and Leave; RedeemCoordination shows the same of  *)
(* the leased claim row SQLite uses.                                       *)
(***************************************************************************)
CONSTANTS Attempts, Ids, Credits, None

VARIABLES owner,   \* the attempt in the section, or None
          chosen,  \* id -> the credit it stands for, or None
          aged,    \* the ids whose record is more than a day old
          sent     \* the consumes sent upstream: <<id or None, credit>>

Init ==
    /\ owner = None
    /\ chosen = [i \in Ids |-> None]
    /\ aged = {}
    /\ sent = {}

Enter(p) ==
    /\ owner = None
    /\ owner' = p
    /\ UNCHANGED <<chosen, aged, sent>>

\* The attempt in the section settles what an id stands for; records that are a
\* day old and stand for nothing any more are purged.
Choose(i, c) ==
    /\ owner # None
    /\ chosen[i] = None
    /\ chosen' = [chosen EXCEPT ![i] = c]
    /\ aged' = {j \in aged : j # i /\ chosen[j] # None}
    /\ UNCHANGED <<owner, sent>>

Send(i) ==
    /\ owner # None
    /\ chosen[i] # None
    /\ sent' = sent \union {<<i, chosen[i]>>}
    /\ UNCHANGED <<owner, chosen, aged>>

\* A /v1 caller names the credit itself.
SendNamed(c) ==
    /\ owner # None
    /\ sent' = sent \union {<<None, c>>}
    /\ UNCHANGED <<owner, chosen, aged>>

\* Only an aged record is forgotten: when it ages, or, if the attempt in the
\* section had already read it, when that attempt leaves.
Forgets(old) ==
    \A i \in Ids : chosen'[i] = chosen[i] \/ (i \in old /\ chosen'[i] = None)

Age(i) ==
    /\ aged' = aged \union {i}
    /\ chosen' \in {chosen, [chosen EXCEPT ![i] = None]}
    /\ UNCHANGED <<owner, sent>>

Leave ==
    /\ owner # None
    /\ owner' = None
    /\ chosen' \in [Ids -> Credits \union {None}]
    /\ Forgets(aged)
    /\ UNCHANGED <<aged, sent>>

Next ==
    \/ \E p \in Attempts : Enter(p)
    \/ \E i \in Ids, c \in Credits : Choose(i, c)
    \/ \E i \in Ids : Send(i) \/ Age(i)
    \/ \E c \in Credits : SendNamed(c)
    \/ Leave

Spec == Init /\ [][Next]_<<owner, chosen, aged, sent>>

===============================================================================
