-------------------------- MODULE MCAccountLeases --------------------------
(* AccountLeases with two caps a replica can see, before and after a share   *)
(* of the account limit moved to another replica.                            *)
EXTENDS AccountLeases, TLC

Caps(create, stream) ==
    [k \in Kinds |-> IF k = "stream" THEN stream ELSE create]

OneShare == {Caps(1, 2)}

TwoShares == {Caps(1, 1), Caps(1, 2)}

\* Different kinds of requests over accounts that come and go.
Routing == {<<"stream", "plain">>, <<"create", "sticky">>,
            <<"create", "direct">>, <<"create", "probe">>}

PlainAndSticky == {<<"stream", "plain">>, <<"stream", "sticky">>}

LeaseSymmetry == Permutations(Requests) \cup Permutations(Accounts)

=============================================================================
