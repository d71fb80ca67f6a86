------------------------------ MODULE MCLeaders ------------------------------
(***************************************************************************)
(* The scheduler leader with two replicas and two schedulers each: the     *)
(* calls of the first replica may fail, those of the second are punctual.  *)
(***************************************************************************)
EXTENDS LeaderElection, TLC

LeaderSymmetry == Permutations(Schedulers)

=============================================================================
