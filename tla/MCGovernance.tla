---------------------------- MODULE MCGovernance ----------------------------
(* The instance of Governance that TLC checks: lists of length 0, 2 and 3, and *)
(* policies whose exponential, whose jitter and whose maximum leave the range. *)
EXTENDS Governance, TLC

SomeLists == {<<>>, <<"e1", "e2">>, <<"e3", "e1", "e2">>}
Policy(attempts, base, max, jitter) ==
    [max_attempts |-> attempts, base_backoff |-> base, max_backoff |-> max, jitter_ratio |-> jitter]
SomePolicies == {Policy(3, 4, 5, 5), Policy(2, 6, 7, 20), Policy(2, 2, -3, 5), Policy(2, -1, 3, -1)}
CallerSymmetry == Permutations(Callers)
=============================================================================
