----------------------------- MODULE MCSelectors ----------------------------
(* Selectors on a small graph: a team, two members, one user.              *)
EXTENDS Selectors, TLC

Symmetry == Permutations(Member)

=============================================================================
