------------------------------- MODULE MCView -------------------------------
(* View, and with it Teams, on a small instance. *)
EXTENDS View, TLC

Symmetry ==
  Permutations(User) \cup Permutations(Contest) \cup Permutations(Name)
    \cup Permutations(TeamId) \cup Permutations(Code) \cup Permutations(Request)
    \cup Permutations(Reader)

=============================================================================
