------------------------------ MODULE MCBrowser -----------------------------
(* Browser on small instances.  Me is one of the users and stays itself. *)
EXTENDS Browser, TLC

Symmetry ==
  Permutations(User \ {Me}) \cup Permutations(Contest) \cup Permutations(Name)
    \cup Permutations(TeamId) \cup Permutations(Code) \cup Permutations(Key)
    \cup Permutations(Task)

=============================================================================
