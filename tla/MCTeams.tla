------------------------------ MODULE MCTeams -------------------------------
(* Teams on small instances: the cfg files name the model values; the sets *)
(* are interchangeable, so every run without liveness uses Symmetry.       *)
EXTENDS TeamsRefinement, TLC

Symmetry ==
  Permutations(User) \cup Permutations(Contest) \cup Permutations(Name)
    \cup Permutations(TeamId) \cup Permutations(Code) \cup Permutations(Request)

=============================================================================
