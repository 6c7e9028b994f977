------------------------------ MODULE MCSession -----------------------------
(* Session, and with it Users, on a small instance. *)
EXTENDS Session, TLC

Symmetry ==
  Permutations(Account) \cup Permutations(Name) \cup Permutations(Badge)
    \cup Permutations(UserId) \cup Permutations(Login) \cup Permutations(Window)
    \cup Permutations(State)

=============================================================================
