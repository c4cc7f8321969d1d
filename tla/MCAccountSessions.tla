------------------------- MODULE MCAccountSessions -------------------------
(* Instances of AccountSessions for TLC. *)
EXTENDS AccountSessions, TLC

\* No action tells sessions, requests or passwords apart.
Interchangeable ==
  Permutations(Sid) \cup Permutations(Req) \cup Permutations(Password)

=============================================================================
