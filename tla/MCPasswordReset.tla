-------------------------- MODULE MCPasswordReset --------------------------
(* Instances of PasswordReset for TLC. *)
EXTENDS PasswordReset, TLC

\* No action tells reset requests apart, or mail jobs.
Interchangeable == Permutations(Req) \cup Permutations(Job)

=============================================================================
