--------------------------- MODULE MCLoginBackoff ---------------------------
(* Instances of LoginBackoff for TLC. *)
EXTENDS LoginBackoff, TLC

\* No action tells login attempts apart.
Interchangeable == Permutations(Req)

=============================================================================
