------------------------- MODULE MCRefreshRotation -------------------------
(* Instances of RefreshRotation for TLC. *)
EXTENDS RefreshRotation, TLC

\* No action tells sessions or requests apart.
Interchangeable == Permutations(Session) \cup Permutations(Req)

=============================================================================
