--------------------------- MODULE MCAuditTrail ---------------------------
(* An instance of AuditTrail for TLC: all rows are about Me and pass the *)
(* filter of the administrator, so that either walk has the most pages.  *)
EXTENDS AuditTrail

CONSTANT u1

MCRecord == 1 .. 3
MCSubject == [r \in Record |-> u1]

=============================================================================
