-------------------------- MODULE AccountLifecycle --------------------------
(***************************************************************************)
(* What AccountSessions promises, with every operation a single step: the  *)
(* life of an account, and the sessions through which it can be used.      *)
(* Signing in reopens a deleted account; deleting closes every session;    *)
(* an anonymized account stays closed.                                     *)
(***************************************************************************)
CONSTANTS User, Sid

VARIABLES
  acct,  \* what has become of each account
  open   \* its sessions that are not closed

vars == <<acct, open>>

Account == {"absent", "active", "deleted", "anonymized"}

Init ==
  /\ acct = [u \in User |-> "absent"]
  /\ open = [u \in User |-> {}]

Fresh(s) == \A u \in User : s \notin open[u]

Register(u, s) ==
  /\ acct[u] = "absent" /\ Fresh(s)
  /\ acct' = [acct EXCEPT ![u] = "active"]
  /\ open' = [open EXCEPT ![u] = {s}]

\* The sessions in closed make room for the new one; if others were used since
\* it was opened, it may be among them.
SignIn(u, s, closed) ==
  /\ acct[u] \in {"active", "deleted"} /\ Fresh(s)
  /\ acct' = [acct EXCEPT ![u] = "active"]
  /\ open' = [open EXCEPT ![u] = (@ \cup {s}) \ closed]

Close(u, closed) ==
  /\ open' = [open EXCEPT ![u] = @ \ closed]
  /\ UNCHANGED acct

Delete(u) ==
  /\ acct[u] = "active"
  /\ acct' = [acct EXCEPT ![u] = "deleted"]
  /\ open' = [open EXCEPT ![u] = {}]

Anonymize(u) ==
  /\ acct[u] = "deleted"
  /\ acct' = [acct EXCEPT ![u] = "anonymized"]
  /\ UNCHANGED open

Next ==
  \E u \in User :
    \/ \E s \in Sid : Register(u, s)
    \/ \E s \in Sid, closed \in SUBSET Sid : SignIn(u, s, closed)
    \/ \E closed \in SUBSET Sid : Close(u, closed)
    \/ Delete(u)
    \/ Anonymize(u)

Spec == Init /\ [][Next]_vars

=============================================================================
