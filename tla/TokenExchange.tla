---------------------------- MODULE TokenExchange ----------------------------
(***************************************************************************)
(* What RefreshRotation promises, with every request a single step: how    *)
(* the tokens of a user's sessions replace each other, and what becomes of *)
(* the sessions.  A use replaces a token by a new one and takes some of    *)
(* its siblings away; a later use adds a sibling; one that is later still  *)
(* closes every session.  Whatever happens, a session that is closed is    *)
(* not opened again, and a token that cannot be used is not revived.       *)
(***************************************************************************)
CONSTANTS
  Session, Token,
  None  \* no session

VARIABLES
  state,  \* what has become of each session
  token,  \* what has become of each token
  family  \* the session a token belongs to

vars == <<state, token, family>>

Open(s) == state[s] \in {"live", "expired"}
Siblings(t) ==
  {x \in Token \ {t} : token[x] = "unused" /\ family[x] = family[t]}

SignIn(s, n) ==
  /\ state[s] = "absent" /\ token[n] = "absent"
  /\ state' = [state EXCEPT ![s] = "live"]
  /\ token' = [token EXCEPT ![n] = "unused"]
  /\ family' = [family EXCEPT ![n] = s]

\* The answer to a token is a new one of the same session, while it is open.
Answer(t, n) ==
  /\ Open(family[t]) /\ token[n] = "absent"
  /\ family' = [family EXCEPT ![n] = family[t]]
  /\ UNCHANGED state

Exchange(t, n, killed) ==
  /\ token[t] = "unused"
  /\ Answer(t, n)
  /\ token' = [x \in Token |-> IF x = t THEN "used"
                               ELSE IF x = n THEN "unused"
                               ELSE IF x \in killed THEN "deleted"
                               ELSE token[x]]

\* Others were faster, or this is a second use.
Tolerate(t, n) ==
  /\ token[t] \in {"used", "stale", "deleted"}
  /\ Answer(t, n)
  /\ token' = [token EXCEPT ![n] = "unused"]

GraceLapses(t) ==
  /\ token[t] = "used"
  /\ token' = [token EXCEPT ![t] = "stale"]
  /\ UNCHANGED <<state, family>>

Close(closed) ==
  /\ \A s \in closed : Open(s)
  /\ state' = [s \in Session |-> IF s \in closed THEN "revoked" ELSE state[s]]
  /\ UNCHANGED <<token, family>>

\* A token comes back that was used too long ago.
Reuse == (\E t \in Token : token[t] = "stale") /\ Close({s \in Session : Open(s)})

Expire(s) ==
  /\ state[s] = "live"
  /\ state' = [state EXCEPT ![s] = "expired"]
  /\ UNCHANGED <<token, family>>

Init ==
  /\ state = [s \in Session |-> "absent"]
  /\ token = [t \in Token |-> "absent"]
  /\ family = [t \in Token |-> None]

Next ==
  \/ \E s \in Session : Close({s}) \/ Expire(s)
  \/ \E s \in Session, n \in Token : SignIn(s, n)
  \/ \E t, n \in Token : \/ Tolerate(t, n)
                        \/ \E killed \in SUBSET Siblings(t) : Exchange(t, n, killed)
  \/ \E t \in Token : GraceLapses(t)
  \/ Reuse

Spec == Init /\ [][Next]_vars

=============================================================================
