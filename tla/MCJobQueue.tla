---------------------------- MODULE MCJobQueue ----------------------------
(* Instances of JobQueue for TLC: the new version adds a job that is        *)
(* scheduled and no longer schedules the one of the old version.            *)
EXTENDS JobQueue

CONSTANTS old, new, a, b, n1

MCDefines == [v \in Version |-> IF v = old THEN {a} ELSE {a, b}]
MCScheduled == [v \in Version |-> IF v = old THEN {a} ELSE {b}]
MCNameOf == [n \in Job |-> IF n = n1 THEN a ELSE b]
MCRetryLimit == [q \in Queue |-> 1]

=============================================================================
