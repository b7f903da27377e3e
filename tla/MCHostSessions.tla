--------------------------- MODULE MCHostSessions ---------------------------
(* HostSessions on small sets for TLC. *)
EXTENDS HostSessions

CONSTANTS a, b, x, y, s1, s2

\* Two processes of one session: a wildcard credential for both channels, and one that
\* covers a single channel.
MCSessionOf == [h \in {a, b} |-> s1]
MCServes    == [h \in {a, b} |-> IF h = a THEN {x, y} ELSE {x}]
MCScope     == [h \in {a, b} |-> IF h = a THEN {} ELSE {x}]
\* The other endpoint is only one to take channels over to.
MCMaxToken  == [e \in {s1, s2} |-> IF e = s1 THEN 2 ELSE 1]
=============================================================================
