--------------------------- MODULE MCSourcePolling ---------------------------
(* SourcePolling on small sets for TLC. *)
EXTENDS SourcePolling

CONSTANTS a, b

\* History before the first poll, and one item that comes later: two pages of one
\* identity; the other one is rebound to.
MCBacklog == [i \in Idents |-> 1]
MCMaxLog == [i \in Idents |-> IF i = a THEN 2 ELSE 1]
=============================================================================
