------------------------- MODULE MCDeliveryOutbox -------------------------
(* DeliveryOutbox on small sets for TLC. *)
EXTENDS DeliveryOutbox, TLC

Symmetry == Permutations(Claims) \cup Permutations(Batches)

\* Two takeovers with one attempt, or one takeover with two; what follows a final state
\* only after one of each.
Final(b) == batches[b].state \in {"seen", "cancelled"}

TakeoversAndAttempts ==
    \A b \in Batches : batches[b].attempt + channel.generation <= IF Final(b) THEN 2 ELSE 3

\* Two claims with one attempt, or one claim with two.
ClaimsAndAttempts ==
    \A b \in Batches :
        batches[b].attempt + Cardinality({c \in Claims : claims[c] # "pending"}) <= 3
==============================================================================
