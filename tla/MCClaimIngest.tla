---------------------------- MODULE MCClaimIngest ----------------------------
(* ClaimIngest on small sets for TLC. *)
EXTENDS ClaimIngest, TLC

CONSTANTS d1, d2, d3, k1

\* An event with an idempotency key, another one without, and a self commitment.
MCRequests == {[kind |-> "emit", key |-> d1, idem |-> k1],
               [kind |-> "emit", key |-> d3, idem |-> NoIdem],
               [kind |-> "schedule", key |-> d2, idem |-> NoIdem]}

Symmetry == Permutations(Procs) \cup Permutations(Fresh) \cup Permutations(Claims)
            \cup Permutations(Batches)
==============================================================================
