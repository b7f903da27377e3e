---------------------------- MODULE DeliveryLease ----------------------------
(***************************************************************************)
(* What the outbox promises of every wake batch, without workers, clocks   *)
(* or databases: a batch is leased to one attempt (an epoch) at a time, the *)
(* acceptance of an epoch can only be recorded by the epoch that holds the  *)
(* lease, and a batch whose epoch was accepted is never leased again.       *)
(*                                                                         *)
(* One step of the system may move several batches (recovery, takeover,     *)
(* deletion of a channel): Next lets every batch take a step or none.       *)
(***************************************************************************)
EXTENDS Naturals

CONSTANT Items

VARIABLES
    phase,      \* where the batch stands
    epoch,      \* how often it was leased; the number of the latest attempt
    accepted    \* the epochs a transport or host took responsibility for

vars == <<phase, epoch, accepted>>

Phases == {"absent", "queued", "leased", "sent", "failed", "closed"}

Init ==
    /\ phase = [i \in Items |-> "absent"]
    /\ epoch = [i \in Items |-> 0]
    /\ accepted = [i \in Items |-> {}]

\* A batch is frozen from its first claim.
Enqueue(i) ==
    /\ phase[i] = "absent"
    /\ phase'[i] = "queued"
    /\ epoch'[i] = epoch[i] /\ accepted'[i] = accepted[i]

\* Only queued work is leased, always under a new epoch.
Lease(i) ==
    /\ phase[i] = "queued"
    /\ phase'[i] = "leased"
    /\ epoch'[i] = epoch[i] + 1 /\ accepted'[i] = accepted[i]

\* The epoch that holds the lease is accepted.
Accept(i) ==
    /\ phase[i] = "leased"
    /\ phase'[i] \in {"sent", "closed"}
    /\ epoch'[i] = epoch[i] /\ accepted'[i] = accepted[i] \cup {epoch[i]}

\* The lease ends without an acceptance.
Release(i) ==
    /\ phase[i] = "leased"
    /\ phase'[i] \in {"queued", "failed"}
    /\ epoch'[i] = epoch[i] /\ accepted'[i] = accepted[i]

\* The operator reopens a failed batch.
Reopen(i) ==
    /\ phase[i] = "failed"
    /\ phase'[i] = "queued"
    /\ epoch'[i] = epoch[i] /\ accepted'[i] = accepted[i]

\* Acknowledged, attested, retired or deleted.
Close(i) ==
    /\ phase[i] \in {"queued", "leased", "sent", "failed"}
    /\ phase'[i] = "closed"
    /\ epoch'[i] = epoch[i] /\ accepted'[i] = accepted[i]

Stay(i) == phase'[i] = phase[i] /\ epoch'[i] = epoch[i] /\ accepted'[i] = accepted[i]

Step(i) ==
    \/ Stay(i)
    \/ Enqueue(i) \/ Lease(i) \/ Accept(i) \/ Release(i) \/ Reopen(i) \/ Close(i)

\* The variables are read at Items only.
Next == \A i \in Items : Step(i)

Spec == Init /\ [][Next]_vars

TypeOK ==
    /\ phase \in [Items -> Phases]
    /\ epoch \in [Items -> Nat]
    /\ accepted \in [Items -> SUBSET Nat]

\* At most the latest epoch was accepted, and then the batch is neither queued
\* nor leased nor open to an operator's retry: what a transport accepted is
\* never handed to a transport again.
AcceptedIsFinal ==
    \A i \in Items : accepted[i] # {} =>
        accepted[i] = {epoch[i]} /\ phase[i] \in {"sent", "closed"}
==============================================================================
