----------------------- MODULE DeliveryOutbox_proofs -----------------------
(***************************************************************************)
(* The type invariant and the safety properties of DeliveryOutbox, proved  *)
(* for every set of claims, batches and workers and every bound.           *)
(***************************************************************************)
EXTENDS DeliveryOutbox, FiniteSetTheorems, TLAPS

------------------------------------------------------------------------------
(* TypeOK is not inductive: FinalizeAttempt writes a receipt for the attempt *)
(* of its worker.  A pass that works on a batch names one, and a pass or an *)
(* echo that speaks of an attempt names an attempt number.                  *)

HoldsBatch   == {"acquire", "park", "acquired", "checked", "inflight", "finalize"}
HoldsAttempt == {"acquired", "checked", "inflight", "finalize"}

GoodWorkerRow ==
    {r \in WorkerRow : /\ r.pc \in HoldsBatch => r.batch \in Batches
                       /\ r.pc \in HoldsAttempt => r.attempt \in AttemptNos}

GoodEchoRow ==
    {r \in EchoRow : r.pc = "read" => r.batch \in Batches /\ r.attempt \in AttemptNos}

TypeInv ==
    /\ TypeOK
    /\ worker \in [Workers -> GoodWorkerRow]
    /\ echo \in GoodEchoRow

------------------------------------------------------------------------------
(* Rows keep their types when fields are overwritten.                       *)

LEMMA Zeros == 0 \in 0..MaxAttempt /\ 0 \in Generations
BY BoundsAssumption DEF Generations

LEMMA ConstantRows ==
    /\ NoRow \in BatchRow /\ NoAttempt \in AttemptRow
    /\ NoEcho \in GoodEchoRow /\ NoRetry \in RetryRow /\ Idle \in GoodWorkerRow
BY Zeros
   DEF NoRow, NoAttempt, NoEcho, NoRetry, Idle, BatchRow, AttemptRow, EchoRow, RetryRow,
       WorkerRow, BatchStates, OpenStates, Results, GoodWorkerRow, GoodEchoRow,
       HoldsBatch, HoldsAttempt

LEMMA MoveToType ==
    ASSUME TypeInv, NEW b \in Batches, NEW s \in BatchStates,
           NEW r \in {"none", "ack_timeout", "empty_batch"}
    PROVE  MoveTo(b, s, r) \in BatchRow
<1>1. batches[b] \in BatchRow
  BY DEF TypeInv, TypeOK
<1>2. FALSE \in BOOLEAN
  OBVIOUS
<1> QED
  BY <1>1, <1>2, Zeros DEF MoveTo, BatchRow

LEMMA DetachedType ==
    ASSUME TypeInv, NEW c \in Claims
    PROVE  Detached(c) \in [Batches -> BatchRow]
<1> SUFFICES ASSUME NEW b \in Batches
             PROVE  Detached(c)[b] \in BatchRow
  BY DEF Detached
<1>1. batches[b] \in BatchRow
  BY DEF TypeInv, TypeOK
<1>2. [batches[b] EXCEPT !.claims = {}, !.state = "cancelled", !.due = FALSE] \in BatchRow
  BY <1>1 DEF BatchRow, BatchStates
<1>3. [batches[b] EXCEPT !.claims = @ \ {c}] \in BatchRow
  BY <1>1 DEF BatchRow
<1> QED
  BY <1>1, <1>2, <1>3 DEF Detached

LEMMA RecoveredType ==
    ASSUME TypeInv, NEW b \in Batches
    PROVE  RecoveredBatch(b) \in BatchRow
<1>1. MoveTo(b, "needs_attention", "ack_timeout") \in BatchRow
  BY MoveToType DEF BatchStates
<1>2. batches[b] \in BatchRow
  BY DEF TypeInv, TypeOK
<1>3. [batches[b] EXCEPT !.state = "cancelled"] \in BatchRow
  BY <1>2 DEF BatchRow, BatchStates
<1>4. [batches[b] EXCEPT !.state = "retry_wait", !.owner = 0] \in BatchRow
  <2>1. "retry_wait" \in BatchStates
    BY DEF BatchStates, OpenStates
  <2> QED
    BY <1>2, <2>1, Zeros DEF BatchRow
<1> QED
  BY <1>1, <1>2, <1>3, <1>4 DEF RecoveredBatch

LEMMA WithNoncesType ==
    ASSUME TypeInv, NEW A, NEW s \in {"consumed", "discarded", "expired"}
    PROVE  WithNonces(A, s) \in [Batches -> [AttemptNos -> AttemptRow]]
<1> SUFFICES ASSUME NEW b \in Batches, NEW n \in AttemptNos
             PROVE  WithNonces(A, s)[b][n] \in AttemptRow
  BY DEF WithNonces
<1>1. attempts[b][n] \in AttemptRow
  BY DEF TypeInv, TypeOK
<1>2. [attempts[b][n] EXCEPT !.nonce = s] \in AttemptRow
  BY <1>1 DEF AttemptRow
<1> QED
  BY <1>1, <1>2 DEF WithNonces

LEMMA SweepRow ==
    ASSUME NEW v \in SUBSET Batches
    PROVE  [Idle EXCEPT !.pc = "sweep", !.visited = v] \in GoodWorkerRow
BY ConstantRows DEF GoodWorkerRow, WorkerRow, HoldsBatch, HoldsAttempt

LEMMA NextCandidateType ==
    ASSUME TypeInv, NEW w \in Workers
    PROVE  NextCandidate(w) \in [Workers -> GoodWorkerRow]
<1>1. worker[w].visited \in SUBSET Batches
  BY DEF TypeInv, GoodWorkerRow, WorkerRow
<1> QED
  BY <1>1, SweepRow DEF NextCandidate, TypeInv

\* worker changes to well-typed rows and nothing else does.
LEMMA WorkerStep ==
    ASSUME TypeInv, worker' \in [Workers -> GoodWorkerRow],
           UNCHANGED <<operator, claims, batches, attempts, receipts, incidents, channel, echo>>
    PROVE  TypeInv'
<1>1. worker' \in [Workers -> WorkerRow]
  BY DEF GoodWorkerRow
<1> QED
  BY <1>1 DEF TypeInv, TypeOK

------------------------------------------------------------------------------
(* Every group of actions keeps the types.                                  *)

LEMMA TickTypes ==
    ASSUME TypeInv, Tick
    PROVE  TypeInv'
<1>1. CASE \E c \in Claims, s \in ClaimStates : TickGate(c, s)
  BY <1>1 DEF TickGate, TypeInv, TypeOK
<1>2. ASSUME NEW c \in Claims, NEW b \in Batches, TickFreeze(c, b)
      PROVE  TypeInv'
  <2>1. [NoRow EXCEPT !.state = "pending", !.claims = {c}] \in BatchRow
    BY ConstantRows DEF BatchRow, BatchStates, OpenStates
  <2>2. "batched" \in ClaimStates
    BY DEF ClaimStates
  <2> QED
    BY <1>2, <2>1, <2>2 DEF TickFreeze, TypeInv, TypeOK
<1>3. ASSUME NEW c \in Claims, NEW b \in Batches, TickAppend(c, b)
      PROVE  TypeInv'
  <2>1. [batches[b] EXCEPT !.claims = @ \cup {c}] \in BatchRow
    BY DEF TypeInv, TypeOK, BatchRow
  <2>2. "batched" \in ClaimStates
    BY DEF ClaimStates
  <2>3. batches' = [batches EXCEPT ![b] = [batches[b] EXCEPT !.claims = @ \cup {c}]]
    BY <1>3 DEF TickAppend
  <2> QED
    BY <1>3, <2>1, <2>2, <2>3 DEF TickAppend, TypeInv, TypeOK
<1> QED
  BY <1>1, <1>2, <1>3 DEF Tick

LEMMA AgentTypes ==
    ASSUME TypeInv, AgentStep
    PROVE  TypeInv'
<1>1. ASSUME NEW c \in Claims, NEW s \in ClaimStates, ClaimAction(c, s)
      PROVE  TypeInv'
  BY <1>1, DetachedType DEF ClaimAction, TypeInv, TypeOK
<1>2. ASSUME NEW c \in Claims, SnoozeClaim(c) \/ ConsumeClaim(c)
      PROVE  TypeInv'
  BY <1>1, <1>2 DEF SnoozeClaim, ConsumeClaim, ClaimStates, ActiveClaims, FinalizedClaims
<1>3. ASSUME NEW b \in Batches, batches[b].attempt \in AttemptNos
      PROVE  AgentSeen(b) \in Receipt
  BY <1>3 DEF AgentSeen, Receipt, Stages
<1>4. ASSUME NEW b \in Batches, AckBatch(b)
      PROVE  TypeInv'
  <2>1. MoveTo(b, "seen", "none") \in BatchRow
    BY MoveToType DEF BatchStates
  <2>2. AgentSeen(b) \in Receipt
    BY <1>3, <1>4 DEF AckBatch, AwaitsAck
  <2> QED
    BY <1>4, <2>1, <2>2 DEF AckBatch, TypeInv, TypeOK
<1>5. ASSUME NEW b \in Batches, AckAfterAttestation(b)
      PROVE  TypeInv'
  BY <1>3, <1>5 DEF AckAfterAttestation, TypeInv, TypeOK
<1> QED
  BY <1>2, <1>4, <1>5 DEF AgentStep

LEMMA RecoverTypes ==
    ASSUME TypeInv, NEW w \in Workers, RecoverStep(w)
    PROVE  TypeInv'
<1>1. CASE RecoverLeases(w)
  <2>1. batches' \in [Batches -> BatchRow]
    BY <1>1, RecoveredType DEF RecoverLeases
  <2>2. attempts' \in [Batches -> [AttemptNos -> AttemptRow]]
    <3>1. PICK lapsed \in SUBSET Outstanding :
            attempts' = [b \in Batches |-> [n \in AttemptNos |-> RecoveredAttempt(b, n, lapsed)]]
      BY <1>1 DEF RecoverLeases
    <3>2. ASSUME NEW b \in Batches, NEW n \in AttemptNos
          PROVE  RecoveredAttempt(b, n, lapsed) \in AttemptRow
      <4>1. attempts[b][n] \in AttemptRow
        BY DEF TypeInv, TypeOK
      <4> QED
        BY <4>1 DEF RecoveredAttempt, AttemptRow
    <3> QED
      BY <3>1, <3>2
  <2>3. [Idle EXCEPT !.pc = "retire", !.timedOut = {b \in Batches : AckOverdue(b)}] \in GoodWorkerRow
    BY ConstantRows DEF GoodWorkerRow, WorkerRow, HoldsBatch, HoldsAttempt
  <2>4. worker' \in [Workers -> GoodWorkerRow] /\ worker' \in [Workers -> WorkerRow]
    BY <1>1, <2>3 DEF RecoverLeases, TypeInv, GoodWorkerRow
  <2> QED
    BY <1>1, <2>1, <2>2, <2>4 DEF RecoverLeases, TypeInv, TypeOK
<1>2. CASE RetireSettled(w)
  <2>1. batches' \in [Batches -> BatchRow]
    <3>1. ASSUME NEW b \in Batches
          PROVE  [batches[b] EXCEPT !.state = "cancelled", !.due = FALSE] \in BatchRow
      <4>1. batches[b] \in BatchRow
        BY DEF TypeInv, TypeOK
      <4> QED
        BY <4>1 DEF BatchRow, BatchStates
    <3> QED
      BY <1>2, <3>1 DEF RetireSettled, TypeInv, TypeOK
  <2>2. ASSUME NEW pc \in {"sweep", "report"}
        PROVE  [worker[w] EXCEPT !.pc = pc] \in GoodWorkerRow
    <3>1. worker[w] \in GoodWorkerRow
      BY DEF TypeInv
    <3> QED
      BY <3>1, <2>2 DEF GoodWorkerRow, WorkerRow, HoldsBatch, HoldsAttempt
  <2>3. worker' \in [Workers -> GoodWorkerRow] /\ worker' \in [Workers -> WorkerRow]
    BY <1>2, <2>2 DEF RetireSettled, TypeInv, GoodWorkerRow
  <2> QED
    BY <1>2, <2>1, <2>3 DEF RetireSettled, TypeInv, TypeOK
<1>3. CASE ReportIncidents(w)
  <2>1. worker' \in [Workers -> GoodWorkerRow] /\ worker' \in [Workers -> WorkerRow]
    BY <1>3, NextCandidateType DEF ReportIncidents, GoodWorkerRow
  <2>2. worker[w].timedOut \subseteq Batches
    BY DEF TypeInv, GoodWorkerRow, WorkerRow
  <2> QED
    BY <1>3, <2>1, <2>2 DEF ReportIncidents, TypeInv, TypeOK
<1> QED
  BY <1>1, <1>2, <1>3 DEF RecoverStep

\* Visit: the gates keep claims and batch in their types, and the pass goes on
\* with the batch, parks it or drops it.
LEMMA VisitTypes ==
    ASSUME TypeInv, NEW w \in Workers, NEW b \in Batches, Visit(w, b)
    PROVE  TypeInv'
<1> DEFINE Gates == [{c \in batches[b].claims : claims[c] = "batched"}
                        -> {"batched", "deferred", "expired"}]
           gated(gate) == {c \in DOMAIN gate : gate[c] # "batched"}
           kept(gate)  == batches[b].claims \ gated(gate)
           visit == [NextCandidate(w)[w] EXCEPT !.visited = @ \cup {b}]
<1>1. PICK gate \in Gates, routed \in BOOLEAN :
        /\ claims' = [c \in Claims |-> IF c \in gated(gate) THEN gate[c] ELSE claims[c]]
        /\ batches' = [batches EXCEPT ![b] =
              [@ EXCEPT !.claims = kept(gate), !.due = kept(gate) # {},
                        !.state = IF kept(gate) = {} THEN "cancelled" ELSE batches[b].state]]
        /\ worker' = [worker EXCEPT ![w] =
              IF kept(gate) = {} THEN visit
              ELSE IF Bound /\ routed
              THEN [visit EXCEPT !.pc = "acquire", !.batch = b, !.gen = channel.generation,
                                 !.snap = {<<c, claims[c]>> : c \in kept(gate)}]
              ELSE IF batches[b].state = "waiting_for_endpoint" THEN visit
              ELSE [visit EXCEPT !.pc = "park", !.batch = b]]
  BY DEF Visit
<1>2. batches[b] \in BatchRow
  BY DEF TypeInv, TypeOK
<1>3. claims' \in [Claims -> ClaimStates]
  BY <1>1 DEF TypeInv, TypeOK, ClaimStates, ActiveClaims, FinalizedClaims
<1>4. batches' \in [Batches -> BatchRow]
  <2>1. kept(gate) \in SUBSET Claims /\ (kept(gate) # {}) \in BOOLEAN
    BY <1>2 DEF BatchRow
  <2>2. ASSUME NEW K \in SUBSET Claims, NEW s \in BatchStates, NEW d \in BOOLEAN
        PROVE  [batches[b] EXCEPT !.claims = K, !.due = d, !.state = s] \in BatchRow
    BY <1>2, <2>2 DEF BatchRow
  <2>3. (IF kept(gate) = {} THEN "cancelled" ELSE batches[b].state) \in BatchStates
    BY <1>2 DEF BatchRow, BatchStates
  <2>4. [batches[b] EXCEPT !.claims = kept(gate), !.due = kept(gate) # {},
                           !.state = IF kept(gate) = {} THEN "cancelled" ELSE batches[b].state]
          \in BatchRow
    BY <2>1, <2>2, <2>3
  <2> QED
    BY <1>1, <2>4 DEF TypeInv, TypeOK
<1>5. worker' \in [Workers -> GoodWorkerRow]
  <2>1. visit \in GoodWorkerRow
    <3>1. NextCandidate(w)[w] = [Idle EXCEPT !.pc = "sweep", !.visited = worker[w].visited]
      BY DEF NextCandidate, TypeInv
    <3>2. worker[w].visited \in SUBSET Batches
      BY DEF TypeInv, GoodWorkerRow, WorkerRow
    <3>3. visit = [Idle EXCEPT !.pc = "sweep", !.visited = worker[w].visited \cup {b}]
      BY <3>1 DEF Idle
    <3> QED
      BY <3>2, <3>3, SweepRow
  <2>2. ASSUME NEW g \in Generations, NEW snap \in SUBSET (Claims \X ClaimStates)
        PROVE  [visit EXCEPT !.pc = "acquire", !.batch = b, !.gen = g, !.snap = snap] \in GoodWorkerRow
    BY <2>1, <2>2 DEF GoodWorkerRow, WorkerRow, HoldsBatch, HoldsAttempt
  <2>3. [visit EXCEPT !.pc = "park", !.batch = b] \in GoodWorkerRow
    BY <2>1 DEF GoodWorkerRow, WorkerRow, HoldsBatch, HoldsAttempt
  <2>4. {<<c, claims[c]>> : c \in kept(gate)} \in SUBSET (Claims \X ClaimStates)
    BY <1>2 DEF BatchRow, TypeInv, TypeOK
  <2>5. channel.generation \in Generations
    BY DEF TypeInv, TypeOK
  <2> HIDE DEF visit
  <2> QED
    BY <1>1, <2>1, <2>2, <2>3, <2>4, <2>5 DEF TypeInv
<1>6. worker' \in [Workers -> WorkerRow]
  BY <1>5 DEF GoodWorkerRow
<1>7. UNCHANGED <<operator, attempts, receipts, incidents, channel, echo>>
  BY DEF Visit
<1> QED
  BY <1>3, <1>4, <1>5, <1>6, <1>7 DEF TypeInv, TypeOK

LEMMA ParkTypes ==
    ASSUME TypeInv, NEW w \in Workers, Park(w)
    PROVE  TypeInv'
<1> DEFINE b == worker[w].batch
<1>1. worker' \in [Workers -> GoodWorkerRow] /\ worker' \in [Workers -> WorkerRow]
  BY NextCandidateType DEF Park, GoodWorkerRow
<1>2. b \in Batches
  BY DEF Park, At, TypeInv, GoodWorkerRow, HoldsBatch
<1>3. [batches[b] EXCEPT !.state = "waiting_for_endpoint", !.reason = "none"] \in BatchRow
  <2>1. batches[b] \in BatchRow
    BY <1>2 DEF TypeInv, TypeOK
  <2>2. "waiting_for_endpoint" \in BatchStates
    BY DEF BatchStates, OpenStates
  <2> QED
    BY <2>1, <2>2 DEF BatchRow
<1>4. batches' \in [Batches -> BatchRow]
  BY <1>2, <1>3 DEF Park, TypeInv, TypeOK
<1> QED
  BY <1>1, <1>4 DEF Park, TypeInv, TypeOK

LEMMA AcquireTypes ==
    ASSUME TypeInv, NEW w \in Workers, AcquireBatch(w)
    PROVE  TypeInv'
<1> DEFINE b == worker[w].batch
           n == batches[b].attempt + 1
<1>1. b \in Batches
  BY DEF AcquireBatch, At, TypeInv, GoodWorkerRow, HoldsBatch
<1>2. batches[b] \in BatchRow
  BY <1>1 DEF TypeInv, TypeOK
<1>3. n \in AttemptNos /\ n \in 0..MaxAttempt
  BY <1>2, BoundsAssumption DEF AcquireBatch, BatchRow, AttemptNos
<1>4. worker[w] \in GoodWorkerRow /\ worker[w].gen \in Generations
  BY DEF TypeInv, GoodWorkerRow, WorkerRow
<1> HIDE DEF n
<1>5. [batches[b] EXCEPT !.state = "dispatching", !.attempt = n, !.gen = worker[w].gen,
                         !.owner = n, !.reason = "none", !.due = FALSE] \in BatchRow
  <2>1. "dispatching" \in BatchStates /\ FALSE \in BOOLEAN
    BY DEF BatchStates
  <2> QED
    BY <1>2, <1>3, <1>4, <2>1 DEF BatchRow
<1>6. [NoAttempt EXCEPT !.state = "leased", !.gen = worker[w].gen] \in AttemptRow
  BY <1>4, ConstantRows DEF AttemptRow
<1>7. [worker[w] EXCEPT !.pc = "acquired", !.attempt = n, !.snap = {}] \in GoodWorkerRow
  BY <1>1, <1>3, <1>4 DEF GoodWorkerRow, WorkerRow, HoldsBatch, HoldsAttempt
<1>8. worker' \in [Workers -> GoodWorkerRow] /\ worker' \in [Workers -> WorkerRow]
  BY <1>7 DEF AcquireBatch, TypeInv, GoodWorkerRow, n
<1>9. batches' \in [Batches -> BatchRow]
  BY <1>1, <1>5 DEF AcquireBatch, TypeInv, TypeOK, n
<1>10. attempts' \in [Batches -> [AttemptNos -> AttemptRow]]
  BY <1>1, <1>3, <1>6 DEF AcquireBatch, TypeInv, TypeOK, n
<1> QED
  BY <1>8, <1>9, <1>10 DEF AcquireBatch, TypeInv, TypeOK

LEMMA AbandonTypes ==
    ASSUME TypeInv, NEW w \in Workers, worker[w].pc = "acquired",
           NEW s \in BatchStates, NEW r \in {"none", "ack_timeout", "empty_batch"},
           Abandon(w, s, r)
    PROVE  TypeInv'
<1> DEFINE b == worker[w].batch
           n == worker[w].attempt
<1>1. b \in Batches /\ n \in AttemptNos
  BY DEF TypeInv, GoodWorkerRow, HoldsBatch, HoldsAttempt
<1>2. worker' \in [Workers -> GoodWorkerRow] /\ worker' \in [Workers -> WorkerRow]
  BY NextCandidateType DEF Abandon, GoodWorkerRow
<1>3. batches' \in [Batches -> BatchRow]
  BY <1>1, MoveToType DEF Abandon, TypeInv, TypeOK
<1>4. [attempts[b][n] EXCEPT !.state = IF attempts[b][n].state = "leased" THEN "failed"
                                       ELSE attempts[b][n].state] \in AttemptRow
  <2>1. attempts[b][n] \in AttemptRow
    BY <1>1 DEF TypeInv, TypeOK
  <2> QED
    BY <2>1 DEF AttemptRow
<1>5. attempts' \in [Batches -> [AttemptNos -> AttemptRow]]
  BY <1>1, <1>4 DEF Abandon, TypeInv, TypeOK
<1> QED
  BY <1>2, <1>3, <1>5 DEF Abandon, TypeInv, TypeOK

LEMMA HandOverTypes ==
    ASSUME TypeInv, NEW w \in Workers, NEW nonce, HandOver(w, nonce)
    PROVE  TypeInv'
<1> DEFINE b == worker[w].batch
           n == worker[w].attempt
<1>1. b \in Batches /\ n \in AttemptNos
  BY DEF HandOver, At, TypeInv, GoodWorkerRow, HoldsBatch, HoldsAttempt
<1>2. [attempts[b][n] EXCEPT !.nonce = nonce] \in AttemptRow
  <2>1. attempts[b][n] \in AttemptRow
    BY <1>1 DEF TypeInv, TypeOK
  <2> QED
    BY <2>1 DEF HandOver, AttemptRow
<1>3. attempts' \in [Batches -> [AttemptNos -> AttemptRow]]
  <2> DEFINE row == [attempts[b][n] EXCEPT !.nonce = nonce]
  <2>1. attempts' = [attempts EXCEPT ![b][n] = row] /\ row \in AttemptRow
    BY <1>2 DEF HandOver
  <2>2. attempts \in [Batches -> [AttemptNos -> AttemptRow]]
    BY DEF TypeInv, TypeOK
  <2> HIDE DEF row
  <2> QED
    BY <1>1, <2>1, <2>2
<1>4. [worker[w] EXCEPT !.pc = "inflight"] \in GoodWorkerRow
  <2>1. worker[w] \in GoodWorkerRow
    BY DEF TypeInv
  <2> QED
    BY <1>1, <2>1 DEF GoodWorkerRow, WorkerRow
<1>5. worker' \in [Workers -> GoodWorkerRow] /\ worker' \in [Workers -> WorkerRow]
  BY <1>4 DEF HandOver, TypeInv, GoodWorkerRow
<1> QED
  BY <1>3, <1>5 DEF HandOver, TypeInv, TypeOK

LEMMA FinalizeTypes ==
    ASSUME TypeInv, NEW w \in Workers, FinalizeAttempt(w)
    PROVE  TypeInv'
<1> DEFINE b == worker[w].batch
           n == worker[w].attempt
           row == attempts[b][n]
           accepted == worker[w].result = "accepted"
           effective == accepted \/ worker[w].attested
           outcome == IF effective THEN "accepted" ELSE "failed"
           next == CASE worker[w].attested           -> "seen"
                     [] accepted /\ ~worker[w].attested -> "dispatched"
                     [] worker[w].result = "retry" /\ ~effective -> "retry_wait"
                     [] OTHER                        -> "dead_letter"
           newRow == [row EXCEPT
                !.state = IF row.state = "leased" THEN outcome ELSE row.state,
                !.nonce = IF ~effective /\ row.nonce = "outstanding" THEN "discarded"
                          ELSE row.nonce]
<1>1. b \in Batches /\ n \in AttemptNos
  BY DEF FinalizeAttempt, At, TypeInv, GoodWorkerRow, HoldsBatch, HoldsAttempt
<1>2. newRow \in AttemptRow
  <2>1. row \in AttemptRow
    BY <1>1 DEF TypeInv, TypeOK
  <2>2. outcome \in {"accepted", "failed"}
    OBVIOUS
  <2> HIDE DEF row, outcome, effective
  <2> QED
    BY <2>1, <2>2 DEF AttemptRow
<1>3. next \in BatchStates
  <2>1. {"seen", "dispatched", "retry_wait", "dead_letter"} \subseteq BatchStates
    BY DEF BatchStates, OpenStates
  <2> QED
    BY <2>1
<1>4. /\ attempts' = [attempts EXCEPT ![b][n] = newRow]
      /\ receipts' = IF accepted /\ Owns(b, n) /\ attempts'[b][n].state = "accepted"
                     THEN receipts \cup {[batch |-> b, attempt |-> n, stage |-> "transport_accepted"]}
                     ELSE receipts
      /\ batches' = IF Owns(b, n) THEN [batches EXCEPT ![b] = MoveTo(b, next, "none")] ELSE batches
      /\ worker' = NextCandidate(w)
      /\ UNCHANGED <<operator, claims, incidents, channel, echo>>
  BY DEF FinalizeAttempt
<1>5. [batch |-> b, attempt |-> n, stage |-> "transport_accepted"] \in Receipt
  BY <1>1 DEF Receipt, Stages
<1>6. MoveTo(b, next, "none") \in BatchRow
  BY <1>1, <1>3, MoveToType
<1> HIDE DEF newRow, next, accepted
<1>7. receipts' \subseteq Receipt
  BY <1>4, <1>5 DEF TypeInv, TypeOK
<1>8. batches' \in [Batches -> BatchRow]
  BY <1>1, <1>4, <1>6 DEF TypeInv, TypeOK
<1>9. attempts' \in [Batches -> [AttemptNos -> AttemptRow]]
  BY <1>1, <1>2, <1>4 DEF TypeInv, TypeOK
<1>10. worker' \in [Workers -> GoodWorkerRow] /\ worker' \in [Workers -> WorkerRow]
  BY <1>4, NextCandidateType DEF GoodWorkerRow
<1> QED
  BY <1>4, <1>7, <1>8, <1>9, <1>10 DEF TypeInv, TypeOK

LEMMA DispatchTypes ==
    ASSUME TypeInv, NEW w \in Workers, DispatchStep(w)
    PROVE  TypeInv'
<1>1. CASE \E b \in Batches : Visit(w, b)
  BY <1>1, VisitTypes
<1>2. CASE Park(w)
  BY <1>2, ParkTypes
<1>3. CASE AcquireBatch(w)
  BY <1>3, AcquireTypes
<1>4. CASE SkipCandidate(w) \/ SkipHandOver(w)
  BY <1>4, NextCandidateType, WorkerStep DEF SkipCandidate, SkipHandOver
<1>5. CASE EmptyBatch(w)
  BY <1>5, AbandonTypes DEF EmptyBatch, At, BatchStates
<1>6. CASE StaleBinding(w)
  BY <1>6, AbandonTypes DEF StaleBinding, At, BatchStates, OpenStates
<1>7. CASE CheckBinding(w)
  <2>1. worker[w] \in GoodWorkerRow
    BY DEF TypeInv
  <2>2. [worker[w] EXCEPT !.pc = "checked"] \in GoodWorkerRow
    BY <1>7, <2>1 DEF CheckBinding, At, GoodWorkerRow, WorkerRow, HoldsBatch, HoldsAttempt
  <2> QED
    BY <1>7, <2>2, WorkerStep DEF CheckBinding, TypeInv
<1>8. CASE \E nonce \in {"none", "outstanding"} : HandOver(w, nonce)
  BY <1>8, HandOverTypes
<1>9. ASSUME NEW result \in Results, TransportReturns(w, result)
      PROVE  TypeInv'
  <2> DEFINE seen == attempts[worker[w].batch][worker[w].attempt].nonce = "consumed"
  <2>1. worker[w] \in GoodWorkerRow
    BY DEF TypeInv
  <2>2. [worker[w] EXCEPT !.pc = "finalize", !.result = result, !.attested = seen] \in GoodWorkerRow
    <3>1. seen \in BOOLEAN
      OBVIOUS
    <3> HIDE DEF seen
    <3> QED
      BY <1>9, <2>1, <3>1
         DEF TransportReturns, At, GoodWorkerRow, WorkerRow, HoldsBatch, HoldsAttempt
  <2> QED
    BY <1>9, <2>2, WorkerStep DEF TransportReturns, TypeInv
<1>10. CASE FinalizeAttempt(w)
  BY <1>10, FinalizeTypes
<1>11. CASE EndSweep(w)
  BY <1>11, ConstantRows, WorkerStep DEF EndSweep, TypeInv
<1> QED
  BY <1>1, <1>2, <1>3, <1>4, <1>5, <1>6, <1>7, <1>8, <1>9, <1>10, <1>11 DEF DispatchStep

LEMMA EchoTypes ==
    ASSUME TypeInv, EchoStep
    PROVE  TypeInv'
<1>1. ASSUME NEW b \in Batches, NEW n \in AttemptNos, EchoRead(b, n)
      PROVE  TypeInv'
  <2> DEFINE s == batches[b].state
             settle == s \in {"retry_wait", "dead_letter", "dispatched"} \/ AckTimedOut(b)
  <2>1. s \in BatchStates /\ n \in 0..MaxAttempt /\ settle \in BOOLEAN
    BY BoundsAssumption DEF TypeInv, TypeOK, BatchRow, AttemptNos
  <2>2. echo' = [pc |-> "read", batch |-> b, attempt |-> n, captured |-> s, settle |-> settle]
    BY <1>1 DEF EchoRead
  <2> HIDE DEF settle
  <2>3. echo' \in GoodEchoRow /\ echo' \in EchoRow
    BY <2>1, <2>2 DEF GoodEchoRow, EchoRow
  <2> QED
    BY <1>1, <2>3 DEF EchoRead, TypeInv, TypeOK
<1>2. ASSUME NEW b \in Batches, NEW n \in AttemptNos, EchoExpired(b, n)
      PROVE  TypeInv'
  BY <1>2, WithNoncesType DEF EchoExpired, TypeInv, TypeOK
<1>3. CASE EchoCommit
  <2> DEFINE b == echo.batch
             n == echo.attempt
  <2>1. b \in Batches /\ n \in AttemptNos
    BY <1>3 DEF EchoCommit, TypeInv, GoodEchoRow
  <2>2. MoveTo(b, "seen", "none") \in BatchRow
    BY <2>1, MoveToType DEF BatchStates
  <2>3. [batch |-> b, attempt |-> n, stage |-> "host_attested"] \in Receipt
    BY <2>1 DEF Receipt, Stages
  <2>4. attempts' \in [Batches -> [AttemptNos -> AttemptRow]]
    BY <1>3, WithNoncesType DEF EchoCommit, TypeInv, TypeOK
  <2>5. receipts' \subseteq Receipt
    BY <1>3, <2>3 DEF EchoCommit, TypeInv, TypeOK
  <2>6. batches' \in [Batches -> BatchRow]
    BY <1>3, <2>1, <2>2 DEF EchoCommit, TypeInv, TypeOK
  <2>7. echo' \in GoodEchoRow /\ echo' \in EchoRow
    BY <1>3, ConstantRows DEF EchoCommit, GoodEchoRow
  <2> QED
    BY <1>3, <2>4, <2>5, <2>6, <2>7 DEF EchoCommit, TypeInv, TypeOK
<1> QED
  BY <1>1, <1>2, <1>3 DEF EchoStep

LEMMA EndpointTypes ==
    ASSUME TypeInv, EndpointStep
    PROVE  TypeInv'
<1> DEFINE Channel == [generation: Generations, live: BOOLEAN, deleted: BOOLEAN]
<1>1. channel \in Channel
  BY DEF TypeInv, TypeOK
<1>2. ASSUME NEW l \in BOOLEAN
      PROVE  [channel EXCEPT !.live = l] \in Channel
  BY <1>1
<1>3. CASE Takeover
  <2>1. channel' \in Channel
    <3>1. channel.generation + 1 \in Generations
      <4>1. channel.generation \in 0..MaxGeneration /\ channel.generation < MaxGeneration
        BY <1>1, <1>3 DEF Takeover, Generations
      <4> QED
        BY <4>1, BoundsAssumption DEF Generations
    <3> QED
      BY <1>1, <1>3, <3>1 DEF Takeover
  <2>2. batches' \in [Batches -> BatchRow]
    <3>1. ASSUME NEW b \in Batches
          PROVE  [batches[b] EXCEPT !.state = "pending", !.gen = 0, !.reason = "none"] \in BatchRow
      <4>1. batches[b] \in BatchRow
        BY DEF TypeInv, TypeOK
      <4>2. "pending" \in BatchStates
        BY DEF BatchStates, OpenStates
      <4> QED
        BY <4>1, <4>2, Zeros DEF BatchRow
    <3> QED
      BY <1>3, <3>1 DEF Takeover, TypeInv, TypeOK
  <2>3. attempts' \in [Batches -> [AttemptNos -> AttemptRow]]
    BY <1>3, WithNoncesType DEF Takeover
  <2> QED
    BY <1>3, <2>1, <2>2, <2>3 DEF Takeover, TypeInv, TypeOK
<1>4. CASE EndpointLapses
  BY <1>2, <1>4 DEF EndpointLapses, TypeInv, TypeOK
<1>5. CASE EndpointRenews
  BY <1>2, <1>5 DEF EndpointRenews, TypeInv, TypeOK
<1>6. CASE EndpointRevoked
  BY <1>2, <1>6, WithNoncesType DEF EndpointRevoked, TypeInv, TypeOK
<1> QED
  BY <1>3, <1>4, <1>5, <1>6 DEF EndpointStep

LEMMA OperatorTypes ==
    ASSUME TypeInv, OperatorStep
    PROVE  TypeInv'
<1>1. CASE DeleteChannel
  <2>1. claims' \in [Claims -> ClaimStates]
    BY <1>1 DEF DeleteChannel, TypeInv, TypeOK, ClaimStates, FinalizedClaims
  <2>2. batches' \in [Batches -> BatchRow]
    <3>1. ASSUME NEW b \in Batches
          PROVE  MoveTo(b, "cancelled", "none") \in BatchRow
      BY MoveToType DEF BatchStates
    <3> QED
      BY <1>1, <3>1 DEF DeleteChannel, TypeInv, TypeOK
  <2>3. attempts' \in [Batches -> [AttemptNos -> AttemptRow]]
    <3>1. ASSUME NEW b \in Batches, NEW n \in AttemptNos
          PROVE  [WithNonces(Outstanding, "discarded")[b][n] EXCEPT
                     !.state = IF @ = "leased" THEN "failed" ELSE @] \in AttemptRow
      <4>1. WithNonces(Outstanding, "discarded")[b][n] \in AttemptRow
        BY WithNoncesType
      <4> QED
        BY <4>1 DEF AttemptRow
    <3> QED
      BY <1>1, <3>1 DEF DeleteChannel
  <2>4. channel' \in [generation: Generations, live: BOOLEAN, deleted: BOOLEAN]
    BY <1>1, Zeros DEF DeleteChannel
  <2> QED
    BY <1>1, <2>1, <2>2, <2>3, <2>4 DEF DeleteChannel, TypeInv, TypeOK
<1>2. CASE RetryDeadLetter
  <2> DEFINE b == operator.batch
  <2>1. b \in Batches =>
           [batches[b] EXCEPT !.state = "retry_wait", !.gen = 0, !.due = TRUE] \in BatchRow
    <3>1. b \in Batches => batches[b] \in BatchRow
      BY DEF TypeInv, TypeOK
    <3>2. "retry_wait" \in BatchStates
      BY DEF BatchStates, OpenStates
    <3> QED
      BY <3>1, <3>2, Zeros DEF BatchRow
  <2>2. batches' \in [Batches -> BatchRow]
    BY <1>2, <2>1 DEF RetryDeadLetter, TypeInv, TypeOK
  <2> QED
    BY <1>2, <2>2, ConstantRows DEF RetryDeadLetter, TypeInv, TypeOK
<1>3. ASSUME NEW b \in Batches, RetryRead(b)
      PROVE  TypeInv'
  <2>1. batches[b].attempt \in 0..MaxAttempt
    BY DEF TypeInv, TypeOK, BatchRow
  <2>2. operator' \in RetryRow
    BY <1>3, <2>1 DEF RetryRead, RetryRow
  <2> QED
    BY <1>3, <2>2 DEF RetryRead, TypeInv, TypeOK
<1> QED
  BY <1>1, <1>2, <1>3 DEF OperatorStep

LEMMA CrashTypes ==
    ASSUME TypeInv, Crash
    PROVE  TypeInv'
<1>1. CASE CrashDaemon
  <2>1. worker' \in [Workers -> GoodWorkerRow] /\ worker' \in [Workers -> WorkerRow]
    BY <1>1, ConstantRows DEF CrashDaemon, TypeInv, GoodWorkerRow
  <2>2. echo' \in GoodEchoRow /\ echo' \in EchoRow
    BY <1>1, ConstantRows DEF CrashDaemon, GoodEchoRow
  <2> QED
    BY <1>1, <2>1, <2>2 DEF CrashDaemon, TypeInv, TypeOK
<1>2. CASE CrashOperator
  BY <1>2, ConstantRows DEF CrashOperator, TypeInv, TypeOK
<1>3. ASSUME NEW w \in Workers, CrashProcess(w)
      PROVE  TypeInv'
  BY <1>3, ConstantRows, WorkerStep DEF CrashProcess, TypeInv
<1> QED
  BY <1>1, <1>2, <1>3 DEF Crash

LEMMA TimerTypes ==
    ASSUME TypeInv, NEW b \in Batches, TimerElapses(b)
    PROVE  TypeInv'
<1>1. batches[b] \in BatchRow
  BY DEF TypeInv, TypeOK
<1>2. [batches[b] EXCEPT !.due = TRUE] \in BatchRow
  BY <1>1 DEF BatchRow
<1>3. batches' = [batches EXCEPT ![b] = [batches[b] EXCEPT !.due = TRUE]]
  BY DEF TimerElapses
<1> QED
  BY <1>2, <1>3 DEF TimerElapses, TypeInv, TypeOK

\* The inductive invariant, and type correctness of every behaviour of the
\* outbox (the tables of db.ts and the local variables of its handlers).
LEMMA TypesInit == Init => TypeInv
<1> SUFFICES ASSUME Init
             PROVE  TypeInv
  OBVIOUS
<1>1. "pending" \in ClaimStates
  BY DEF ClaimStates, ActiveClaims
<1>2. worker \in [Workers -> GoodWorkerRow] /\ worker \in [Workers -> WorkerRow]
  BY ConstantRows DEF Init, GoodWorkerRow
<1>3. echo \in GoodEchoRow /\ echo \in EchoRow
  BY ConstantRows DEF Init, GoodEchoRow
<1>4. channel \in [generation: Generations, live: BOOLEAN, deleted: BOOLEAN]
  BY Zeros DEF Init
<1> QED
  BY <1>1, <1>2, <1>3, <1>4, ConstantRows DEF Init, TypeInv, TypeOK

LEMMA TypesStep == TypeInv /\ [Next]_vars => TypeInv'
<1> SUFFICES ASSUME TypeInv, [Next]_vars
             PROVE  TypeInv'
  OBVIOUS
<1>1. CASE UNCHANGED vars
  BY <1>1 DEF vars, TypeInv, TypeOK
<1>2. CASE Tick \/ AgentStep \/ EchoStep
  BY <1>2, TickTypes, AgentTypes, EchoTypes
<1>3. CASE EndpointStep \/ OperatorStep \/ Crash
  BY <1>3, EndpointTypes, OperatorTypes, CrashTypes
<1>4. CASE \E w \in Workers : RecoverStep(w) \/ DispatchStep(w)
  BY <1>4, RecoverTypes, DispatchTypes
<1>5. CASE \E b \in Batches : TimerElapses(b)
  BY <1>5, TimerTypes
<1> QED
  BY <1>1, <1>2, <1>3, <1>4, <1>5 DEF Next

LEMMA TypesInvariant == Spec => []TypeInv
BY TypesInit, TypesStep, PTL DEF Spec

\* Every table and every local variable keeps its type.
THEOREM TypeCorrect == Spec => []TypeOK
<1>1. TypeInv => TypeOK
  BY DEF TypeInv
<1> QED
  BY <1>1, TypesInvariant, PTL


------------------------------------------------------------------------------
(* How the helpers act on the state of a batch and of an attempt.           *)

LEMMA MoveToFields ==
    ASSUME TypeInv, NEW b \in Batches, NEW s, NEW r
    PROVE  /\ MoveTo(b, s, r).state = s
           /\ MoveTo(b, s, r).attempt = batches[b].attempt
BY DEF MoveTo, TypeInv, TypeOK, BatchRow

LEMMA WithNoncesFields ==
    ASSUME TypeInv, NEW A, NEW s, NEW b \in Batches, NEW n \in AttemptNos
    PROVE  /\ WithNonces(A, s)[b][n].state = attempts[b][n].state
           /\ WithNonces(A, s)[b][n].gen = attempts[b][n].gen
<1>1. attempts[b][n] \in AttemptRow
  BY DEF TypeInv, TypeOK
<1> QED
  BY <1>1 DEF WithNonces, AttemptRow

LEMMA RecoveredFields ==
    ASSUME TypeInv, NEW b \in Batches
    PROVE  /\ RecoveredBatch(b).attempt = batches[b].attempt
           /\ RecoveredBatch(b).state = "dispatching" <=>
                 batches[b].state = "dispatching" /\ ~batches[b].due
           /\ RecoveredBatch(b).state = "dispatching" => RecoveredBatch(b) = batches[b]
           /\ batches[b].state \in {"seen", "cancelled"} => RecoveredBatch(b) = batches[b]
<1>1. batches[b] \in BatchRow
  BY DEF TypeInv, TypeOK
<1>2. CASE AckTimedOut(b) /\ Settled(b)
  <2>1. ~AckOverdue(b) /\ batches[b].state = "needs_attention"
    BY <1>2 DEF AckTimedOut, AckOverdue
  <2>2. RecoveredBatch(b) = [batches[b] EXCEPT !.state = "cancelled"]
    BY <1>2, <2>1, Zenon DEF RecoveredBatch
  <2> QED
    BY <1>1, <2>1, <2>2 DEF BatchRow
<1>3. CASE ~(AckTimedOut(b) /\ Settled(b)) /\ batches[b].state = "dispatching" /\ batches[b].due
  <2>1. ~AckOverdue(b)
    BY <1>3 DEF AckOverdue
  <2>2. RecoveredBatch(b) = [batches[b] EXCEPT !.state = "retry_wait", !.owner = 0]
    BY <1>3, <2>1, Zenon DEF RecoveredBatch
  <2> QED
    BY <1>1, <1>3, <2>2 DEF BatchRow
<1>4. CASE ~(AckTimedOut(b) /\ Settled(b)) /\ AckOverdue(b)
  BY <1>1, <1>4, MoveToFields DEF RecoveredBatch, AckTimedOut, AckOverdue, BatchRow
<1>5. CASE /\ ~(AckTimedOut(b) /\ Settled(b)) /\ ~AckOverdue(b)
           /\ ~(batches[b].state = "dispatching" /\ batches[b].due)
  BY <1>1, <1>5 DEF RecoveredBatch
<1> QED
  BY <1>2, <1>3, <1>4, <1>5

------------------------------------------------------------------------------
(* Seen and cancelled are final.  Most of the steps ask for another state;  *)
(* the echo settles the batch in the state it captured, which was neither.  *)

EchoCapture ==
    echo.settle => echo.captured \in {"retry_wait", "dead_letter", "dispatched", "needs_attention"}

LEMMA EchoMoves ==
    ASSUME [Next]_vars
    PROVE  \/ echo' = echo
           \/ echo' = NoEcho
           \/ \E b \in Batches, n \in AttemptNos : EchoRead(b, n)
<1>1. CASE Tick \/ AgentStep
  BY <1>1 DEF Tick, TickGate, TickFreeze, TickAppend, AgentStep, SnoozeClaim, ConsumeClaim,
              ClaimAction, AckBatch, AckAfterAttestation
<1>2. CASE EchoStep
  BY <1>2 DEF EchoStep, EchoExpired, EchoCommit
<1>3. CASE EndpointStep \/ OperatorStep
  BY <1>3 DEF EndpointStep, Takeover, EndpointLapses, EndpointRenews, EndpointRevoked,
              OperatorStep, DeleteChannel, RetryDeadLetter, RetryRead
<1>4. CASE Crash
  BY <1>4 DEF Crash, CrashDaemon, CrashOperator, CrashProcess
<1>5. ASSUME NEW w \in Workers, RecoverStep(w)
      PROVE  echo' = echo
  BY <1>5 DEF RecoverStep, RecoverLeases, RetireSettled, ReportIncidents
<1>6. ASSUME NEW w \in Workers, DispatchStep(w)
      PROVE  echo' = echo
  BY <1>6 DEF DispatchStep, Visit, Park, AcquireBatch, SkipCandidate, EmptyBatch, StaleBinding,
              Abandon, CheckBinding, SkipHandOver, HandOver, TransportReturns,
              FinalizeAttempt, EndSweep
<1>7. CASE (\E b \in Batches : TimerElapses(b)) \/ UNCHANGED vars
  BY <1>7 DEF TimerElapses, vars
<1> QED
  BY <1>1, <1>2, <1>3, <1>4, <1>5, <1>6, <1>7 DEF Next

LEMMA EchoCaptureInit == Init => EchoCapture
BY DEF Init, EchoCapture, NoEcho

LEMMA EchoCaptureStep == EchoCapture /\ [Next]_vars => EchoCapture'
<1> SUFFICES ASSUME EchoCapture, [Next]_vars
             PROVE  EchoCapture'
  OBVIOUS
<1>1. CASE echo' = echo
  BY <1>1 DEF EchoCapture
<1>2. CASE echo' = NoEcho
  BY <1>2 DEF EchoCapture, NoEcho
<1>3. ASSUME NEW b \in Batches, NEW n \in AttemptNos, EchoRead(b, n)
      PROVE  EchoCapture'
  BY <1>3 DEF EchoRead, EchoCapture, AckTimedOut
<1> QED
  BY <1>1, <1>2, <1>3, EchoMoves

Final(b) == batches[b].state \in {"seen", "cancelled"} => batches'[b].state = batches[b].state

LEMMA FinalInTick ==
    ASSUME TypeInv, Tick, NEW b \in Batches
    PROVE  Final(b)
BY DEF Tick, TickGate, TickFreeze, TickAppend, Final, TypeInv, TypeOK, BatchRow, OpenStates

LEMMA FinalInAgentStep ==
    ASSUME TypeInv, AgentStep, NEW b \in Batches
    PROVE  Final(b)
<1>1. ASSUME NEW c \in Claims, NEW s, ClaimAction(c, s)
      PROVE  Final(b)
  BY <1>1 DEF ClaimAction, Detached, Final, OpenStates
<1>2. ASSUME NEW x \in Batches, AckBatch(x)
      PROVE  Final(b)
  BY <1>2, MoveToFields DEF AckBatch, AwaitsAck, AckTimedOut, Final, TypeInv, TypeOK
<1> QED
  BY <1>1, <1>2 DEF AgentStep, SnoozeClaim, ConsumeClaim, AckAfterAttestation, Final

LEMMA FinalInRecoverStep ==
    ASSUME TypeInv, NEW w \in Workers, RecoverStep(w), NEW b \in Batches
    PROVE  Final(b)
<1>1. CASE RecoverLeases(w)
  BY <1>1, RecoveredFields DEF RecoverLeases, Final
<1>2. CASE RetireSettled(w)
  BY <1>2 DEF RetireSettled, Retirable, Final, OpenStates
<1>3. CASE ReportIncidents(w)
  BY <1>3 DEF ReportIncidents, Final
<1> QED
  BY <1>1, <1>2, <1>3 DEF RecoverStep

LEMMA FinalInDispatchStep ==
    ASSUME TypeInv, NEW w \in Workers, DispatchStep(w), NEW b \in Batches
    PROVE  Final(b)
<1>1. ASSUME NEW x \in Batches, Visit(w, x)
      PROVE  Final(b)
  BY <1>1 DEF Visit, Final, TypeInv, TypeOK, OpenStates
<1>2. CASE Park(w)
  BY <1>2 DEF Park, Parkable, Final, TypeInv, TypeOK
<1>3. CASE AcquireBatch(w)
  BY <1>3 DEF AcquireBatch, CanAcquire, Final, TypeInv, TypeOK, OpenStates
<1>4. ASSUME NEW s, NEW r, Abandon(w, s, r)
      PROVE  Final(b)
  BY <1>4, MoveToFields DEF Abandon, Owns, Final, TypeInv, TypeOK
<1>5. CASE FinalizeAttempt(w)
  BY <1>5, MoveToFields DEF FinalizeAttempt, Owns, Final, TypeInv, TypeOK
<1> QED
  BY <1>1, <1>2, <1>3, <1>4, <1>5
     DEF DispatchStep, EmptyBatch, StaleBinding, SkipCandidate, CheckBinding, SkipHandOver,
         HandOver, TransportReturns, EndSweep, Final

LEMMA FinalInOtherSteps ==
    ASSUME TypeInv, EchoCapture, NEW b \in Batches,
           EchoStep \/ EndpointStep \/ OperatorStep \/ Crash \/ (\E x \in Batches : TimerElapses(x))
    PROVE  Final(b)
<1>1. CASE EchoStep
  <2>1. CASE EchoCommit
    BY <2>1, MoveToFields DEF EchoCommit, EchoSettles, EchoCapture, Final, TypeInv, TypeOK
  <2> QED
    BY <1>1, <2>1 DEF EchoStep, EchoRead, EchoExpired, Final
<1>2. CASE EndpointStep
  BY <1>2 DEF EndpointStep, Takeover, EndpointLapses, EndpointRenews, EndpointRevoked, Final
<1>3. CASE OperatorStep
  <2>1. CASE DeleteChannel
    BY <2>1 DEF DeleteChannel, Deletable, Final
  <2>2. CASE RetryDeadLetter
    BY <2>2 DEF RetryDeadLetter, Final, TypeInv, TypeOK
  <2> QED
    BY <1>3, <2>1, <2>2 DEF OperatorStep, RetryRead, Final
<1>4. CASE Crash
  BY <1>4 DEF Crash, CrashDaemon, CrashOperator, CrashProcess, Final
<1>5. ASSUME NEW x \in Batches, TimerElapses(x)
      PROVE  Final(b)
  BY <1>5 DEF TimerElapses, Final, TypeInv, TypeOK, BatchRow
<1> QED
  BY <1>1, <1>2, <1>3, <1>4, <1>5

\* No late worker, echo, recovery, gate or operator reopens or relabels a batch
\* that was seen or cancelled.
THEOREM TerminalStaysFinal == Spec => TerminalIsFinal
<1>1. TypeInv /\ EchoCapture /\ [Next]_vars =>
        [\A b \in Batches : batches[b].state \in {"seen", "cancelled"} =>
            batches'[b].state = batches[b].state]_vars
  <2> SUFFICES ASSUME TypeInv, EchoCapture, Next, NEW b \in Batches
               PROVE  Final(b)
    BY DEF Final
  <2> QED
    BY FinalInTick, FinalInAgentStep, FinalInRecoverStep, FinalInDispatchStep,
       FinalInOtherSteps DEF Next
<1> QED
  BY <1>1, TypesInvariant, EchoCaptureInit, EchoCaptureStep, PTL DEF Spec, TerminalIsFinal

------------------------------------------------------------------------------
(* One active attempt.  Most steps leave leases alone; recovery, acquiring, *)
(* giving up, finalizing and deletion move batch and attempt together.      *)

LeasesUntouched ==
    \A b \in Batches :
        /\ batches'[b].state = "dispatching" <=> batches[b].state = "dispatching"
        /\ batches[b].state = "dispatching" =>
              batches'[b].attempt = batches[b].attempt /\ batches'[b].owner = batches[b].owner
        /\ \A n \in AttemptNos : attempts'[b][n].state = attempts[b][n].state

LEMMA UntouchedIsSafe ==
    ASSUME SingleActiveAttempt, LeasesUntouched
    PROVE  SingleActiveAttempt'
<1> SUFFICES ASSUME NEW b \in Batches
             PROVE  /\ batches'[b].state = "dispatching" =>
                         /\ batches'[b].attempt \in AttemptNos
                         /\ attempts'[b][batches'[b].attempt].state = "leased"
                    /\ \A n \in AttemptNos : attempts'[b][n].state = "leased" =>
                         /\ n = batches'[b].attempt
                         /\ batches'[b].state = "dispatching" /\ batches'[b].owner = n
  BY DEF SingleActiveAttempt, Owns
<1> QED
  BY DEF SingleActiveAttempt, LeasesUntouched, Owns

\* What a step that writes no lease may still do to rows and nonces.
LEMMA TickUntouched ==
    ASSUME TypeInv, Tick
    PROVE  LeasesUntouched
<1>0. batches \in [Batches -> BatchRow]
  BY DEF TypeInv, TypeOK
<1>1. ASSUME NEW c \in Claims, NEW b \in Batches, TickFreeze(c, b)
      PROVE  LeasesUntouched
  <2> DEFINE row == [NoRow EXCEPT !.state = "pending", !.claims = {c}]
  <2>1. row.state = "pending"
    BY DEF NoRow
  <2>2. batches' = [batches EXCEPT ![b] = row] /\ batches[b].state = "none" /\ UNCHANGED attempts
    BY <1>1 DEF TickFreeze
  <2> HIDE DEF row
  <2> QED
    BY <1>0, <2>1, <2>2 DEF LeasesUntouched
<1>2. ASSUME NEW c \in Claims, NEW b \in Batches, TickAppend(c, b)
      PROVE  LeasesUntouched
  <2> DEFINE row == [batches[b] EXCEPT !.claims = @ \cup {c}]
  <2>1. row.state = batches[b].state /\ row.attempt = batches[b].attempt /\ row.owner = batches[b].owner
    BY <1>0 DEF BatchRow
  <2>2. batches' = [batches EXCEPT ![b] = row] /\ UNCHANGED attempts
    BY <1>2 DEF TickAppend
  <2> HIDE DEF row
  <2> QED
    BY <1>0, <2>1, <2>2 DEF LeasesUntouched
<1> QED
  BY <1>1, <1>2 DEF Tick, TickGate, LeasesUntouched

LEMMA AgentUntouched ==
    ASSUME TypeInv, AgentStep
    PROVE  LeasesUntouched
<1>1. ASSUME NEW c \in Claims, NEW s, ClaimAction(c, s)
      PROVE  LeasesUntouched
  <2> SUFFICES ASSUME NEW b \in Batches
               PROVE  /\ Detached(c)[b].state = "dispatching" <=> batches[b].state = "dispatching"
                      /\ batches[b].state = "dispatching" => Detached(c)[b] = batches[b]
    BY <1>1 DEF ClaimAction, LeasesUntouched
  <2>1. batches[b] \in BatchRow
    BY DEF TypeInv, TypeOK
  <2> QED
    BY <2>1 DEF Detached, OpenStates, BatchRow
<1>2. ASSUME NEW x \in Batches, AckBatch(x)
      PROVE  LeasesUntouched
  BY <1>2, MoveToFields DEF AckBatch, AwaitsAck, AckTimedOut, LeasesUntouched, TypeInv, TypeOK
<1> QED
  BY <1>1, <1>2 DEF AgentStep, SnoozeClaim, ConsumeClaim, AckAfterAttestation, LeasesUntouched

LEMMA EchoUntouched ==
    ASSUME TypeInv, EchoCapture, EchoStep
    PROVE  LeasesUntouched
<1>1. CASE EchoCommit
  BY <1>1, MoveToFields, WithNoncesFields
     DEF EchoCommit, EchoSettles, EchoCapture, LeasesUntouched, TypeInv, TypeOK
<1>2. ASSUME NEW b \in Batches, NEW n \in AttemptNos, EchoExpired(b, n)
      PROVE  LeasesUntouched
  BY <1>2, WithNoncesFields DEF EchoExpired, LeasesUntouched
<1> QED
  BY <1>1, <1>2 DEF EchoStep, EchoRead, LeasesUntouched

LEMMA EndpointUntouched ==
    ASSUME TypeInv, EndpointStep
    PROVE  LeasesUntouched
<1>1. CASE Takeover
  <2>1. ASSUME NEW b \in Batches
        PROVE  /\ batches'[b].state = "dispatching" <=> batches[b].state = "dispatching"
               /\ batches[b].state = "dispatching" => batches'[b] = batches[b]
    <3>1. batches[b] \in BatchRow
      BY DEF TypeInv, TypeOK
    <3>2. [batches[b] EXCEPT !.state = "pending", !.gen = 0, !.reason = "none"].state = "pending"
      BY <3>1 DEF BatchRow
    <3> QED
      BY <1>1, <3>2 DEF Takeover
  <2>2. \A b \in Batches, n \in AttemptNos : attempts'[b][n].state = attempts[b][n].state
    <3>1. attempts' = WithNonces(Outstanding, "discarded")
      BY <1>1 DEF Takeover
    <3> QED
      BY <3>1, WithNoncesFields
  <2> QED
    BY <2>1, <2>2 DEF LeasesUntouched
<1>2. CASE EndpointRevoked
  BY <1>2, WithNoncesFields DEF EndpointRevoked, LeasesUntouched
<1> QED
  BY <1>1, <1>2 DEF EndpointStep, EndpointLapses, EndpointRenews, LeasesUntouched

LEMMA OtherUntouched ==
    ASSUME TypeInv, RetryDeadLetter \/ (\E b \in Batches : RetryRead(b)) \/ Crash
                      \/ (\E b \in Batches : TimerElapses(b))
    PROVE  LeasesUntouched
<1>1. CASE RetryDeadLetter
  BY <1>1 DEF RetryDeadLetter, LeasesUntouched, TypeInv, TypeOK, BatchRow
<1>2. ASSUME NEW x \in Batches, TimerElapses(x)
      PROVE  LeasesUntouched
  BY <1>2 DEF TimerElapses, LeasesUntouched, TypeInv, TypeOK, BatchRow
<1> QED
  BY <1>1, <1>2 DEF RetryRead, Crash, CrashDaemon, CrashOperator, CrashProcess, LeasesUntouched

LEMMA SweepUntouched ==
    ASSUME TypeInv, NEW w \in Workers,
           \/ RetireSettled(w) \/ ReportIncidents(w) \/ Park(w)
           \/ \E b \in Batches : Visit(w, b)
           \/ \E nonce \in {"none", "outstanding"} : HandOver(w, nonce)
    PROVE  LeasesUntouched
<1>0. batches \in [Batches -> BatchRow]
  BY DEF TypeInv, TypeOK
<1>1. CASE RetireSettled(w)
  <2> SUFFICES ASSUME NEW b \in Batches
               PROVE  /\ batches'[b].state = "dispatching" <=> batches[b].state = "dispatching"
                      /\ batches[b].state = "dispatching" => batches'[b] = batches[b]
    BY <1>1 DEF RetireSettled, LeasesUntouched
  <2>1. [batches[b] EXCEPT !.state = "cancelled", !.due = FALSE].state = "cancelled"
    BY <1>0 DEF BatchRow
  <2> QED
    BY <1>1, <2>1 DEF RetireSettled, Retirable, OpenStates
<1>2. CASE Park(w)
  <2> DEFINE x == worker[w].batch
             row == [batches[x] EXCEPT !.state = "waiting_for_endpoint", !.reason = "none"]
  <2>1. x \in Batches
    BY <1>2 DEF Park, At, TypeInv, GoodWorkerRow, HoldsBatch
  <2>2. row.state = "waiting_for_endpoint"
    BY <1>0, <2>1 DEF BatchRow
  <2>3. /\ batches' = IF Parkable(x) THEN [batches EXCEPT ![x] = row] ELSE batches
        /\ UNCHANGED attempts
    BY <1>2 DEF Park
  <2> HIDE DEF row
  <2> QED
    BY <1>0, <2>1, <2>2, <2>3 DEF Parkable, LeasesUntouched
<1>3. ASSUME NEW b \in Batches, Visit(w, b)
      PROVE  LeasesUntouched
  <2>1. PICK kept \in SUBSET Claims :
            batches' = [batches EXCEPT ![b] =
              [@ EXCEPT !.claims = kept, !.due = kept # {},
                        !.state = IF kept = {} THEN "cancelled" ELSE batches[b].state]]
    BY <1>0, <1>3 DEF Visit, BatchRow
  <2> DEFINE row == [batches[b] EXCEPT !.claims = kept, !.due = kept # {},
                        !.state = IF kept = {} THEN "cancelled" ELSE batches[b].state]
  <2>2. row.state = IF kept = {} THEN "cancelled" ELSE batches[b].state
    BY <1>0 DEF BatchRow
  <2>3. batches' = [batches EXCEPT ![b] = row] /\ UNCHANGED attempts /\ batches[b].state \in OpenStates
    BY <1>3, <2>1 DEF Visit
  <2> HIDE DEF row
  <2> QED
    BY <1>0, <2>2, <2>3 DEF LeasesUntouched, OpenStates
<1>4. ASSUME NEW nonce, HandOver(w, nonce)
      PROVE  LeasesUntouched
  <2> DEFINE x == worker[w].batch
             m == worker[w].attempt
             row == [attempts[x][m] EXCEPT !.nonce = nonce]
  <2>1. x \in Batches /\ m \in AttemptNos
    BY <1>4 DEF HandOver, At, TypeInv, GoodWorkerRow, HoldsBatch, HoldsAttempt
  <2>2. attempts[x][m] \in AttemptRow
    BY <2>1 DEF TypeInv, TypeOK
  <2>3. row.state = attempts[x][m].state
    BY <2>2 DEF AttemptRow
  <2>4. attempts' = [attempts EXCEPT ![x][m] = row] /\ UNCHANGED batches
    BY <1>4 DEF HandOver
  <2>5. attempts \in [Batches -> [AttemptNos -> AttemptRow]]
    BY DEF TypeInv, TypeOK
  <2> HIDE DEF row
  <2> QED
    BY <2>1, <2>3, <2>4, <2>5 DEF LeasesUntouched
<1> QED
  BY <1>1, <1>2, <1>3, <1>4 DEF ReportIncidents, LeasesUntouched

\* What the steps that write a lease do to the rows of one batch.
OneAttempt(b) ==
    /\ batches[b].state = "dispatching" =>
          /\ batches[b].attempt \in AttemptNos
          /\ attempts[b][batches[b].attempt].state = "leased"
    /\ \A n \in AttemptNos : attempts[b][n].state = "leased" => n = batches[b].attempt /\ Owns(b, n)

LEMMA RecoverKeepsOneAttempt ==
    ASSUME TypeInv, SingleActiveAttempt, NEW w \in Workers, RecoverLeases(w), NEW b \in Batches
    PROVE  OneAttempt(b)'
<1>0. batches'[b] = RecoveredBatch(b) /\ batches[b] \in BatchRow
  BY DEF RecoverLeases, TypeInv, TypeOK
<1>1. \A n \in AttemptNos : attempts'[b][n].state = "leased" <=>
                                attempts[b][n].state = "leased" /\ ~batches[b].due
  <2> SUFFICES ASSUME NEW n \in AttemptNos, NEW lapsed,
                      attempts'[b][n] = RecoveredAttempt(b, n, lapsed)
               PROVE  attempts'[b][n].state = "leased" <=>
                                attempts[b][n].state = "leased" /\ ~batches[b].due
    BY DEF RecoverLeases
  <2>1. attempts[b][n] \in AttemptRow
    BY DEF TypeInv, TypeOK
  <2> QED
    BY <2>1 DEF RecoveredAttempt, AttemptRow
<1>2. OneAttempt(b)
  BY DEF SingleActiveAttempt, OneAttempt
<1> QED
  BY <1>0, <1>1, <1>2, RecoveredFields DEF OneAttempt, Owns

LEMMA AcquireKeepsOneAttempt ==
    ASSUME TypeInv, SingleActiveAttempt, NEW w \in Workers, AcquireBatch(w), NEW b \in Batches
    PROVE  OneAttempt(b)'
<1> DEFINE x == worker[w].batch
           m == batches[x].attempt + 1
           row == [batches[x] EXCEPT !.state = "dispatching", !.attempt = m, !.gen = worker[w].gen,
                                     !.owner = m, !.reason = "none", !.due = FALSE]
           att == [NoAttempt EXCEPT !.state = "leased", !.gen = worker[w].gen]
<1>0. /\ batches \in [Batches -> BatchRow]
      /\ attempts \in [Batches -> [AttemptNos -> AttemptRow]]
  BY DEF TypeInv, TypeOK
<1>1. /\ batches' = [batches EXCEPT ![x] = row]
      /\ attempts' = [attempts EXCEPT ![x][m] = att]
      /\ x \in Batches /\ m <= MaxAttempt /\ batches[x].state # "dispatching"
  BY DEF AcquireBatch, CanAcquire, At, TypeInv, GoodWorkerRow, HoldsBatch, OpenStates
<1>2. m \in AttemptNos
  BY <1>0, <1>1, BoundsAssumption DEF BatchRow, AttemptNos
<1>3. row.state = "dispatching" /\ row.attempt = m /\ row.owner = m
  BY <1>0, <1>1 DEF BatchRow
<1>4. att.state = "leased"
  BY DEF NoAttempt
<1>5. OneAttempt(b)
  BY DEF SingleActiveAttempt, OneAttempt
<1> HIDE DEF row, att
<1>6. CASE b = x
  <2>1. \A n \in AttemptNos : attempts[b][n].state # "leased"
    BY <1>1, <1>5, <1>6 DEF OneAttempt, Owns
  <2>2. batches'[b] = row /\ attempts'[b][m] = att
    BY <1>0, <1>1, <1>2, <1>6
  <2>3. \A n \in AttemptNos \ {m} : attempts'[b][n] = attempts[b][n]
    BY <1>0, <1>1, <1>6
  <2> HIDE DEF m
  <2> QED
    BY <1>2, <1>3, <1>4, <2>1, <2>2, <2>3 DEF OneAttempt, Owns
<1>7. CASE b # x
  <2>1. batches'[b] = batches[b] /\ attempts'[b] = attempts[b]
    BY <1>0, <1>1, <1>7
  <2> QED
    BY <1>5, <2>1 DEF OneAttempt, Owns
<1> QED
  BY <1>6, <1>7

\* A pass that gives its attempt up, or finalizes it, ends the lease of the
\* attempt; if it owned the batch, the batch leaves dispatching with it.
LEMMA EndKeepsOneAttempt ==
    ASSUME TypeInv, SingleActiveAttempt, NEW b \in Batches,
           NEW x \in Batches, NEW m \in AttemptNos, NEW row, NEW s, NEW r,
           s # "dispatching", row.state # "leased",
           attempts' = [attempts EXCEPT ![x][m] = row],
           batches' = IF Owns(x, m) THEN [batches EXCEPT ![x] = MoveTo(x, s, r)] ELSE batches
    PROVE  OneAttempt(b)'
<1>0. /\ batches \in [Batches -> BatchRow]
      /\ attempts \in [Batches -> [AttemptNos -> AttemptRow]]
  BY DEF TypeInv, TypeOK
<1>1. OneAttempt(b) /\ OneAttempt(x)
  BY DEF SingleActiveAttempt, OneAttempt
<1>2. CASE b # x
  <2>1. batches'[b] = batches[b] /\ attempts'[b] = attempts[b]
    BY <1>0, <1>2
  <2> QED
    BY <1>1, <2>1 DEF OneAttempt, Owns
<1>3. CASE b = x
  <2>1. attempts'[x][m] = row /\ \A n \in AttemptNos \ {m} : attempts'[x][n] = attempts[x][n]
    BY <1>0
  <2>2. CASE Owns(x, m)
    <3>1. batches'[x].state = s
      BY <1>0, <2>2, MoveToFields
    <3>2. \A n \in AttemptNos : attempts[x][n].state = "leased" => n = m
      BY <1>1, <2>2 DEF OneAttempt, Owns
    <3> QED
      BY <1>3, <2>1, <3>1, <3>2 DEF OneAttempt
  <2>3. CASE ~Owns(x, m)
    <3>1. attempts[x][m].state # "leased" /\ batches' = batches
      BY <1>1, <2>3 DEF OneAttempt
    <3> QED
      BY <1>1, <1>3, <2>1, <3>1 DEF OneAttempt, Owns
  <2> QED
    BY <2>2, <2>3
<1> QED
  BY <1>2, <1>3

LEMMA GiveUpKeepsOneAttempt ==
    ASSUME TypeInv, SingleActiveAttempt, NEW w \in Workers, NEW b \in Batches,
           EmptyBatch(w) \/ StaleBinding(w)
    PROVE  OneAttempt(b)'
<1> DEFINE x == worker[w].batch
           m == worker[w].attempt
           row == [attempts[x][m] EXCEPT !.state = IF attempts[x][m].state = "leased" THEN "failed"
                                                   ELSE attempts[x][m].state]
<1>1. x \in Batches /\ m \in AttemptNos
  BY DEF EmptyBatch, StaleBinding, At, TypeInv, GoodWorkerRow, HoldsBatch, HoldsAttempt
<1>2. attempts[x][m] \in AttemptRow
  BY <1>1 DEF TypeInv, TypeOK
<1>3. row.state # "leased"
  BY <1>2 DEF AttemptRow
<1>4. PICK s \in {"needs_attention", "retry_wait"}, r \in {"empty_batch", "none"} : Abandon(w, s, r)
  BY DEF EmptyBatch, StaleBinding
<1>5. /\ attempts' = [attempts EXCEPT ![x][m] = row]
      /\ batches' = IF Owns(x, m) THEN [batches EXCEPT ![x] = MoveTo(x, s, r)] ELSE batches
  BY <1>4 DEF Abandon
<1> HIDE DEF row, x, m
<1> QED
  BY <1>1, <1>3, <1>5, EndKeepsOneAttempt

LEMMA FinalizeKeepsOneAttempt ==
    ASSUME TypeInv, SingleActiveAttempt, NEW w \in Workers, NEW b \in Batches, FinalizeAttempt(w)
    PROVE  OneAttempt(b)'
<1> DEFINE x == worker[w].batch
           m == worker[w].attempt
<1>1. x \in Batches /\ m \in AttemptNos
  BY DEF FinalizeAttempt, At, TypeInv, GoodWorkerRow, HoldsBatch, HoldsAttempt
<1>2. attempts[x][m] \in AttemptRow
  BY <1>1 DEF TypeInv, TypeOK
<1>3. PICK outcome \in {"accepted", "failed"}, nonce \in {"discarded", attempts[x][m].nonce} :
        attempts' = [attempts EXCEPT ![x][m] =
          [@ EXCEPT !.state = IF attempts[x][m].state = "leased" THEN outcome
                              ELSE attempts[x][m].state,
                    !.nonce = nonce]]
  BY DEF FinalizeAttempt
<1>4. PICK s \in {"seen", "dispatched", "retry_wait", "dead_letter"} :
        batches' = IF Owns(x, m) THEN [batches EXCEPT ![x] = MoveTo(x, s, "none")] ELSE batches
  BY DEF FinalizeAttempt
<1> DEFINE row == [attempts[x][m] EXCEPT !.state = IF attempts[x][m].state = "leased" THEN outcome
                                                   ELSE attempts[x][m].state,
                                         !.nonce = nonce]
<1>5. row.state # "leased"
  BY <1>2 DEF AttemptRow
<1>6. attempts' = [attempts EXCEPT ![x][m] = row]
  BY <1>3
<1> HIDE DEF row, x, m
<1> QED
  BY <1>1, <1>4, <1>5, <1>6, EndKeepsOneAttempt

LEMMA DeleteKeepsOneAttempt ==
    ASSUME TypeInv, DeleteChannel, NEW b \in Batches
    PROVE  OneAttempt(b)'
<1>1. batches'[b].state # "dispatching"
  <2>1. batches'[b] = IF Deletable(b) THEN MoveTo(b, "cancelled", "none") ELSE batches[b]
    BY DEF DeleteChannel
  <2> QED
    BY <2>1, MoveToFields DEF Deletable
<1>2. ASSUME NEW n \in AttemptNos
      PROVE  attempts'[b][n].state # "leased"
  <2> DEFINE row == WithNonces(Outstanding, "discarded")[b][n]
  <2>1. row \in AttemptRow
    BY WithNoncesType
  <2>2. attempts'[b][n] = [row EXCEPT !.state = IF @ = "leased" THEN "failed" ELSE @]
    BY DEF DeleteChannel
  <2> HIDE DEF row
  <2> QED
    BY <2>1, <2>2 DEF AttemptRow
<1> QED
  BY <1>1, <1>2 DEF OneAttempt

\* Two live attempts of one batch never exist, and a dispatching batch has its
\* one: the steps above are all that write a lease.
THEOREM OneActiveAttempt == Spec => []SingleActiveAttempt
<1>1. Init => SingleActiveAttempt
  BY DEF Init, SingleActiveAttempt, NoRow, NoAttempt
<1>2. TypeInv /\ EchoCapture /\ SingleActiveAttempt /\ [Next]_vars => SingleActiveAttempt'
  <2> SUFFICES ASSUME TypeInv, EchoCapture, SingleActiveAttempt, [Next]_vars
               PROVE  SingleActiveAttempt'
    OBVIOUS
  <2>1. CASE Tick \/ AgentStep \/ EchoStep \/ EndpointStep
    BY <2>1, TickUntouched, AgentUntouched, EchoUntouched, EndpointUntouched, UntouchedIsSafe
  <2>2. CASE OperatorStep \/ Crash \/ \E b \in Batches : TimerElapses(b)
    <3>1. CASE DeleteChannel
      BY <3>1, DeleteKeepsOneAttempt DEF SingleActiveAttempt, OneAttempt
    <3> QED
      BY <2>2, <3>1, OtherUntouched, UntouchedIsSafe DEF OperatorStep
  <2>3. ASSUME NEW w \in Workers, RecoverStep(w)
        PROVE  SingleActiveAttempt'
    <3>1. CASE RecoverLeases(w)
      BY <3>1, RecoverKeepsOneAttempt DEF SingleActiveAttempt, OneAttempt
    <3> QED
      BY <2>3, <3>1, SweepUntouched, UntouchedIsSafe DEF RecoverStep
  <2>4. ASSUME NEW w \in Workers, DispatchStep(w)
        PROVE  SingleActiveAttempt'
    <3>1. CASE AcquireBatch(w)
      BY <3>1, AcquireKeepsOneAttempt DEF SingleActiveAttempt, OneAttempt
    <3>2. CASE EmptyBatch(w) \/ StaleBinding(w)
      BY <3>2, GiveUpKeepsOneAttempt DEF SingleActiveAttempt, OneAttempt
    <3>3. CASE FinalizeAttempt(w)
      BY <3>3, FinalizeKeepsOneAttempt DEF SingleActiveAttempt, OneAttempt
    <3>4. CASE \/ SkipCandidate(w) \/ CheckBinding(w) \/ SkipHandOver(w) \/ EndSweep(w)
               \/ \E result \in Results : TransportReturns(w, result)
      BY <3>4, UntouchedIsSafe
         DEF SkipCandidate, CheckBinding, SkipHandOver, EndSweep, TransportReturns, LeasesUntouched
    <3>5. CASE \/ \E b \in Batches : Visit(w, b)
               \/ Park(w) \/ \E nonce \in {"none", "outstanding"} : HandOver(w, nonce)
      BY <3>5, SweepUntouched, UntouchedIsSafe
    <3> QED
      BY <2>4, <3>1, <3>2, <3>3, <3>4, <3>5 DEF DispatchStep
  <2>5. CASE UNCHANGED vars
    BY <2>5, UntouchedIsSafe DEF vars, LeasesUntouched
  <2> QED
    BY <2>1, <2>2, <2>3, <2>4, <2>5 DEF Next
<1> QED
  BY <1>1, <1>2, TypesInvariant, EchoCaptureInit, EchoCaptureStep, PTL DEF Spec

------------------------------------------------------------------------------
(* A deleted channel stays closed.  With TypeInv and EchoCapture, Closed is *)
(* inductive: every action that could reopen something asks for a channel,  *)
(* a claim or a batch that Closed excludes.                                 *)

ClosedAttempt(a) == a.state # "leased" /\ a.nonce # "outstanding"

Closed ==
    /\ \A c \in Claims : claims[c] \in FinalizedClaims
    /\ \A b \in Batches :
          /\ batches[b].state \in {"none", "seen", "cancelled"}
          /\ \A n \in AttemptNos : ClosedAttempt(attempts[b][n])

LEMMA ClosedNonces ==
    ASSUME TypeInv, Closed, NEW A, NEW s, s # "outstanding", attempts' = WithNonces(A, s),
           NEW b \in Batches, NEW n \in AttemptNos
    PROVE  ClosedAttempt(attempts'[b][n])
<1>1. attempts'[b][n] = attempts[b][n]
  BY DEF WithNonces, Closed, ClosedAttempt
<1> QED
  BY <1>1 DEF Closed

LEMMA ClosedAtUsers ==
    ASSUME TypeInv, EchoCapture, Closed, channel.deleted,
           Tick \/ AgentStep \/ EchoStep \/ EndpointStep
    PROVE  Closed'
<1>1. CASE Tick
  BY <1>1 DEF Tick, TickGate, TickFreeze, TickAppend, Closed, ActiveClaims, FinalizedClaims
<1>2. CASE AgentStep
  <2>1. ASSUME NEW x \in Batches, AckAfterAttestation(x)
        PROVE  Closed'
    BY <2>1 DEF AckAfterAttestation, Closed, ClosedAttempt
  <2> QED
    BY <1>2, <2>1 DEF AgentStep, SnoozeClaim, ConsumeClaim, ClaimAction, AckBatch, AwaitsAck,
                      AckTimedOut, Closed
<1>3. CASE EchoStep
  <2>1. ~(\E b \in Batches, n \in AttemptNos : EchoRead(b, n) \/ EchoExpired(b, n))
    BY DEF EchoRead, EchoExpired, EchoAccepted, Closed, ClosedAttempt
  <2>2. CASE EchoCommit
    <3>1. UNCHANGED claims /\ (attempts' = attempts \/ \E A : attempts' = WithNonces(A, "consumed"))
      BY <2>2 DEF EchoCommit
    <3>2. \A b \in Batches : batches'[b] = batches[b]
      BY <2>2 DEF EchoCommit, EchoSettles, EchoCapture, Closed, TypeInv, TypeOK
    <3>3. \A b \in Batches, n \in AttemptNos : ClosedAttempt(attempts'[b][n])
      BY <3>1, ClosedNonces DEF Closed
    <3> QED
      BY <3>1, <3>2, <3>3 DEF Closed, ClosedAttempt
  <2> QED
    BY <1>3, <2>1, <2>2 DEF EchoStep
<1>4. CASE EndpointStep
  <2>1. CASE EndpointRevoked
    BY <2>1, ClosedNonces DEF EndpointRevoked, Closed, ClosedAttempt
  <2> QED
    BY <1>4, <2>1 DEF EndpointStep, Takeover, EndpointLapses, EndpointRenews, Closed, ClosedAttempt
<1> QED
  BY <1>1, <1>2, <1>3, <1>4

LEMMA ClosedAtOperator ==
    ASSUME TypeInv, Closed, channel.deleted,
           OperatorStep \/ Crash \/ (\E b \in Batches : TimerElapses(b))
    PROVE  Closed'
<1>1. CASE RetryDeadLetter
  <2>1. \A b \in Batches : batches'[b] = batches[b]
    BY <1>1 DEF RetryDeadLetter, Closed, TypeInv, TypeOK
  <2> QED
    BY <1>1, <2>1 DEF RetryDeadLetter, Closed, ClosedAttempt
<1>2. CASE Crash \/ (\E b \in Batches : RetryRead(b))
  BY <1>2 DEF Crash, CrashDaemon, CrashOperator, CrashProcess, RetryRead, Closed, ClosedAttempt
<1>3. ~DeleteChannel /\ ~(\E b \in Batches : TimerElapses(b))
  BY DEF DeleteChannel, TimerElapses, Closed
<1> QED
  BY <1>1, <1>2, <1>3 DEF OperatorStep

LEMMA ClosedAtRecovery ==
    ASSUME TypeInv, Closed, NEW w \in Workers, RecoverStep(w)
    PROVE  Closed'
<1>1. CASE RecoverLeases(w)
  <2>1. ASSUME NEW b \in Batches
        PROVE  RecoveredBatch(b) = batches[b]
    BY <2>1 DEF RecoveredBatch, AckTimedOut, AckOverdue, Closed
  <2>2. ASSUME NEW b \in Batches, NEW n \in AttemptNos, NEW lapsed
        PROVE  ClosedAttempt(RecoveredAttempt(b, n, lapsed))
    <3>1. attempts[b][n] \in AttemptRow /\ ClosedAttempt(attempts[b][n])
      BY DEF TypeInv, TypeOK, Closed
    <3> QED
      BY <3>1 DEF RecoveredAttempt, AttemptRow, ClosedAttempt
  <2>3. \A b \in Batches : batches'[b] = batches[b]
    BY <1>1, <2>1 DEF RecoverLeases
  <2>4. \A b \in Batches, n \in AttemptNos : ClosedAttempt(attempts'[b][n])
    BY <1>1, <2>2 DEF RecoverLeases
  <2>5. UNCHANGED claims
    BY <1>1 DEF RecoverLeases
  <2> QED
    BY <2>3, <2>4, <2>5 DEF Closed, ClosedAttempt
<1>2. CASE RetireSettled(w)
  <2>1. \A b \in Batches : batches'[b] = batches[b]
    BY <1>2 DEF RetireSettled, Retirable, OpenStates, Closed
  <2> QED
    BY <1>2, <2>1 DEF RetireSettled, Closed, ClosedAttempt
<1>3. CASE ReportIncidents(w)
  BY <1>3 DEF ReportIncidents, Closed, ClosedAttempt
<1> QED
  BY <1>1, <1>2, <1>3 DEF RecoverStep

\* The end of an attempt in a closed channel writes what was there before.
LEMMA ClosedAtEnd ==
    ASSUME TypeInv, Closed, NEW w \in Workers, EmptyBatch(w) \/ StaleBinding(w) \/ FinalizeAttempt(w)
    PROVE  Closed'
<1> DEFINE x == worker[w].batch
           m == worker[w].attempt
<1>1. x \in Batches /\ m \in AttemptNos
  BY DEF EmptyBatch, StaleBinding, FinalizeAttempt, At, TypeInv, GoodWorkerRow, HoldsBatch,
         HoldsAttempt
<1>2. attempts[x][m] \in AttemptRow /\ ClosedAttempt(attempts[x][m]) /\ ~Owns(x, m)
  BY <1>1 DEF TypeInv, TypeOK, Closed, Owns
<1>3. UNCHANGED claims /\ UNCHANGED batches
  BY <1>2 DEF EmptyBatch, StaleBinding, Abandon, FinalizeAttempt
<1>4. PICK row : attempts' = [attempts EXCEPT ![x][m] = row] /\ ClosedAttempt(row)
  <2>1. CASE EmptyBatch(w) \/ StaleBinding(w)
    <3> DEFINE row == [attempts[x][m] EXCEPT !.state = IF attempts[x][m].state = "leased"
                                              THEN "failed" ELSE attempts[x][m].state]
    <3>1. ClosedAttempt(row)
      BY <1>2 DEF ClosedAttempt, AttemptRow
    <3>2. attempts' = [attempts EXCEPT ![x][m] = row]
      BY <2>1 DEF EmptyBatch, StaleBinding, Abandon
    <3> QED
      BY <3>1, <3>2
  <2>2. CASE FinalizeAttempt(w)
    <3>1. PICK s, nonce : attempts' = [attempts EXCEPT ![x][m] =
              [@ EXCEPT !.state = IF attempts[x][m].state = "leased" THEN s
                                  ELSE attempts[x][m].state,
                        !.nonce = IF nonce /\ attempts[x][m].nonce = "outstanding"
                                  THEN "discarded" ELSE attempts[x][m].nonce]]
      BY <2>2 DEF FinalizeAttempt
    <3> DEFINE row == [attempts[x][m] EXCEPT
                          !.state = IF attempts[x][m].state = "leased" THEN s
                                    ELSE attempts[x][m].state,
                          !.nonce = IF nonce /\ attempts[x][m].nonce = "outstanding"
                                    THEN "discarded" ELSE attempts[x][m].nonce]
    <3>2. ClosedAttempt(row)
      BY <1>2 DEF ClosedAttempt, AttemptRow
    <3>3. attempts' = [attempts EXCEPT ![x][m] = row]
      BY <3>1
    <3> QED
      BY <3>2, <3>3
  <2> QED
    BY <2>1, <2>2
<1>5. attempts \in [Batches -> [AttemptNos -> AttemptRow]]
  BY DEF TypeInv, TypeOK
<1> HIDE DEF x, m
<1>6. \A b \in Batches, n \in AttemptNos : ClosedAttempt(attempts'[b][n])
  BY <1>1, <1>4, <1>5 DEF Closed
<1> QED
  BY <1>3, <1>6 DEF Closed, ClosedAttempt

LEMMA ClosedAtDispatch ==
    ASSUME TypeInv, Closed, channel.deleted, NEW w \in Workers, DispatchStep(w)
    PROVE  Closed'
<1>1. /\ ~(\E b \in Batches : Visit(w, b)) /\ ~AcquireBatch(w)
      /\ ~(\E nonce \in {"none", "outstanding"} : HandOver(w, nonce))
  BY DEF Visit, OpenStates, AcquireBatch, CanAcquire, HandOver, DispatchFence, Closed
<1>2. CASE Park(w)
  <2>1. worker[w].batch \in Batches
    BY <1>2 DEF Park, At, TypeInv, GoodWorkerRow, HoldsBatch
  <2>2. ~Parkable(worker[w].batch)
    BY <2>1 DEF Parkable, Closed
  <2>3. UNCHANGED <<claims, batches, attempts>>
    BY <1>2, <2>2 DEF Park
  <2> QED
    BY <2>3 DEF Closed, ClosedAttempt
<1>3. CASE EmptyBatch(w) \/ StaleBinding(w) \/ FinalizeAttempt(w)
  BY <1>3, ClosedAtEnd
<1>4. CASE \/ SkipCandidate(w) \/ CheckBinding(w) \/ SkipHandOver(w) \/ EndSweep(w)
           \/ \E result \in Results : TransportReturns(w, result)
  <2>1. UNCHANGED <<claims, batches, attempts>>
    BY <1>4 DEF SkipCandidate, CheckBinding, SkipHandOver, EndSweep, TransportReturns
  <2> QED
    BY <2>1 DEF Closed, ClosedAttempt
<1> QED
  BY <1>1, <1>2, <1>3, <1>4 DEF DispatchStep

LEMMA ClosedByDeletion ==
    ASSUME TypeInv, DeleteChannel
    PROVE  Closed'
<1>1. ASSUME NEW b \in Batches
      PROVE  batches'[b].state \in {"none", "seen", "cancelled"}
  <2>1. batches'[b] = IF Deletable(b) THEN MoveTo(b, "cancelled", "none") ELSE batches[b]
    BY DEF DeleteChannel
  <2> QED
    BY <2>1, MoveToFields DEF Deletable
<1>2. ASSUME NEW b \in Batches, NEW n \in AttemptNos
      PROVE  ClosedAttempt(attempts'[b][n])
  <2> DEFINE row == WithNonces(Outstanding, "discarded")[b][n]
  <2>1. row \in AttemptRow
    BY WithNoncesType
  <2>2. row.nonce # "outstanding"
    <3>1. attempts[b][n] \in AttemptRow
      BY DEF TypeInv, TypeOK
    <3> QED
      BY <3>1 DEF WithNonces, Outstanding, AttemptRow
  <2>3. attempts'[b][n] = [row EXCEPT !.state = IF @ = "leased" THEN "failed" ELSE @]
    BY DEF DeleteChannel
  <2> HIDE DEF row
  <2> QED
    BY <2>1, <2>2, <2>3 DEF AttemptRow, ClosedAttempt
<1>3. \A c \in Claims : claims'[c] \in FinalizedClaims
  BY DEF DeleteChannel, FinalizedClaims
<1> QED
  BY <1>1, <1>2, <1>3 DEF Closed, ClosedAttempt

\* After a deletion nothing of the channel is delivered, answered or retried,
\* whatever was in flight.
THEOREM DeletedStaysClosed == Spec => []DeletedIsClosed
<1>1. Init => DeletedIsClosed
  BY DEF Init, DeletedIsClosed
<1>2. TypeInv /\ EchoCapture /\ DeletedIsClosed /\ [Next]_vars => DeletedIsClosed'
  <2> SUFFICES ASSUME TypeInv, EchoCapture, DeletedIsClosed, [Next]_vars, channel'.deleted
               PROVE  Closed'
    BY DEF DeletedIsClosed, Closed, ClosedAttempt
  <2>1. CASE DeleteChannel
    BY <2>1, ClosedByDeletion
  <2>2. CASE channel.deleted
    <3>1. Closed
      BY <2>2 DEF DeletedIsClosed, Closed, ClosedAttempt
    <3>2. CASE UNCHANGED vars
      BY <3>1, <3>2 DEF vars, Closed, ClosedAttempt
    <3> QED
      BY <2>2, <3>1, <3>2, ClosedAtUsers, ClosedAtOperator, ClosedAtRecovery, ClosedAtDispatch
         DEF Next
  <2>3. DeleteChannel \/ channel.deleted
    <3>1. CASE EndpointStep
      BY <3>1 DEF EndpointStep, Takeover, EndpointLapses, EndpointRenews, EndpointRevoked,
                  TypeInv, TypeOK
    <3>2. CASE Tick \/ AgentStep
      BY <3>2 DEF Tick, TickGate, TickFreeze, TickAppend, AgentStep, SnoozeClaim, ConsumeClaim,
                  ClaimAction, AckBatch, AckAfterAttestation
    <3>3. CASE EchoStep
      BY <3>3 DEF EchoStep, EchoRead, EchoExpired, EchoCommit
    <3>4. CASE OperatorStep \/ Crash
      BY <3>4 DEF OperatorStep, RetryDeadLetter, RetryRead, Crash, CrashDaemon, CrashOperator,
                  CrashProcess
    <3>5. ASSUME NEW w \in Workers, RecoverStep(w)
          PROVE  channel' = channel
      BY <3>5 DEF RecoverStep, RecoverLeases, RetireSettled, ReportIncidents
    <3>6. ASSUME NEW w \in Workers, DispatchStep(w)
          PROVE  channel' = channel
      BY <3>6 DEF DispatchStep, Visit, Park, AcquireBatch, SkipCandidate, EmptyBatch,
                  StaleBinding, Abandon, CheckBinding, SkipHandOver, HandOver,
                  TransportReturns, FinalizeAttempt, EndSweep
    <3>7. CASE (\E b \in Batches : TimerElapses(b)) \/ UNCHANGED vars
      BY <3>7 DEF TimerElapses, vars
    <3> QED
      BY <3>1, <3>2, <3>3, <3>4, <3>5, <3>6, <3>7 DEF Next
  <2> QED
    BY <2>1, <2>2, <2>3
<1> QED
  BY <1>1, <1>2, TypesInvariant, EchoCaptureInit, EchoCaptureStep, PTL DEF Spec

------------------------------------------------------------------------------
(* Claims on their way.  A claim marked batched is carried by a live batch, *)
(* and a live batch carries some claims, but not more than the policy       *)
(* allows.  Apart from freezing and appending, a step leaves a batch its    *)
(* claims, except those that are no longer batched after it.                *)

Live(r) == r.state \notin {"none", "cancelled"}

Carried ==
    \A b \in Batches : Live(batches[b]) =>
        /\ batches[b].claims # {}
        /\ IsFiniteSet(batches[b].claims)
        /\ Cardinality(batches[b].claims) <= MaxBatchClaims

Carries(b) ==
    /\ Live(batches'[b]) =>
          /\ Live(batches[b])
          /\ batches'[b].claims \subseteq batches[b].claims
          /\ batches'[b].claims = {} => batches[b].claims = {}
    /\ \A c \in Claims :
          c \in batches[b].claims /\ Live(batches[b]) /\ claims'[c] = "batched" =>
              c \in batches'[b].claims /\ Live(batches'[b])

ClaimsKept ==
    /\ \A c \in Claims : claims'[c] = "batched" => claims[c] = "batched"
    /\ \A b \in Batches : Carries(b)

LEMMA SameClaimsCarries ==
    ASSUME NEW b, batches'[b].claims = batches[b].claims, Live(batches'[b]) <=> Live(batches[b])
    PROVE  Carries(b)
BY DEF Carries

LEMMA MoveToClaims ==
    ASSUME TypeInv, NEW b \in Batches, NEW s, NEW r
    PROVE  MoveTo(b, s, r).claims = batches[b].claims /\ MoveTo(b, s, r).state = s
BY DEF MoveTo, TypeInv, TypeOK, BatchRow

\* The row of one batch changes, and claims stay.
LEMMA OneRowCarries ==
    ASSUME TypeInv, NEW x, NEW row,
           batches' = [batches EXCEPT ![x] = row],
           x \in Batches => row.claims = batches[x].claims /\ (Live(row) <=> Live(batches[x])),
           NEW b \in Batches
    PROVE  Carries(b)
<1>1. batches \in [Batches -> BatchRow]
  BY DEF TypeInv, TypeOK
<1>2. batches'[b] = IF b = x THEN row ELSE batches[b]
  BY <1>1
<1> QED
  BY <1>2, SameClaimsCarries

LEMMA AgentKeepsClaims ==
    ASSUME TypeInv, AgentStep
    PROVE  ClaimsKept
<1>0. batches \in [Batches -> BatchRow] /\ claims \in [Claims -> ClaimStates]
  BY DEF TypeInv, TypeOK
<1>1. ASSUME NEW c \in Claims, NEW s, s # "batched", ClaimAction(c, s)
      PROVE  ClaimsKept
  <2>1. claims'[c] = s /\ \A d \in Claims \ {c} : claims'[d] = claims[d]
    BY <1>0, <1>1 DEF ClaimAction
  <2>2. ASSUME NEW b \in Batches
        PROVE  Carries(b)
    <3> DEFINE less == [batches[b] EXCEPT !.claims = @ \ {c}]
               none == [batches[b] EXCEPT !.claims = {}, !.state = "cancelled", !.due = FALSE]
    <3>1. less.state = batches[b].state /\ less.claims = batches[b].claims \ {c}
      BY <1>0 DEF BatchRow
    <3>2. none.state = "cancelled"
      BY <1>0 DEF BatchRow
    <3>3. \/ batches'[b] = batches[b]
          \/ batches[b].claims = {c} /\ batches'[b] = none
          \/ c \in batches[b].claims /\ batches[b].claims # {c} /\ batches'[b] = less
      BY <1>1 DEF ClaimAction, Detached
    <3> HIDE DEF less, none
    <3>4. CASE batches'[b] = batches[b]
      BY <3>4, SameClaimsCarries
    <3>5. CASE batches[b].claims = {c} /\ batches'[b] = none
      BY <1>1, <2>1, <3>2, <3>5 DEF Carries, Live
    <3>6. CASE c \in batches[b].claims /\ batches[b].claims # {c} /\ batches'[b] = less
      BY <1>1, <2>1, <3>1, <3>6 DEF Carries, Live
    <3> QED
      BY <3>3, <3>4, <3>5, <3>6
  <2> QED
    BY <1>1, <2>1, <2>2 DEF ClaimsKept
<1>2. ASSUME NEW x \in Batches, AckBatch(x)
      PROVE  ClaimsKept
  <2>1. /\ batches' = [batches EXCEPT ![x] = MoveTo(x, "seen", "none")]
        /\ UNCHANGED claims /\ Live(batches[x])
    BY <1>2 DEF AckBatch, AwaitsAck, AckTimedOut, Live
  <2> DEFINE row == MoveTo(x, "seen", "none")
  <2>2. row.claims = batches[x].claims /\ Live(row)
    BY MoveToClaims DEF Live
  <2> HIDE DEF row
  <2>3. \A b \in Batches : Carries(b)
    BY <2>1, <2>2, OneRowCarries DEF row
  <2> QED
    BY <2>1, <2>3 DEF ClaimsKept
<1>3. ASSUME NEW x \in Batches, AckAfterAttestation(x)
      PROVE  ClaimsKept
  BY <1>3, SameClaimsCarries DEF AckAfterAttestation, ClaimsKept
<1> QED
  BY <1>1, <1>2, <1>3 DEF AgentStep, SnoozeClaim, ConsumeClaim

\* What recovery closes is settled: none of its claims is batched.
LEMMA SettledCarries ==
    ASSUME NEW b \in Batches, Settled(b), batches'[b].state = "cancelled", UNCHANGED claims
    PROVE  Carries(b)
BY DEF Settled, FinalizedClaims, Carries, Live

LEMMA RecoverKeepsClaims ==
    ASSUME TypeInv, NEW w \in Workers, RecoverStep(w)
    PROVE  ClaimsKept
<1>0. batches \in [Batches -> BatchRow] /\ UNCHANGED claims
  BY DEF TypeInv, TypeOK, RecoverStep, RecoverLeases, RetireSettled, ReportIncidents
<1>1. CASE RecoverLeases(w)
  <2>1. ASSUME NEW b \in Batches
        PROVE  Carries(b)
    <3>1. batches'[b] = RecoveredBatch(b)
      BY <1>1 DEF RecoverLeases
    <3>2. CASE AckTimedOut(b) /\ Settled(b)
      <4>1. ~AckOverdue(b) /\ batches[b].state = "needs_attention"
        BY <3>2 DEF AckTimedOut, AckOverdue
      <4>2. RecoveredBatch(b) = [batches[b] EXCEPT !.state = "cancelled"]
        BY <3>2, <4>1, Zenon DEF RecoveredBatch
      <4>3. batches'[b].state = "cancelled"
        BY <1>0, <3>1, <4>2 DEF BatchRow
      <4> QED
        BY <1>0, <3>2, <4>3, SettledCarries
    <3>3. CASE ~(AckTimedOut(b) /\ Settled(b)) /\ batches[b].state = "dispatching" /\ batches[b].due
      <4>1. ~AckOverdue(b)
        BY <3>3 DEF AckOverdue
      <4>2. RecoveredBatch(b) = [batches[b] EXCEPT !.state = "retry_wait", !.owner = 0]
        BY <3>3, <4>1, Zenon DEF RecoveredBatch
      <4>3. batches'[b].state = "retry_wait" /\ batches'[b].claims = batches[b].claims
        BY <1>0, <3>1, <4>2 DEF BatchRow
      <4> QED
        BY <3>3, <4>3, SameClaimsCarries DEF Live
    <3>4. CASE ~(AckTimedOut(b) /\ Settled(b)) /\ AckOverdue(b)
      <4>1. batches[b].state = "dispatched"
        BY <3>4 DEF AckOverdue
      <4>2. RecoveredBatch(b) = MoveTo(b, "needs_attention", "ack_timeout")
        BY <3>4, <4>1 DEF RecoveredBatch
      <4> QED
        BY <3>1, <4>1, <4>2, MoveToClaims, SameClaimsCarries DEF Live
    <3>5. CASE /\ ~(AckTimedOut(b) /\ Settled(b)) /\ ~AckOverdue(b)
               /\ ~(batches[b].state = "dispatching" /\ batches[b].due)
      BY <3>1, <3>5, SameClaimsCarries DEF RecoveredBatch
    <3> QED
      BY <3>2, <3>3, <3>4, <3>5
  <2> QED
    BY <1>0, <2>1 DEF ClaimsKept
<1>2. CASE RetireSettled(w)
  <2>1. ASSUME NEW b \in Batches
        PROVE  Carries(b)
    <3> DEFINE row == [batches[b] EXCEPT !.state = "cancelled", !.due = FALSE]
    <3>1. row.state = "cancelled"
      BY <1>0 DEF BatchRow
    <3>2. batches'[b] = batches[b] \/ (Retirable(b) /\ batches'[b] = row)
      BY <1>2 DEF RetireSettled
    <3> HIDE DEF row
    <3> QED
      BY <1>0, <3>1, <3>2, SameClaimsCarries, SettledCarries DEF Retirable
  <2> QED
    BY <1>0, <2>1 DEF ClaimsKept
<1>3. CASE ReportIncidents(w)
  BY <1>0, <1>3, SameClaimsCarries DEF ReportIncidents, ClaimsKept
<1> QED
  BY <1>1, <1>2, <1>3 DEF RecoverStep

\* The gates take claims out of a batch by marking them; a batch without claims
\* is cancelled.
LEMMA VisitKeepsClaims ==
    ASSUME TypeInv, NEW w \in Workers, NEW x \in Batches, Visit(w, x)
    PROVE  ClaimsKept
<1> DEFINE Gates == [{c \in batches[x].claims : claims[c] = "batched"}
                        -> {"batched", "deferred", "expired"}]
<1>0. batches \in [Batches -> BatchRow] /\ claims \in [Claims -> ClaimStates]
  BY DEF TypeInv, TypeOK
<1>1. PICK gate \in Gates :
        /\ claims' = [c \in Claims |-> IF c \in {d \in DOMAIN gate : gate[d] # "batched"}
                                      THEN gate[c] ELSE claims[c]]
        /\ batches' = [batches EXCEPT ![x] =
              [@ EXCEPT !.claims = batches[x].claims \ {d \in DOMAIN gate : gate[d] # "batched"},
                        !.due = batches[x].claims \ {d \in DOMAIN gate : gate[d] # "batched"} # {},
                        !.state = IF batches[x].claims \ {d \in DOMAIN gate : gate[d] # "batched"} = {}
                                  THEN "cancelled" ELSE batches[x].state]]
  BY DEF Visit
<1> DEFINE gated == {d \in DOMAIN gate : gate[d] # "batched"}
           kept == batches[x].claims \ gated
<1> DEFINE row == [batches[x] EXCEPT !.claims = kept, !.due = kept # {},
                        !.state = IF kept = {} THEN "cancelled" ELSE batches[x].state]
<1>2. row.claims = kept /\ row.state = IF kept = {} THEN "cancelled" ELSE batches[x].state
  BY <1>0 DEF BatchRow
<1>3. batches[x].state \in OpenStates
  BY DEF Visit
<1> HIDE DEF row
<1>4. batches'[x] = row /\ \A b \in Batches \ {x} : batches'[b] = batches[b]
  BY <1>0, <1>1 DEF row
<1>5. \A c \in Claims : claims'[c] = "batched" => claims[c] = "batched" /\ c \notin gated
  BY <1>0, <1>1
<1> HIDE DEF gated
<1>6. Carries(x)
  BY <1>1, <1>2, <1>3, <1>4, <1>5 DEF Carries, Live, OpenStates
<1>7. \A b \in Batches \ {x} : Carries(b)
  BY <1>4, SameClaimsCarries
<1> QED
  BY <1>5, <1>6, <1>7 DEF ClaimsKept

LEMMA DispatchKeepsClaims ==
    ASSUME TypeInv, NEW w \in Workers, DispatchStep(w)
    PROVE  ClaimsKept
<1> DEFINE x == worker[w].batch
           m == worker[w].attempt
<1>0. batches \in [Batches -> BatchRow]
  BY DEF TypeInv, TypeOK
<1>1. CASE \E b \in Batches : Visit(w, b)
  BY <1>1, VisitKeepsClaims
<1>2. CASE Park(w)
  <2> DEFINE row == [batches[x] EXCEPT !.state = "waiting_for_endpoint", !.reason = "none"]
  <2>1. x \in Batches => row.claims = batches[x].claims /\ Live(row)
    BY <1>0 DEF BatchRow, Live
  <2>2. \/ batches' = batches
        \/ batches' = [batches EXCEPT ![x] = row] /\ Live(batches[x])
    BY <1>2 DEF Park, Parkable, Live
  <2> HIDE DEF row, x
  <2>3. \A b \in Batches : Carries(b)
    BY <2>1, <2>2, OneRowCarries, SameClaimsCarries
  <2> QED
    BY <1>2, <2>3 DEF Park, ClaimsKept
<1>3. CASE AcquireBatch(w)
  <2> DEFINE n == batches[x].attempt + 1
             row == [batches[x] EXCEPT !.state = "dispatching", !.attempt = n, !.gen = worker[w].gen,
                                       !.owner = n, !.reason = "none", !.due = FALSE]
  <2>1. x \in Batches => row.claims = batches[x].claims /\ Live(row)
    BY <1>0 DEF BatchRow, Live
  <2>2. batches' = [batches EXCEPT ![x] = row] /\ Live(batches[x])
    BY <1>3 DEF AcquireBatch, CanAcquire, OpenStates, Live
  <2> HIDE DEF row, x
  <2>3. \A b \in Batches : Carries(b)
    BY <2>1, <2>2, OneRowCarries
  <2> QED
    BY <1>3, <2>3 DEF AcquireBatch, ClaimsKept
<1>4. ASSUME NEW s, s \notin {"none", "cancelled"}, NEW r, x \in Batches,
             batches' = IF Owns(x, m) THEN [batches EXCEPT ![x] = MoveTo(x, s, r)] ELSE batches,
             UNCHANGED claims
      PROVE  ClaimsKept
  <2> DEFINE row == MoveTo(x, s, r)
  <2>1. row.claims = batches[x].claims /\ Live(row)
    BY <1>4, MoveToClaims DEF Live
  <2>2. batches' = batches \/ (batches' = [batches EXCEPT ![x] = row] /\ Live(batches[x]))
    BY <1>4 DEF Owns, Live
  <2> HIDE DEF row, x
  <2>3. \A b \in Batches : Carries(b)
    BY <2>1, <2>2, OneRowCarries, SameClaimsCarries
  <2> QED
    BY <1>4, <2>3 DEF ClaimsKept
<1>5. CASE EmptyBatch(w) \/ StaleBinding(w)
  <2>1. x \in Batches /\ UNCHANGED claims
    BY <1>5 DEF EmptyBatch, StaleBinding, Abandon, At, TypeInv, GoodWorkerRow, HoldsBatch
  <2>2. \E s \in {"needs_attention", "retry_wait"}, r \in {"empty_batch", "none"} :
          batches' = IF Owns(x, m) THEN [batches EXCEPT ![x] = MoveTo(x, s, r)] ELSE batches
    BY <1>5 DEF EmptyBatch, StaleBinding, Abandon
  <2> HIDE DEF x, m
  <2> QED
    BY <1>4, <2>1, <2>2
<1>6. CASE FinalizeAttempt(w)
  <2>1. x \in Batches /\ UNCHANGED claims
    BY <1>6 DEF FinalizeAttempt, At, TypeInv, GoodWorkerRow, HoldsBatch
  <2>2. \E s \in {"seen", "dispatched", "retry_wait", "dead_letter"} :
          batches' = IF Owns(x, m) THEN [batches EXCEPT ![x] = MoveTo(x, s, "none")] ELSE batches
    BY <1>6 DEF FinalizeAttempt
  <2> HIDE DEF x, m
  <2> QED
    BY <1>4, <2>1, <2>2
<1>7. CASE \/ SkipCandidate(w) \/ CheckBinding(w) \/ SkipHandOver(w) \/ EndSweep(w)
           \/ \E nonce \in {"none", "outstanding"} : HandOver(w, nonce)
           \/ \E result \in Results : TransportReturns(w, result)
  BY <1>7, SameClaimsCarries
     DEF SkipCandidate, CheckBinding, SkipHandOver, EndSweep, HandOver, TransportReturns, ClaimsKept
<1> QED
  BY <1>1, <1>2, <1>3, <1>5, <1>6, <1>7 DEF DispatchStep

LEMMA EchoKeepsClaims ==
    ASSUME TypeInv, EchoCapture, EchoStep
    PROVE  ClaimsKept
<1> DEFINE x == echo.batch
           row == MoveTo(x, "seen", "none")
<1>1. CASE EchoCommit
  <2>1. x \in Batches
    BY <1>1 DEF EchoCommit, TypeInv, GoodEchoRow
  <2>2. row.claims = batches[x].claims /\ Live(row)
    BY <2>1, MoveToClaims DEF Live
  <2>3. batches' = batches \/ (batches' = [batches EXCEPT ![x] = row] /\ Live(batches[x]))
    BY <1>1 DEF EchoCommit, EchoSettles, EchoCapture, Live
  <2> HIDE DEF row, x
  <2>4. \A b \in Batches : Carries(b)
    BY <2>2, <2>3, OneRowCarries, SameClaimsCarries
  <2> QED
    BY <1>1, <2>4 DEF EchoCommit, ClaimsKept
<1>2. CASE \E b \in Batches, n \in AttemptNos : EchoRead(b, n) \/ EchoExpired(b, n)
  BY <1>2, SameClaimsCarries DEF EchoRead, EchoExpired, ClaimsKept
<1> QED
  BY <1>1, <1>2 DEF EchoStep

LEMMA OtherKeepsClaims ==
    ASSUME TypeInv,
           EndpointStep \/ OperatorStep \/ Crash \/ \E b \in Batches : TimerElapses(b)
    PROVE  ClaimsKept
<1>0. batches \in [Batches -> BatchRow]
  BY DEF TypeInv, TypeOK
<1>1. CASE Takeover
  <2>1. ASSUME NEW b \in Batches
        PROVE  Carries(b)
    <3> DEFINE row == [batches[b] EXCEPT !.state = "pending", !.gen = 0, !.reason = "none"]
    <3>1. row.claims = batches[b].claims /\ Live(row)
      BY <1>0 DEF BatchRow, Live
    <3>2. batches'[b] = batches[b] \/ (batches'[b] = row /\ Live(batches[b]))
      BY <1>1 DEF Takeover, Live
    <3> HIDE DEF row
    <3> QED
      BY <3>1, <3>2, SameClaimsCarries
  <2> QED
    BY <1>1, <2>1 DEF Takeover, ClaimsKept
<1>2. CASE EndpointStep /\ ~Takeover
  BY <1>2, SameClaimsCarries DEF EndpointStep, EndpointLapses, EndpointRenews, EndpointRevoked, ClaimsKept
<1>3. CASE DeleteChannel
  <2>1. ASSUME NEW b \in Batches
        PROVE  Carries(b)
    <3>1. \/ batches'[b] = batches[b]
          \/ batches'[b] = MoveTo(b, "cancelled", "none")
      BY <1>3 DEF DeleteChannel
    <3>2. \A c \in Claims : claims'[c] # "batched"
      BY <1>3 DEF DeleteChannel, FinalizedClaims
    <3> QED
      BY <3>1, <3>2, MoveToClaims, SameClaimsCarries DEF Carries, Live
  <2>2. \A c \in Claims : claims'[c] # "batched"
    BY <1>3 DEF DeleteChannel, FinalizedClaims
  <2> QED
    BY <2>1, <2>2 DEF ClaimsKept
<1>4. CASE RetryDeadLetter
  <2> DEFINE x == operator.batch
             row == [batches[x] EXCEPT !.state = "retry_wait", !.gen = 0, !.due = TRUE]
  <2>1. x \in Batches => row.claims = batches[x].claims /\ Live(row)
    BY <1>0 DEF BatchRow, Live
  <2>2. batches' = batches \/ (batches' = [batches EXCEPT ![x] = row] /\ Live(batches[x]))
    BY <1>4 DEF RetryDeadLetter, Live
  <2> HIDE DEF row, x
  <2>3. \A b \in Batches : Carries(b)
    BY <2>1, <2>2, OneRowCarries, SameClaimsCarries
  <2> QED
    BY <1>4, <2>3 DEF RetryDeadLetter, ClaimsKept
<1>5. ASSUME NEW x \in Batches, TimerElapses(x)
      PROVE  ClaimsKept
  <2> DEFINE row == [batches[x] EXCEPT !.due = TRUE]
  <2>1. row.claims = batches[x].claims /\ row.state = batches[x].state
    BY <1>0 DEF BatchRow
  <2>2. batches' = [batches EXCEPT ![x] = row]
    BY <1>5 DEF TimerElapses
  <2> HIDE DEF row
  <2>3. \A b \in Batches : Carries(b)
    BY <2>1, <2>2, OneRowCarries DEF Live
  <2> QED
    BY <1>5, <2>3 DEF TimerElapses, ClaimsKept
<1>6. CASE Crash \/ \E b \in Batches : RetryRead(b)
  BY <1>6, SameClaimsCarries
     DEF Crash, CrashDaemon, CrashOperator, CrashProcess, RetryRead, ClaimsKept
<1> QED
  BY <1>1, <1>2, <1>3, <1>4, <1>5, <1>6 DEF OperatorStep

LEMMA KeptStep ==
    ASSUME NoLostClaim, Carried, ClaimsKept
    PROVE  NoLostClaim' /\ Carried'
<1>1. NoLostClaim'
  <2> SUFFICES ASSUME NEW c \in Claims, claims'[c] = "batched"
               PROVE  \E b \in Batches :
                         c \in batches'[b].claims /\ batches'[b].state \notin {"none", "cancelled"}
    BY DEF NoLostClaim
  <2>1. PICK b \in Batches : c \in batches[b].claims /\ Live(batches[b])
    BY DEF NoLostClaim, ClaimsKept, Live
  <2> QED
    BY <2>1 DEF ClaimsKept, Carries, Live
<1>2. Carried'
  <2> SUFFICES ASSUME NEW b \in Batches, Live(batches'[b])
               PROVE  /\ batches'[b].claims # {}
                      /\ IsFiniteSet(batches'[b].claims)
                      /\ Cardinality(batches'[b].claims) <= MaxBatchClaims
    BY DEF Carried
  <2>1. /\ batches[b].claims # {} /\ IsFiniteSet(batches[b].claims)
        /\ Cardinality(batches[b].claims) <= MaxBatchClaims
        /\ batches'[b].claims \subseteq batches[b].claims /\ batches'[b].claims # {}
    BY DEF ClaimsKept, Carries, Carried
  <2>2. /\ IsFiniteSet(batches'[b].claims)
        /\ Cardinality(batches'[b].claims) <= Cardinality(batches[b].claims)
    BY <2>1, FS_Subset
  <2>3. Cardinality(batches[b].claims) \in Nat /\ Cardinality(batches'[b].claims) \in Nat
    BY <2>1, <2>2, FS_CardinalityType
  <2> QED
    BY <2>1, <2>2, <2>3, BoundsAssumption
<1> QED
  BY <1>1, <1>2

\* tick() freezes a batch for a claim or appends it to one.
LEMMA TickCarries ==
    ASSUME TypeInv, NoLostClaim, Carried, Tick
    PROVE  NoLostClaim' /\ Carried'
<1>0. batches \in [Batches -> BatchRow] /\ claims \in [Claims -> ClaimStates]
  BY DEF TypeInv, TypeOK
<1>1. ASSUME NEW c \in Claims, NEW s \in ClaimStates, TickGate(c, s)
      PROVE  ClaimsKept
  BY <1>0, <1>1, SameClaimsCarries DEF TickGate, ClaimsKept
<1>2. ASSUME NEW c \in Claims, NEW x \in Batches, NEW row,
             batches' = [batches EXCEPT ![x] = row], Live(row),
             claims' = [claims EXCEPT ![c] = "batched"],
             c \in row.claims, Live(batches[x]) => batches[x].claims \subseteq row.claims,
             IsFiniteSet(row.claims), Cardinality(row.claims) <= MaxBatchClaims
      PROVE  NoLostClaim' /\ Carried'
  <2>1. batches'[x] = row /\ \A b \in Batches \ {x} : batches'[b] = batches[b]
    BY <1>0, <1>2
  <2>2. claims'[c] = "batched" /\ \A d \in Claims \ {c} : claims'[d] = claims[d]
    BY <1>0, <1>2
  <2>3. Carried'
    BY <1>2, <2>1 DEF Carried
  <2>4. NoLostClaim'
    <3> SUFFICES ASSUME NEW d \in Claims, claims'[d] = "batched"
                 PROVE  \E b \in Batches : d \in batches'[b].claims /\ Live(batches'[b])
      BY DEF NoLostClaim, Live
    <3>1. CASE d = c
      BY <1>2, <2>1, <3>1
    <3>2. CASE d # c
      <4>1. PICK b \in Batches : d \in batches[b].claims /\ Live(batches[b])
        BY <2>2, <3>2 DEF NoLostClaim, Live
      <4> QED
        BY <1>2, <2>1, <4>1
    <3> QED
      BY <3>1, <3>2
  <2> QED
    BY <2>3, <2>4
<1>3. ASSUME NEW c \in Claims, NEW x \in Batches, TickFreeze(c, x)
      PROVE  NoLostClaim' /\ Carried'
  <2> DEFINE row == [NoRow EXCEPT !.state = "pending", !.claims = {c}]
  <2>1. row.claims = {c} /\ Live(row)
    BY DEF NoRow, Live
  <2>2. /\ batches' = [batches EXCEPT ![x] = row] /\ claims' = [claims EXCEPT ![c] = "batched"]
        /\ ~Live(batches[x])
    BY <1>3 DEF TickFreeze, Live
  <2>3. IsFiniteSet({c}) /\ Cardinality({c}) = 1
    BY FS_Singleton
  <2> HIDE DEF row
  <2>4. IsFiniteSet(row.claims) /\ Cardinality(row.claims) <= MaxBatchClaims
    BY <2>1, <2>3, BoundsAssumption
  <2> QED
    BY <1>2, <2>1, <2>2, <2>4
<1>4. ASSUME NEW c \in Claims, NEW x \in Batches, TickAppend(c, x)
      PROVE  NoLostClaim' /\ Carried'
  <2> DEFINE row == [batches[x] EXCEPT !.claims = @ \cup {c}]
  <2>1. row.claims = batches[x].claims \cup {c} /\ row.state = batches[x].state
    BY <1>0 DEF BatchRow
  <2>2. /\ batches' = [batches EXCEPT ![x] = row] /\ claims' = [claims EXCEPT ![c] = "batched"]
        /\ Live(batches[x]) /\ c \notin batches[x].claims
        /\ Cardinality(batches[x].claims) < MaxBatchClaims
    BY <1>4 DEF TickAppend, OpenStates, Live
  <2>3. IsFiniteSet(batches[x].claims)
    BY <2>2 DEF Carried
  <2>4. /\ IsFiniteSet(batches[x].claims \cup {c})
        /\ Cardinality(batches[x].claims \cup {c}) = Cardinality(batches[x].claims) + 1
    BY <2>2, <2>3, FS_AddElement
  <2>5. Cardinality(batches[x].claims) \in Nat
    BY <2>3, FS_CardinalityType
  <2> HIDE DEF row
  <2>6. IsFiniteSet(row.claims) /\ Cardinality(row.claims) <= MaxBatchClaims
    BY <2>1, <2>2, <2>4, <2>5, BoundsAssumption
  <2> QED
    BY <1>2, <2>1, <2>2, <2>6 DEF Live
<1> QED
  BY <1>1, <1>3, <1>4, KeptStep DEF Tick

LEMMA ClaimsInvariant == Spec => [](NoLostClaim /\ Carried)
<1>1. Init => NoLostClaim /\ Carried
  BY DEF Init, NoLostClaim, Carried, Live, NoRow
<1>2. TypeInv /\ EchoCapture /\ NoLostClaim /\ Carried /\ [Next]_vars => NoLostClaim' /\ Carried'
  <2> SUFFICES ASSUME TypeInv, EchoCapture, NoLostClaim, Carried, [Next]_vars
               PROVE  NoLostClaim' /\ Carried'
    OBVIOUS
  <2>1. CASE UNCHANGED vars
    BY <2>1, SameClaimsCarries, KeptStep DEF vars, ClaimsKept
  <2>2. CASE Tick
    BY <2>2, TickCarries
  <2>3. CASE Next /\ ~Tick
    BY <2>3, KeptStep, AgentKeepsClaims, EchoKeepsClaims, OtherKeepsClaims, RecoverKeepsClaims,
       DispatchKeepsClaims DEF Next
  <2> QED
    BY <2>1, <2>2, <2>3
<1> QED
  BY <1>1, <1>2, TypesInvariant, EchoCaptureInit, EchoCaptureStep, PTL DEF Spec

\* No interleaving of tick, gates, detaching, retirement and deletion drops a claim
\* that was marked batched.
THEOREM ClaimsAreCarried == Spec => []NoLostClaim
BY ClaimsInvariant, PTL

\* A batch in the dispatch queue carries claims, however it came back there.
THEOREM QueueCarriesClaims == Spec => []QueuedBatchCarriesClaims
<1>1. Carried => QueuedBatchCarriesClaims
  BY DEF Carried, Live, QueuedBatchCarriesClaims, OpenStates
<1> QED
  BY <1>1, ClaimsInvariant, PTL
==============================================================================
