------------------- MODULE DeliveryOutboxEvidence_proofs -------------------
(***************************************************************************)
(* What the attempts of DeliveryOutbox leave behind - acceptances,         *)
(* receipts, delivery nonces - always speaks of the latest attempt and of  *)
(* the binding in force, and the outbox implements DeliveryLease.  Proved  *)
(* for every set of claims, batches and workers and every bound, from the  *)
(* invariants of DeliveryOutbox_proofs.                                    *)
(***************************************************************************)
EXTENDS DeliveryOutbox_proofs

------------------------------------------------------------------------------
(* The strengthening.  A pass between acquiring and finalizing holds its    *)
(* attempt alone: attempts are numbered, and only a batch in the queue gets *)
(* the next number.  So the generation of the attempt is the one the pass   *)
(* resolved, and nobody else gives the attempt a nonce.                     *)

Holds(w, b, n) ==
    worker[w].pc \in HoldsAttempt /\ worker[w].batch = b /\ worker[w].attempt = n

HeldAttempt(w) ==
    \A b \in Batches, n \in AttemptNos : Holds(w, b, n) =>
        /\ n <= batches[b].attempt
        /\ attempts[b][n].gen = worker[w].gen
        /\ worker[w].pc \in {"acquired", "checked"} => attempts[b][n].nonce = "none"

OneHolder(v, w) ==
    \A b \in Batches, n \in AttemptNos : ~(Holds(v, b, n) /\ Holds(w, b, n))

\* The nonce an echo has read was issued, and is not taken back to none.
EchoOfIssuedNonce ==
    \A b \in Batches, n \in AttemptNos :
        echo.pc = "read" /\ echo.batch = b /\ echo.attempt = n =>
            n <= batches[b].attempt /\ attempts[b][n].nonce # "none"

Holders ==
    /\ \A w \in Workers : HeldAttempt(w)
    /\ \A v \in Workers : \A w \in Workers \ {v} : OneHolder(v, w)
    /\ EchoOfIssuedNonce

\* A batch whose attempt was accepted is at that attempt, and was sent or closed.
AcceptedNos(b) == {n \in AttemptNos : attempts[b][n].state = "accepted"}

AcceptedIsLatest(b) ==
    AcceptedNos(b) # {} =>
        AcceptedNos(b) = {batches[b].attempt} /\ Phase(b) \in {"sent", "closed"}

\* The number of a batch that was not frozen yet is still zero.
NumberedFromZero == \A b \in Batches : batches[b].state = "none" => batches[b].attempt = 0

\* An attestation a pass has read, and a consumed nonce, left a receipt.
Attested(b, n) == [batch |-> b, attempt |-> n, stage |-> "host_attested"] \in receipts

AttestationIsRecorded ==
    /\ \A b \in Batches, n \in AttemptNos :
          /\ attempts[b][n].nonce = "consumed" => Attested(b, n)
          /\ \A w \in Workers : Holds(w, b, n) /\ worker[w].attested => Attested(b, n)
    /\ \A w \in Workers : worker[w].attested => worker[w].pc \in HoldsAttempt

Evidence ==
    /\ \A b \in Batches : AcceptedIsLatest(b)
    /\ AttestationIsRecorded
    /\ EvidenceMatchesAttempt
    /\ SeenByCurrentAttempt
    /\ OutstandingNonceIsCurrent

------------------------------------------------------------------------------
(* Quiet steps: all but acquiring, handing over and finalizing.  They move  *)
(* a batch along RowStep or settle it as seen, and an attempt only fades.   *)

RowStep(r, s) ==
    /\ s.attempt = r.attempt
    /\ \/ s.state = r.state /\ (r.state = "needs_attention" => s.reason = r.reason)
       \/ r.state = "none" /\ s.state = "pending"
       \/ r.state \in OpenStates /\ s.state \in OpenStates
       \/ r.state = "dispatching" /\ s.state \in {"retry_wait", "dead_letter"}
       \/ r.state = "dispatching" /\ s.state = "needs_attention" /\ s.reason = "empty_batch"
       \/ r.state = "dispatched" /\ s.state = "needs_attention" /\ s.reason = "ack_timeout"
       \/ r.state = "dead_letter" /\ s.state = "retry_wait"
       \/ r.state # "none" /\ s.state = "cancelled"

\* The latest attempt was accepted, or its nonce is being echoed.
SettledAsSeen(b) ==
    LET n == batches[b].attempt IN
    /\ batches[b].state # "none"
    /\ batches'[b].state = "seen" /\ batches'[b].attempt = n
    /\ n \in AttemptNos
    /\ \/ attempts[b][n].state = "accepted"
       \/ echo.pc = "read" /\ echo.batch = b /\ echo.attempt = n

Fades(a, e) ==
    /\ e.gen = a.gen
    /\ e.state = a.state \/ (a.state = "leased" /\ e.state \in {"failed", "expired"})
    /\ \/ e.nonce = a.nonce
       \/ a.nonce = "outstanding" /\ e.nonce \in {"consumed", "discarded", "expired"}

QuietBatch(b) == RowStep(batches[b], batches'[b]) \/ SettledAsSeen(b)

Quiet ==
    \A b \in Batches :
        /\ QuietBatch(b)
        /\ \A n \in AttemptNos : Fades(attempts[b][n], attempts'[b][n])

LEMMA SameRow == \A r : RowStep(r, r)
BY DEF RowStep

LEMMA SameAttempt == \A a : Fades(a, a)
BY DEF Fades

LEMMA MoveToRow ==
    ASSUME TypeInv, NEW b \in Batches, NEW s, NEW r
    PROVE  /\ MoveTo(b, s, r).state = s
           /\ MoveTo(b, s, r).attempt = batches[b].attempt
           /\ MoveTo(b, s, r).reason = r
BY DEF MoveTo, TypeInv, TypeOK, BatchRow

LEMMA NoncesFade ==
    ASSUME TypeInv, NEW A, NEW s \in {"consumed", "discarded", "expired"},
           NEW b \in Batches, NEW n \in AttemptNos
    PROVE  Fades(attempts[b][n], WithNonces(A, s)[b][n])
<1>1. attempts[b][n] \in AttemptRow
  BY DEF TypeInv, TypeOK
<1> QED
  BY <1>1 DEF WithNonces, AttemptRow, Fades

LEMMA TickQuiet ==
    ASSUME TypeInv, NumberedFromZero, Tick
    PROVE  Quiet
<1>0. batches \in [Batches -> BatchRow]
  BY DEF TypeInv, TypeOK
<1>1. ASSUME NEW c \in Claims, NEW b \in Batches, TickFreeze(c, b), NEW x \in Batches
      PROVE  RowStep(batches[x], batches'[x])
  <2> DEFINE row == [NoRow EXCEPT !.state = "pending", !.claims = {c}]
  <2>1. row.state = "pending" /\ row.attempt = 0
    BY DEF NoRow
  <2>2. /\ batches' = [batches EXCEPT ![b] = row]
        /\ batches[b].state = "none" /\ batches[b].attempt = 0
    BY <1>1 DEF TickFreeze, NumberedFromZero
  <2> HIDE DEF row
  <2> QED
    BY <1>0, <2>1, <2>2, SameRow DEF RowStep
<1>2. ASSUME NEW c \in Claims, NEW b \in Batches, TickAppend(c, b), NEW x \in Batches
      PROVE  RowStep(batches[x], batches'[x])
  <2> DEFINE row == [batches[b] EXCEPT !.claims = @ \cup {c}]
  <2>1. row.state = batches[b].state /\ row.attempt = batches[b].attempt /\ row.reason = batches[b].reason
    BY <1>0 DEF BatchRow
  <2>2. batches' = [batches EXCEPT ![b] = row]
    BY <1>2 DEF TickAppend
  <2> HIDE DEF row
  <2> QED
    BY <1>0, <2>1, <2>2, SameRow DEF RowStep
<1> QED
  BY <1>1, <1>2, SameRow, SameAttempt
     DEF Tick, TickGate, TickFreeze, TickAppend, Quiet, QuietBatch

LEMMA AgentQuiet ==
    ASSUME TypeInv, AgentStep
    PROVE  Quiet
<1>0. batches \in [Batches -> BatchRow]
  BY DEF TypeInv, TypeOK
<1>1. ASSUME NEW c \in Claims, NEW b \in Batches
      PROVE  RowStep(batches[b], Detached(c)[b])
  <2> DEFINE less == [batches[b] EXCEPT !.claims = @ \ {c}]
             none == [batches[b] EXCEPT !.claims = {}, !.state = "cancelled", !.due = FALSE]
  <2>1. less.state = batches[b].state /\ less.attempt = batches[b].attempt /\ less.reason = batches[b].reason
    BY <1>0 DEF BatchRow
  <2>2. none.state = "cancelled" /\ none.attempt = batches[b].attempt
    BY <1>0 DEF BatchRow
  <2>3. Detached(c)[b] \in {less, batches[b]} \/ (batches[b].state \in OpenStates /\ Detached(c)[b] = none)
    BY DEF Detached
  <2> HIDE DEF less, none
  <2> QED
    BY <2>1, <2>2, <2>3 DEF RowStep, OpenStates
<1>2. ASSUME NEW c \in Claims, NEW s, ClaimAction(c, s)
      PROVE  Quiet
  BY <1>1, <1>2, SameAttempt DEF ClaimAction, Quiet, QuietBatch
<1>3. ASSUME NEW x \in Batches, AckBatch(x)
      PROVE  Quiet
  <2>1. SettledAsSeen(x)
    BY <1>0, <1>3, MoveToRow DEF AckBatch, AwaitsAck, AckTimedOut, SettledAsSeen
  <2>2. \A b \in Batches \ {x} : batches'[b] = batches[b]
    BY <1>0, <1>3 DEF AckBatch
  <2>3. UNCHANGED attempts
    BY <1>3 DEF AckBatch
  <2> QED
    BY <2>1, <2>2, <2>3, SameRow, SameAttempt DEF Quiet, QuietBatch
<1>4. ASSUME NEW x \in Batches, AckAfterAttestation(x)
      PROVE  Quiet
  BY <1>4, SameRow, SameAttempt DEF AckAfterAttestation, Quiet, QuietBatch
<1> QED
  BY <1>2, <1>3, <1>4 DEF AgentStep, SnoozeClaim, ConsumeClaim

LEMMA RecoverQuiet ==
    ASSUME TypeInv, SingleActiveAttempt, NEW w \in Workers, RecoverStep(w)
    PROVE  Quiet
<1>0. /\ batches \in [Batches -> BatchRow]
      /\ attempts \in [Batches -> [AttemptNos -> AttemptRow]]
  BY DEF TypeInv, TypeOK
<1>1. CASE RecoverLeases(w)
  <2>1. ASSUME NEW b \in Batches
        PROVE  RowStep(batches[b], RecoveredBatch(b))
    <3>1. CASE AckTimedOut(b) /\ Settled(b)
      <4>1. ~AckOverdue(b) /\ batches[b].state = "needs_attention"
        BY <3>1 DEF AckTimedOut, AckOverdue
      <4>2. RecoveredBatch(b) = [batches[b] EXCEPT !.state = "cancelled"]
        BY <3>1, <4>1, Zenon DEF RecoveredBatch
      <4> QED
        BY <1>0, <4>1, <4>2 DEF BatchRow, RowStep
    <3>2. CASE ~(AckTimedOut(b) /\ Settled(b)) /\ batches[b].state = "dispatching" /\ batches[b].due
      <4>1. ~AckOverdue(b)
        BY <3>2 DEF AckOverdue
      <4>2. RecoveredBatch(b) = [batches[b] EXCEPT !.state = "retry_wait", !.owner = 0]
        BY <3>2, <4>1, Zenon DEF RecoveredBatch
      <4> QED
        BY <1>0, <3>2, <4>2 DEF BatchRow, RowStep
    <3>3. CASE ~(AckTimedOut(b) /\ Settled(b)) /\ AckOverdue(b)
      <4>1. batches[b].state = "dispatched"
        BY <3>3 DEF AckOverdue
      <4>2. RecoveredBatch(b) = MoveTo(b, "needs_attention", "ack_timeout")
        BY <3>3, <4>1 DEF RecoveredBatch
      <4> QED
        BY <4>1, <4>2, MoveToRow DEF RowStep
    <3>4. CASE /\ ~(AckTimedOut(b) /\ Settled(b)) /\ ~AckOverdue(b)
               /\ ~(batches[b].state = "dispatching" /\ batches[b].due)
      BY <3>4, SameRow DEF RecoveredBatch
    <3> QED
      BY <3>1, <3>2, <3>3, <3>4
  <2>2. ASSUME NEW lapsed \in SUBSET Outstanding, NEW b \in Batches, NEW n \in AttemptNos
        PROVE  Fades(attempts[b][n], RecoveredAttempt(b, n, lapsed))
    <3>1. <<b, n>> \in lapsed => attempts[b][n].nonce = "outstanding"
      BY DEF Outstanding
    <3> QED
      BY <1>0, <3>1 DEF RecoveredAttempt, AttemptRow, Fades
  <2> QED
    BY <1>1, <2>1, <2>2 DEF RecoverLeases, Quiet, QuietBatch
<1>2. CASE RetireSettled(w)
  <2>1. ASSUME NEW b \in Batches
        PROVE  RowStep(batches[b], batches'[b])
    <3> DEFINE row == [batches[b] EXCEPT !.state = "cancelled", !.due = FALSE]
    <3>1. row.state = "cancelled" /\ row.attempt = batches[b].attempt
      BY <1>0 DEF BatchRow
    <3>2. batches'[b] = batches[b] \/ (Retirable(b) /\ batches'[b] = row)
      BY <1>2 DEF RetireSettled
    <3> HIDE DEF row
    <3> QED
      BY <3>1, <3>2 DEF RowStep, Retirable, OpenStates
  <2> QED
    BY <1>2, <2>1, SameAttempt DEF RetireSettled, Quiet, QuietBatch
<1>3. CASE ReportIncidents(w)
  BY <1>3, SameRow, SameAttempt DEF ReportIncidents, Quiet, QuietBatch
<1> QED
  BY <1>1, <1>2, <1>3 DEF RecoverStep

LEMMA EchoQuiet ==
    ASSUME TypeInv, EchoCapture, EchoStep
    PROVE  Quiet
<1>0. batches \in [Batches -> BatchRow]
  BY DEF TypeInv, TypeOK
<1>1. CASE EchoCommit
  <2> DEFINE x == echo.batch
  <2>1. x \in Batches /\ echo.attempt \in AttemptNos /\ echo.pc = "read"
    BY <1>1 DEF EchoCommit, TypeInv, GoodEchoRow
  <2>2. ASSUME NEW b \in Batches
        PROVE  QuietBatch(b)
    <3>1. CASE batches'[b] = batches[b]
      BY <3>1, SameRow DEF QuietBatch
    <3>2. CASE batches'[b] # batches[b]
      <4>1. b = x /\ EchoSettles(x, echo.attempt) /\ batches'[x] = MoveTo(x, "seen", "none")
        BY <1>0, <1>1, <3>2 DEF EchoCommit
      <4> QED
        BY <2>1, <4>1, MoveToRow DEF EchoSettles, EchoCapture, SettledAsSeen, QuietBatch
    <3> QED
      BY <3>1, <3>2
  <2>3. attempts' = attempts \/ attempts' = WithNonces({<<x, echo.attempt>>}, "consumed")
    BY <1>1 DEF EchoCommit
  <2> QED
    BY <2>2, <2>3, SameAttempt, NoncesFade DEF Quiet
<1>2. ASSUME NEW b \in Batches, NEW n \in AttemptNos, EchoExpired(b, n)
      PROVE  Quiet
  BY <1>2, SameRow, NoncesFade DEF EchoExpired, Quiet, QuietBatch
<1>3. ASSUME NEW b \in Batches, NEW n \in AttemptNos, EchoRead(b, n)
      PROVE  Quiet
  BY <1>3, SameRow, SameAttempt DEF EchoRead, Quiet, QuietBatch
<1> QED
  BY <1>1, <1>2, <1>3 DEF EchoStep

LEMMA EndpointQuiet ==
    ASSUME TypeInv, EndpointStep
    PROVE  Quiet
<1>0. batches \in [Batches -> BatchRow]
  BY DEF TypeInv, TypeOK
<1>1. CASE Takeover
  <2>1. ASSUME NEW b \in Batches
        PROVE  RowStep(batches[b], batches'[b])
    <3> DEFINE row == [batches[b] EXCEPT !.state = "pending", !.gen = 0, !.reason = "none"]
    <3>1. row.state = "pending" /\ row.attempt = batches[b].attempt
      BY <1>0 DEF BatchRow
    <3>2. \/ batches'[b] = batches[b]
          \/ batches[b].state = "waiting_for_endpoint" /\ batches'[b] = row
      BY <1>1 DEF Takeover
    <3> HIDE DEF row
    <3> QED
      BY <3>1, <3>2 DEF RowStep, OpenStates
  <2>2. attempts' = WithNonces(Outstanding, "discarded")
    BY <1>1 DEF Takeover
  <2> QED
    BY <2>1, <2>2, NoncesFade DEF Quiet, QuietBatch
<1>2. CASE EndpointRevoked
  BY <1>2, SameRow, NoncesFade DEF EndpointRevoked, Quiet, QuietBatch
<1>3. CASE EndpointLapses \/ EndpointRenews
  BY <1>3, SameRow, SameAttempt DEF EndpointLapses, EndpointRenews, Quiet, QuietBatch
<1> QED
  BY <1>1, <1>2, <1>3 DEF EndpointStep

LEMMA OperatorQuiet ==
    ASSUME TypeInv, OperatorStep \/ Crash \/ \E b \in Batches : TimerElapses(b)
    PROVE  Quiet
<1>0. batches \in [Batches -> BatchRow]
  BY DEF TypeInv, TypeOK
<1>1. CASE DeleteChannel
  <2>1. ASSUME NEW b \in Batches
        PROVE  RowStep(batches[b], batches'[b])
    <3>1. \/ batches'[b] = batches[b]
          \/ batches[b].state # "none" /\ batches'[b] = MoveTo(b, "cancelled", "none")
      BY <1>1 DEF DeleteChannel, Deletable
    <3> QED
      BY <3>1, MoveToRow DEF RowStep
  <2>2. ASSUME NEW b \in Batches, NEW n \in AttemptNos
        PROVE  Fades(attempts[b][n], attempts'[b][n])
    <3> DEFINE row == WithNonces(Outstanding, "discarded")[b][n]
    <3>1. row \in AttemptRow /\ Fades(attempts[b][n], row)
      BY WithNoncesType, NoncesFade
    <3>2. row.state = attempts[b][n].state
      BY WithNoncesFields
    <3>3. attempts'[b][n] = [row EXCEPT !.state = IF @ = "leased" THEN "failed" ELSE @]
      BY <1>1 DEF DeleteChannel
    <3> HIDE DEF row
    <3> QED
      BY <3>1, <3>2, <3>3 DEF AttemptRow, Fades
  <2> QED
    BY <2>1, <2>2 DEF Quiet, QuietBatch
<1>2. CASE RetryDeadLetter
  <2> DEFINE x == operator.batch
             row == [batches[x] EXCEPT !.state = "retry_wait", !.gen = 0, !.due = TRUE]
  <2>1. x \in Batches => row.state = "retry_wait" /\ row.attempt = batches[x].attempt
    BY <1>0 DEF BatchRow
  <2>2. /\ \/ batches' = batches
           \/ batches[x].state = "dead_letter" /\ batches' = [batches EXCEPT ![x] = row]
        /\ UNCHANGED attempts
    BY <1>2 DEF RetryDeadLetter
  <2> HIDE DEF row
  <2>3. ASSUME NEW b \in Batches
        PROVE  RowStep(batches[b], batches'[b])
    BY <1>0, <2>1, <2>2, SameRow DEF RowStep
  <2> QED
    BY <2>2, <2>3, SameAttempt DEF Quiet, QuietBatch
<1>3. ASSUME NEW x \in Batches, TimerElapses(x)
      PROVE  Quiet
  <2> DEFINE row == [batches[x] EXCEPT !.due = TRUE]
  <2>1. row.state = batches[x].state /\ row.attempt = batches[x].attempt /\ row.reason = batches[x].reason
    BY <1>0 DEF BatchRow
  <2>2. batches' = [batches EXCEPT ![x] = row] /\ UNCHANGED attempts
    BY <1>3 DEF TimerElapses
  <2> HIDE DEF row
  <2>3. ASSUME NEW b \in Batches
        PROVE  RowStep(batches[b], batches'[b])
    BY <1>0, <2>1, <2>2, SameRow DEF RowStep
  <2> QED
    BY <2>2, <2>3, SameAttempt DEF Quiet, QuietBatch
<1>4. CASE Crash \/ \E b \in Batches : RetryRead(b)
  BY <1>4, SameRow, SameAttempt
     DEF Crash, CrashDaemon, CrashOperator, CrashProcess, RetryRead, Quiet, QuietBatch
<1> QED
  BY <1>1, <1>2, <1>3, <1>4 DEF OperatorStep

LEMMA SweepQuiet ==
    ASSUME TypeInv, SingleActiveAttempt, NEW w \in Workers, DispatchStep(w),
           ~AcquireBatch(w), ~FinalizeAttempt(w),
           ~(\E nonce \in {"none", "outstanding"} : HandOver(w, nonce))
    PROVE  Quiet
<1>0. /\ batches \in [Batches -> BatchRow]
      /\ attempts \in [Batches -> [AttemptNos -> AttemptRow]]
  BY DEF TypeInv, TypeOK
<1>1. ASSUME NEW b \in Batches, Visit(w, b)
      PROVE  Quiet
  <2>1. PICK kept \in SUBSET Claims :
            batches' = [batches EXCEPT ![b] =
              [@ EXCEPT !.claims = kept, !.due = kept # {},
                        !.state = IF kept = {} THEN "cancelled" ELSE batches[b].state]]
    BY <1>0, <1>1 DEF Visit, BatchRow
  <2> DEFINE row == [batches[b] EXCEPT !.claims = kept, !.due = kept # {},
                        !.state = IF kept = {} THEN "cancelled" ELSE batches[b].state]
  <2>2. /\ row.state = IF kept = {} THEN "cancelled" ELSE batches[b].state
        /\ row.attempt = batches[b].attempt /\ row.reason = batches[b].reason
    BY <1>0 DEF BatchRow
  <2>3. batches' = [batches EXCEPT ![b] = row] /\ UNCHANGED attempts /\ batches[b].state \in OpenStates
    BY <1>1, <2>1 DEF Visit
  <2> HIDE DEF row
  <2>4. ASSUME NEW x \in Batches
        PROVE  RowStep(batches[x], batches'[x])
    BY <1>0, <2>2, <2>3, SameRow DEF RowStep, OpenStates
  <2> QED
    BY <2>3, <2>4, SameAttempt DEF Quiet, QuietBatch
<1>2. CASE Park(w)
  <2> DEFINE x == worker[w].batch
             row == [batches[x] EXCEPT !.state = "waiting_for_endpoint", !.reason = "none"]
  <2>1. x \in Batches
    BY <1>2 DEF Park, At, TypeInv, GoodWorkerRow, HoldsBatch
  <2>2. row.state = "waiting_for_endpoint" /\ row.attempt = batches[x].attempt
    BY <1>0, <2>1 DEF BatchRow
  <2>3. /\ batches' = IF Parkable(x) THEN [batches EXCEPT ![x] = row] ELSE batches
        /\ UNCHANGED attempts
    BY <1>2 DEF Park
  <2> HIDE DEF row
  <2>4. ASSUME NEW b \in Batches
        PROVE  RowStep(batches[b], batches'[b])
    BY <1>0, <2>1, <2>2, <2>3, SameRow DEF RowStep, OpenStates, Parkable
  <2> QED
    BY <2>3, <2>4, SameAttempt DEF Quiet, QuietBatch
<1>3. CASE EmptyBatch(w) \/ StaleBinding(w)
  <2> DEFINE x == worker[w].batch
             m == worker[w].attempt
             row == [attempts[x][m] EXCEPT !.state = IF attempts[x][m].state = "leased"
                                            THEN "failed" ELSE attempts[x][m].state]
  <2>1. x \in Batches /\ m \in AttemptNos
    BY <1>3 DEF EmptyBatch, StaleBinding, At, TypeInv, GoodWorkerRow, HoldsBatch, HoldsAttempt
  <2>2. Fades(attempts[x][m], row)
    BY <1>0, <2>1 DEF AttemptRow, Fades
  <2>3. PICK s, r : /\ <<s, r>> \in {<<"needs_attention", "empty_batch">>, <<"retry_wait", "none">>}
                    /\ Abandon(w, s, r)
    BY <1>3 DEF EmptyBatch, StaleBinding
  <2>4. /\ attempts' = [attempts EXCEPT ![x][m] = row]
        /\ batches' = IF Owns(x, m) THEN [batches EXCEPT ![x] = MoveTo(x, s, r)] ELSE batches
    BY <2>3 DEF Abandon
  <2> HIDE DEF row, x, m
  <2>5. ASSUME NEW b \in Batches
        PROVE  RowStep(batches[b], batches'[b])
    BY <1>0, <2>1, <2>3, <2>4, SameRow, MoveToRow DEF RowStep, Owns
  <2>6. ASSUME NEW b \in Batches, NEW n \in AttemptNos
        PROVE  Fades(attempts[b][n], attempts'[b][n])
    BY <1>0, <2>1, <2>2, <2>4, SameAttempt
  <2> QED
    BY <2>5, <2>6 DEF Quiet, QuietBatch
<1>4. CASE \/ SkipCandidate(w) \/ CheckBinding(w) \/ SkipHandOver(w) \/ EndSweep(w)
           \/ \E result \in Results : TransportReturns(w, result)
  BY <1>4, SameRow, SameAttempt
     DEF SkipCandidate, CheckBinding, SkipHandOver, EndSweep, TransportReturns, Quiet, QuietBatch
<1> QED
  BY <1>1, <1>2, <1>3, <1>4 DEF DispatchStep

------------------------------------------------------------------------------
(* The phases of DeliveryLease.  A step moves a batch as MayMove allows, or *)
(* it leases the batch, or it accepts its attempt.                          *)

Sent(r)   == r.state = "dispatched" \/ (r.state = "needs_attention" /\ r.reason = "ack_timeout")
Failed(r) == r.state = "dead_letter" \/ (r.state = "needs_attention" /\ r.reason # "ack_timeout")

LEMMA PhaseValues ==
    ASSUME NEW b, batches[b].state \in BatchStates
    PROVE  /\ batches[b].state = "none" <=> Phase(b) = "absent"
           /\ batches[b].state \in OpenStates <=> Phase(b) = "queued"
           /\ batches[b].state = "dispatching" <=> Phase(b) = "leased"
           /\ Sent(batches[b]) <=> Phase(b) = "sent"
           /\ batches[b].state \in {"seen", "cancelled"} <=> Phase(b) = "closed"
           /\ Failed(batches[b]) <=> Phase(b) = "failed"
BY DEF Phase, AckTimedOut, Sent, Failed, BatchStates, OpenStates

LEMMA PhaseValuesNext ==
    ASSUME NEW b, batches'[b].state \in BatchStates
    PROVE  /\ batches'[b].state = "none" <=> Phase(b)' = "absent"
           /\ batches'[b].state \in OpenStates <=> Phase(b)' = "queued"
           /\ batches'[b].state = "dispatching" <=> Phase(b)' = "leased"
           /\ Sent(batches'[b]) <=> Phase(b)' = "sent"
           /\ batches'[b].state \in {"seen", "cancelled"} <=> Phase(b)' = "closed"
           /\ Failed(batches'[b]) <=> Phase(b)' = "failed"
BY DEF Phase, AckTimedOut, Sent, Failed, BatchStates, OpenStates

MayMove(p, q) ==
    \/ q = p
    \/ p = "absent" /\ q = "queued"
    \/ p = "leased" /\ q \in {"queued", "failed"}
    \/ p = "failed" /\ q = "queued"
    \/ p \in {"queued", "leased", "sent", "failed"} /\ q = "closed"

LeaseStep(b) ==
    LET n == batches[b].attempt IN
    \/ /\ MayMove(Phase(b), Phase(b)')
       /\ batches'[b].attempt = n /\ AcceptedNos(b)' = AcceptedNos(b)
    \/ /\ Phase(b) = "queued" /\ Phase(b)' = "leased"
       /\ batches'[b].attempt = n + 1 /\ AcceptedNos(b)' = AcceptedNos(b)
    \/ /\ Phase(b) = "leased" /\ Phase(b)' \in {"sent", "closed"}
       /\ batches'[b].attempt = n /\ AcceptedNos(b)' = AcceptedNos(b) \cup {n}

LEMMA QuietMoves ==
    ASSUME TypeInv, TypeInv', EchoCapture, Quiet, NEW b \in Batches
    PROVE  LeaseStep(b)
<1>1. batches[b] \in BatchRow /\ batches'[b] \in BatchRow
  BY DEF TypeInv, TypeOK
<1>2. batches[b].state \in BatchStates /\ batches'[b].state \in BatchStates
  BY <1>1 DEF BatchRow
<1>3. AcceptedNos(b)' = AcceptedNos(b)
  BY DEF Quiet, Fades, AcceptedNos
<1>4. batches'[b].attempt = batches[b].attempt
  BY DEF Quiet, QuietBatch, RowStep, SettledAsSeen
<1>5. MayMove(Phase(b), Phase(b)')
  <2>1. CASE RowStep(batches[b], batches'[b])
    BY <1>2, <2>1, PhaseValues, PhaseValuesNext
       DEF RowStep, MayMove, Sent, Failed, OpenStates, BatchStates
  <2>2. CASE SettledAsSeen(b)
    BY <1>2, <2>2, PhaseValues, PhaseValuesNext
       DEF SettledAsSeen, MayMove, Sent, Failed, OpenStates, BatchStates
  <2> QED
    BY <2>1, <2>2 DEF Quiet, QuietBatch
<1> QED
  BY <1>3, <1>4, <1>5 DEF LeaseStep

------------------------------------------------------------------------------
(* The three other steps.  They touch one batch and one attempt.            *)

OnlyAt(x, m) ==
    /\ \A b \in Batches \ {x} : batches'[b] = batches[b]
    /\ \A b \in Batches, n \in AttemptNos : <<b, n>> # <<x, m>> => attempts'[b][n] = attempts[b][n]

LEMMA AcquireEffect ==
    ASSUME TypeInv, NEW w \in Workers, AcquireBatch(w),
           NEW x, x = worker[w].batch, NEW m, m = batches[x].attempt + 1
    PROVE  /\ x \in Batches /\ m \in AttemptNos
           /\ OnlyAt(x, m)
           /\ batches[x].state \in OpenStates
           /\ batches'[x].state = "dispatching" /\ batches'[x].attempt = m
           /\ attempts'[x][m].state = "leased" /\ attempts'[x][m].nonce = "none"
           /\ attempts'[x][m].gen = worker[w].gen
           /\ worker'[w].batch = x /\ worker'[w].attempt = m /\ worker'[w].gen = worker[w].gen
           /\ worker'[w].pc = "acquired" /\ worker'[w].attested = worker[w].attested
           /\ \A v \in Workers \ {w} : worker'[v] = worker[v]
           /\ UNCHANGED <<receipts, channel, echo>>
<1> DEFINE row == [batches[x] EXCEPT !.state = "dispatching", !.attempt = m, !.gen = worker[w].gen,
                                     !.owner = m, !.reason = "none", !.due = FALSE]
           att == [NoAttempt EXCEPT !.state = "leased", !.gen = worker[w].gen]
           pass == [worker[w] EXCEPT !.pc = "acquired", !.attempt = m, !.snap = {}]
<1>0. /\ batches \in [Batches -> BatchRow]
      /\ attempts \in [Batches -> [AttemptNos -> AttemptRow]]
      /\ worker \in [Workers -> WorkerRow]
  BY DEF TypeInv, TypeOK
<1>1. /\ batches' = [batches EXCEPT ![x] = row]
      /\ attempts' = [attempts EXCEPT ![x][m] = att]
      /\ worker' = [worker EXCEPT ![w] = pass]
      /\ x \in Batches /\ m <= MaxAttempt /\ batches[x].state \in OpenStates
      /\ UNCHANGED <<receipts, channel, echo>>
  BY DEF AcquireBatch, CanAcquire, At, TypeInv, GoodWorkerRow, HoldsBatch, OpenStates
<1>2. m \in AttemptNos
  BY <1>0, <1>1, BoundsAssumption DEF BatchRow, AttemptNos
<1>3. row.state = "dispatching" /\ row.attempt = m
  BY <1>0, <1>1 DEF BatchRow
<1>4. att.state = "leased" /\ att.nonce = "none" /\ att.gen = worker[w].gen
  BY DEF NoAttempt
<1>5. /\ pass.batch = x /\ pass.attempt = m /\ pass.gen = worker[w].gen
      /\ pass.pc = "acquired" /\ pass.attested = worker[w].attested
  BY <1>0 DEF WorkerRow
<1> HIDE DEF row, att, pass
<1>6. worker'[w] = pass /\ \A v \in Workers \ {w} : worker'[v] = worker[v]
  BY <1>0, <1>1
<1>7. batches'[x] = row /\ attempts'[x][m] = att /\ OnlyAt(x, m)
  BY <1>0, <1>1, <1>2 DEF OnlyAt
<1> QED
  BY <1>1, <1>2, <1>3, <1>4, <1>5, <1>6, <1>7

LEMMA HandOverEffect ==
    ASSUME TypeInv, NEW w \in Workers, NEW nonce, HandOver(w, nonce),
           NEW x, x = worker[w].batch, NEW m, m = worker[w].attempt
    PROVE  /\ x \in Batches /\ m \in AttemptNos /\ worker[w].pc = "checked"
           /\ OnlyAt(x, m)
           /\ UNCHANGED batches
           /\ DispatchFence(w)
           /\ attempts'[x][m].nonce = nonce /\ nonce \in {"none", "outstanding"}
           /\ attempts'[x][m].state = attempts[x][m].state
           /\ attempts'[x][m].gen = attempts[x][m].gen
           /\ worker'[w].batch = x /\ worker'[w].attempt = m /\ worker'[w].gen = worker[w].gen
           /\ worker'[w].pc = "inflight" /\ worker'[w].attested = worker[w].attested
           /\ \A v \in Workers \ {w} : worker'[v] = worker[v]
           /\ UNCHANGED <<receipts, channel, echo>>
<1> DEFINE att == [attempts[x][m] EXCEPT !.nonce = nonce]
           pass == [worker[w] EXCEPT !.pc = "inflight"]
<1>0. /\ attempts \in [Batches -> [AttemptNos -> AttemptRow]]
      /\ worker \in [Workers -> WorkerRow]
  BY DEF TypeInv, TypeOK
<1>1. x \in Batches /\ m \in AttemptNos /\ worker[w].pc = "checked"
  BY DEF HandOver, At, TypeInv, GoodWorkerRow, HoldsBatch, HoldsAttempt
<1>2. /\ attempts' = [attempts EXCEPT ![x][m] = att]
      /\ worker' = [worker EXCEPT ![w] = pass]
      /\ DispatchFence(w) /\ nonce \in {"none", "outstanding"}
      /\ UNCHANGED <<batches, receipts, channel, echo>>
  BY DEF HandOver
<1>3. att.nonce = nonce /\ att.state = attempts[x][m].state /\ att.gen = attempts[x][m].gen
  BY <1>0, <1>1 DEF AttemptRow
<1>4. /\ pass.batch = x /\ pass.attempt = m /\ pass.gen = worker[w].gen
      /\ pass.pc = "inflight" /\ pass.attested = worker[w].attested
  BY <1>0 DEF WorkerRow
<1> HIDE DEF att, pass
<1>5. worker'[w] = pass /\ \A v \in Workers \ {w} : worker'[v] = worker[v]
  BY <1>0, <1>2
<1>6. attempts'[x][m] = att /\ OnlyAt(x, m)
  BY <1>0, <1>1, <1>2 DEF OnlyAt
<1> QED
  BY <1>1, <1>2, <1>3, <1>4, <1>5, <1>6

\* An answer is written down only for the attempt that still owns its batch.
LEMMA FinalizeEffect ==
    ASSUME TypeInv, SingleActiveAttempt, NEW w \in Workers, FinalizeAttempt(w),
           NEW x, x = worker[w].batch, NEW m, m = worker[w].attempt
    PROVE  /\ x \in Batches /\ m \in AttemptNos /\ worker[w].pc = "finalize"
           /\ OnlyAt(x, m)
           /\ Fades(attempts[x][m], attempts'[x][m]) \/ attempts'[x][m].state = "accepted"
           /\ attempts'[x][m].gen = attempts[x][m].gen
           /\ \/ attempts'[x][m].nonce = attempts[x][m].nonce
              \/ attempts[x][m].nonce = "outstanding" /\ attempts'[x][m].nonce = "discarded"
           /\ ~Owns(x, m) => /\ attempts'[x][m].state = attempts[x][m].state
                             /\ UNCHANGED <<batches, receipts>>
           /\ Owns(x, m) =>
                /\ m = batches[x].attempt /\ batches'[x].attempt = m
                /\ \/ /\ worker[w].attested /\ batches'[x].state = "seen"
                      /\ attempts'[x][m].state = "accepted"
                   \/ /\ worker[w].result = "accepted" /\ batches'[x].state = "dispatched"
                      /\ attempts'[x][m].state = "accepted"
                   \/ /\ worker[w].result # "accepted" /\ ~worker[w].attested
                      /\ batches'[x].state \in {"retry_wait", "dead_letter"}
                      /\ attempts'[x][m].state = "failed"
                /\ receipts' = IF worker[w].result = "accepted"
                               THEN receipts \cup
                                    {[batch |-> x, attempt |-> m, stage |-> "transport_accepted"]}
                               ELSE receipts
           /\ worker' = NextCandidate(w)
           /\ UNCHANGED <<channel, echo>>
<1> DEFINE accepted == worker[w].result = "accepted"
           effective == accepted \/ worker[w].attested
           next == CASE worker[w].attested           -> "seen"
                     [] accepted /\ ~worker[w].attested -> "dispatched"
                     [] worker[w].result = "retry" /\ ~effective -> "retry_wait"
                     [] OTHER                        -> "dead_letter"
           state == IF attempts[x][m].state = "leased"
                    THEN (IF effective THEN "accepted" ELSE "failed") ELSE attempts[x][m].state
           nonce == IF ~effective /\ attempts[x][m].nonce = "outstanding" THEN "discarded"
                    ELSE attempts[x][m].nonce
           row == [attempts[x][m] EXCEPT !.state = state, !.nonce = nonce]
           mark == [batch |-> x, attempt |-> m, stage |-> "transport_accepted"]
<1>0. /\ batches \in [Batches -> BatchRow]
      /\ attempts \in [Batches -> [AttemptNos -> AttemptRow]]
      /\ worker[w] \in WorkerRow
  BY DEF TypeInv, TypeOK
<1>1. x \in Batches /\ m \in AttemptNos /\ worker[w].pc = "finalize"
  BY DEF FinalizeAttempt, At, TypeInv, GoodWorkerRow, HoldsBatch, HoldsAttempt
<1>2. /\ attempts' = [attempts EXCEPT ![x][m] = row]
      /\ receipts' = IF accepted /\ Owns(x, m) /\ attempts'[x][m].state = "accepted"
                     THEN receipts \cup {mark} ELSE receipts
      /\ batches' = IF Owns(x, m) THEN [batches EXCEPT ![x] = MoveTo(x, next, "none")] ELSE batches
      /\ worker' = NextCandidate(w)
      /\ UNCHANGED <<channel, echo>>
  BY DEF FinalizeAttempt
<1>3. attempts[x][m] \in AttemptRow
  BY <1>0, <1>1
<1>4. row.state = state /\ row.nonce = nonce /\ row.gen = attempts[x][m].gen
  BY <1>3 DEF AttemptRow
<1>5. \/ worker[w].attested /\ next = "seen" /\ effective
      \/ ~worker[w].attested /\ accepted /\ next = "dispatched" /\ effective
      \/ ~worker[w].attested /\ ~accepted /\ next \in {"retry_wait", "dead_letter"} /\ ~effective
  BY <1>0 DEF WorkerRow
<1>6. Owns(x, m) <=> attempts[x][m].state = "leased"
  BY <1>1 DEF SingleActiveAttempt, Owns
<1>7. Owns(x, m) => m = batches[x].attempt
  BY <1>1, <1>6 DEF SingleActiveAttempt
<1>8. state = IF Owns(x, m) THEN (IF effective THEN "accepted" ELSE "failed") ELSE attempts[x][m].state
  BY <1>6
<1>9. \/ nonce = attempts[x][m].nonce
      \/ attempts[x][m].nonce = "outstanding" /\ nonce = "discarded"
  OBVIOUS
<1> HIDE DEF row, next, state, nonce, mark
<1>10. OnlyAt(x, m) /\ attempts'[x][m] = row
  BY <1>0, <1>1, <1>2 DEF OnlyAt
<1>11. Owns(x, m) => batches'[x].state = next /\ batches'[x].attempt = m
  BY <1>0, <1>1, <1>2, <1>7, MoveToRow
<1>12. receipts' = IF accepted /\ Owns(x, m) THEN receipts \cup {mark} ELSE receipts
  BY <1>2, <1>4, <1>8, <1>10
<1>13. Fades(attempts[x][m], row) \/ row.state = "accepted"
  BY <1>4, <1>6, <1>8, <1>9 DEF Fades
<1>14. ~Owns(x, m) => row.state = attempts[x][m].state /\ UNCHANGED <<batches, receipts>>
  BY <1>2, <1>4, <1>8
<1>15. Owns(x, m) =>
          \/ worker[w].attested /\ batches'[x].state = "seen" /\ row.state = "accepted"
          \/ /\ worker[w].result = "accepted" /\ batches'[x].state = "dispatched"
             /\ row.state = "accepted"
          \/ /\ worker[w].result # "accepted" /\ ~worker[w].attested
             /\ batches'[x].state \in {"retry_wait", "dead_letter"} /\ row.state = "failed"
  BY <1>4, <1>5, <1>8, <1>11
<1>16. /\ row.nonce = attempts[x][m].nonce
          \/ (attempts[x][m].nonce = "outstanding" /\ row.nonce = "discarded")
       /\ row.gen = attempts[x][m].gen
  BY <1>4, <1>9
<1>17. Owns(x, m) => receipts' = IF accepted THEN receipts \cup {mark} ELSE receipts
  BY <1>12
<1> QED
  BY <1>1, <1>2, <1>7, <1>10, <1>11, <1>13, <1>14, <1>15, <1>16, <1>17 DEF mark

LEMMA SameBatchStays ==
    ASSUME NEW b \in Batches, batches'[b] = batches[b],
           \A n \in AttemptNos : attempts'[b][n].state = attempts[b][n].state
    PROVE  LeaseStep(b)
<1>1. Phase(b)' = Phase(b)
  BY DEF Phase, AckTimedOut
<1>2. AcceptedNos(b)' = AcceptedNos(b)
  BY DEF AcceptedNos
<1> QED
  BY <1>1, <1>2 DEF LeaseStep, MayMove

LEMMA AcquireLeases ==
    ASSUME TypeInv, TypeInv', NEW w \in Workers, AcquireBatch(w), NEW b \in Batches,
           AcceptedIsLatest(b)
    PROVE  LeaseStep(b)
<1> DEFINE x == worker[w].batch
           m == batches[x].attempt + 1
<1>1. /\ x \in Batches /\ m \in AttemptNos /\ OnlyAt(x, m)
      /\ batches[x].state \in OpenStates
      /\ batches'[x].state = "dispatching" /\ batches'[x].attempt = m
      /\ attempts'[x][m].state = "leased"
  BY AcquireEffect
<1>2. CASE b # x
  BY <1>1, <1>2, SameBatchStays DEF OnlyAt
<1>3. CASE b = x
  <2>1. batches[b].state \in BatchStates /\ batches'[b].state \in BatchStates
    BY DEF TypeInv, TypeOK, BatchRow
  <2>2. Phase(b) = "queued" /\ Phase(b)' = "leased"
    BY <1>1, <1>3, <2>1, PhaseValues, PhaseValuesNext
  <2>3. AcceptedNos(b) = {}
    BY <2>2 DEF AcceptedIsLatest
  <2> HIDE DEF x, m
  <2>4. AcceptedNos(b)' = {}
    BY <1>1, <1>3, <2>3 DEF AcceptedNos, OnlyAt
  <2> QED
    BY <1>1, <1>3, <2>2, <2>3, <2>4 DEF LeaseStep, m
<1> QED
  BY <1>2, <1>3

LEMMA HandOverLeases ==
    ASSUME TypeInv, NEW w \in Workers, NEW nonce, HandOver(w, nonce), NEW b \in Batches
    PROVE  LeaseStep(b)
<1> DEFINE x == worker[w].batch
           m == worker[w].attempt
<1>1. /\ OnlyAt(x, m) /\ UNCHANGED batches
      /\ attempts'[x][m].state = attempts[x][m].state
  BY HandOverEffect
<1>2. \A n \in AttemptNos : attempts'[b][n].state = attempts[b][n].state
  BY <1>1 DEF OnlyAt
<1> QED
  BY <1>1, <1>2, SameBatchStays

LEMMA FinalizeLeases ==
    ASSUME TypeInv, TypeInv', SingleActiveAttempt, NEW w \in Workers, FinalizeAttempt(w),
           NEW b \in Batches, AcceptedIsLatest(b)
    PROVE  LeaseStep(b)
<1> DEFINE x == worker[w].batch
           m == worker[w].attempt
<1>1. /\ x \in Batches /\ m \in AttemptNos /\ OnlyAt(x, m)
      /\ ~Owns(x, m) => attempts'[x][m].state = attempts[x][m].state /\ UNCHANGED batches
      /\ Owns(x, m) =>
            /\ m = batches[x].attempt /\ batches'[x].attempt = m
            /\ \/ /\ batches'[x].state \in {"seen", "dispatched"}
                  /\ attempts'[x][m].state = "accepted"
               \/ /\ batches'[x].state \in {"retry_wait", "dead_letter"}
                  /\ attempts'[x][m].state = "failed"
  BY FinalizeEffect
<1> HIDE DEF x, m
<1>2. CASE b # x
  BY <1>1, <1>2, SameBatchStays DEF OnlyAt
<1>3. CASE b = x /\ ~Owns(x, m)
  <2>1. \A n \in AttemptNos : attempts'[b][n].state = attempts[b][n].state
    BY <1>1, <1>3 DEF OnlyAt
  <2> QED
    BY <1>1, <1>3, <2>1, SameBatchStays
<1>4. CASE b = x /\ Owns(x, m)
  <2>1. batches[b].state \in BatchStates /\ batches'[b].state \in BatchStates
    BY DEF TypeInv, TypeOK, BatchRow
  <2>2. Phase(b) = "leased"
    BY <1>4, <2>1, PhaseValues DEF Owns
  <2>3. AcceptedNos(b) = {}
    BY <2>2 DEF AcceptedIsLatest
  <2>4. AcceptedNos(b)' = IF attempts'[x][m].state = "accepted" THEN {m} ELSE {}
    BY <1>1, <1>4, <2>3 DEF AcceptedNos, OnlyAt
  <2>5. CASE batches'[x].state \in {"seen", "dispatched"} /\ attempts'[x][m].state = "accepted"
    <3>1. Phase(b)' \in {"sent", "closed"}
      BY <1>4, <2>1, <2>5, PhaseValuesNext DEF Sent
    <3> QED
      BY <1>1, <1>4, <2>2, <2>3, <2>4, <2>5, <3>1 DEF LeaseStep
  <2>6. CASE batches'[x].state \in {"retry_wait", "dead_letter"} /\ attempts'[x][m].state = "failed"
    <3>1. Phase(b)' \in {"queued", "failed"}
      BY <1>4, <2>1, <2>6, PhaseValuesNext DEF Failed, OpenStates
    <3> QED
      BY <1>1, <1>4, <2>2, <2>3, <2>4, <2>6, <3>1 DEF LeaseStep, MayMove
  <2> QED
    BY <1>1, <1>4, <2>5, <2>6
<1> QED
  BY <1>2, <1>3, <1>4

\* What was accepted stays the only acceptance, and is not leased again.
LEMMA AcceptedStep ==
    ASSUME TypeInv, NEW b \in Batches, AcceptedIsLatest(b), LeaseStep(b)
    PROVE  AcceptedIsLatest(b)'
BY DEF AcceptedIsLatest, LeaseStep, MayMove

------------------------------------------------------------------------------
(* How a step is one of the four kinds.                                     *)

Loud(w) == \/ AcquireBatch(w) \/ FinalizeAttempt(w)
           \/ \E nonce \in {"none", "outstanding"} : HandOver(w, nonce)

LEMMA QuietOrLoud ==
    ASSUME TypeInv, EchoCapture, SingleActiveAttempt, NumberedFromZero, [Next]_vars,
           \A w \in Workers : ~Loud(w)
    PROVE  Quiet
<1>1. CASE UNCHANGED vars
  BY <1>1, SameRow, SameAttempt DEF vars, Quiet, QuietBatch
<1>2. CASE Tick \/ AgentStep \/ EchoStep \/ EndpointStep
  BY <1>2, TickQuiet, AgentQuiet, EchoQuiet, EndpointQuiet
<1>3. CASE OperatorStep \/ Crash \/ \E b \in Batches : TimerElapses(b)
  BY <1>3, OperatorQuiet
<1>4. CASE \E w \in Workers : RecoverStep(w) \/ DispatchStep(w)
  BY <1>4, RecoverQuiet, SweepQuiet DEF Loud
<1> QED
  BY <1>1, <1>2, <1>3, <1>4 DEF Next

LEMMA EveryStepIsALeaseStep ==
    ASSUME TypeInv, TypeInv', EchoCapture, SingleActiveAttempt, NumberedFromZero, [Next]_vars,
           NEW b \in Batches, AcceptedIsLatest(b)
    PROVE  LeaseStep(b)
<1>1. CASE \A w \in Workers : ~Loud(w)
  BY <1>1, QuietOrLoud, QuietMoves
<1>2. ASSUME NEW w \in Workers, Loud(w)
      PROVE  LeaseStep(b)
  BY <1>2, AcquireLeases, HandOverLeases, FinalizeLeases DEF Loud
<1> QED
  BY <1>1, <1>2

LEMMA NumberedStep ==
    ASSUME TypeInv, TypeInv', EchoCapture, SingleActiveAttempt, NumberedFromZero, [Next]_vars,
           \A b \in Batches : AcceptedIsLatest(b)
    PROVE  NumberedFromZero'
<1> SUFFICES ASSUME NEW b \in Batches, batches'[b].state = "none"
             PROVE  batches'[b].attempt = 0
  BY DEF NumberedFromZero
<1>1. batches[b].state \in BatchStates /\ batches'[b].state \in BatchStates
  BY DEF TypeInv, TypeOK, BatchRow
<1>2. LeaseStep(b) /\ Phase(b)' = "absent"
  BY <1>1, EveryStepIsALeaseStep, PhaseValuesNext
<1>3. Phase(b) = "absent" /\ batches'[b].attempt = batches[b].attempt
  BY <1>2 DEF LeaseStep, MayMove
<1> QED
  BY <1>1, <1>3, PhaseValues DEF NumberedFromZero

------------------------------------------------------------------------------
(* Passes and echoes: they keep the attempt they work on until they drop it. *)

KeepsItsAttempt(v) ==
    /\ worker'[v].pc \in HoldsAttempt =>
        /\ worker[v].pc \in HoldsAttempt
        /\ worker'[v].batch = worker[v].batch /\ worker'[v].attempt = worker[v].attempt
        /\ worker'[v].gen = worker[v].gen
        /\ worker'[v].pc \in {"acquired", "checked"} => worker[v].pc \in {"acquired", "checked"}
        /\ worker'[v].attested =>
              \/ worker[v].attested
              \/ attempts[worker[v].batch][worker[v].attempt].nonce = "consumed"
    /\ worker'[v].pc \notin HoldsAttempt /\ worker'[v].attested =>
        worker[v].pc \notin HoldsAttempt /\ worker[v].attested

LEMMA SameWorkerKeeps ==
    ASSUME NEW v \in Workers, worker'[v] = worker[v]
    PROVE  KeepsItsAttempt(v)
BY DEF KeepsItsAttempt

LEMMA NextCandidateHoldsNothing ==
    ASSUME TypeInv, NEW w \in Workers
    PROVE  /\ NextCandidate(w)[w].pc = "sweep" /\ ~NextCandidate(w)[w].attested
           /\ \A v \in Workers \ {w} : NextCandidate(w)[v] = worker[v]
<1>1. worker \in [Workers -> GoodWorkerRow]
  BY DEF TypeInv
<1> DEFINE row == [Idle EXCEPT !.pc = "sweep", !.visited = worker[w].visited]
<1>2. row.pc = "sweep" /\ ~row.attested
  BY DEF Idle
<1>3. NextCandidate(w) = [worker EXCEPT ![w] = row]
  BY DEF NextCandidate
<1> HIDE DEF row
<1> QED
  BY <1>1, <1>2, <1>3

LEMMA NextCandidateKeeps ==
    ASSUME TypeInv, NEW w \in Workers, worker' = NextCandidate(w), NEW v \in Workers
    PROVE  KeepsItsAttempt(v)
BY NextCandidateHoldsNothing DEF KeepsItsAttempt, HoldsAttempt

LEMMA SweepKeeps ==
    ASSUME TypeInv, NEW w \in Workers, NEW v \in Workers,
           RecoverStep(w) \/ (\E b \in Batches : Visit(w, b)) \/ EndSweep(w)
    PROVE  KeepsItsAttempt(v)
<1>0. worker \in [Workers -> WorkerRow]
  BY DEF TypeInv, TypeOK
<1> SUFFICES ASSUME NEW row, worker' = [worker EXCEPT ![w] = row],
                    row.pc \in {"idle", "retire", "report", "sweep", "acquire", "park"},
                    row.attested => worker[w].pc \notin HoldsAttempt /\ worker[w].attested
             PROVE  KeepsItsAttempt(v)
  <2>1. CASE RecoverLeases(w)
    <3> DEFINE row == [Idle EXCEPT !.pc = "retire", !.timedOut = {b \in Batches : AckOverdue(b)}]
    <3>1. row.pc = "retire" /\ ~row.attested /\ worker' = [worker EXCEPT ![w] = row]
      BY <2>1 DEF RecoverLeases, Idle
    <3> QED
      BY <3>1
  <2>2. CASE RetireSettled(w)
    <3> DEFINE row == [worker[w] EXCEPT !.pc = IF worker[w].timedOut = {} THEN "sweep" ELSE "report"]
    <3>1. row.pc \in {"sweep", "report"} /\ row.attested = worker[w].attested
      BY <1>0 DEF WorkerRow
    <3>2. worker' = [worker EXCEPT ![w] = row] /\ worker[w].pc \notin HoldsAttempt
      BY <2>2 DEF RetireSettled, At, HoldsAttempt
    <3> QED
      BY <3>1, <3>2
  <2>3. CASE ReportIncidents(w)
    BY <2>3, NextCandidateKeeps DEF ReportIncidents
  <2>4. ASSUME NEW b \in Batches, Visit(w, b)
        PROVE  \E row : /\ worker' = [worker EXCEPT ![w] = row]
                        /\ row.pc \in {"sweep", "acquire", "park"} /\ ~row.attested
    <3> DEFINE visit == [NextCandidate(w)[w] EXCEPT !.visited = @ \cup {b}]
    <3>1. visit \in WorkerRow /\ visit.pc = "sweep" /\ ~visit.attested
      <4>1. NextCandidate(w)[w] \in GoodWorkerRow
        BY NextCandidateType
      <4>2. NextCandidate(w)[w] \in WorkerRow
        BY <4>1 DEF GoodWorkerRow
      <4> QED
        BY <4>2, NextCandidateHoldsNothing DEF WorkerRow
    <3> DEFINE Gates == [{c \in batches[b].claims : claims[c] = "batched"}
                            -> {"batched", "deferred", "expired"}]
               kept(gate) == batches[b].claims \ {c \in DOMAIN gate : gate[c] # "batched"}
               acquire(gate) == [visit EXCEPT !.pc = "acquire", !.batch = b,
                                    !.gen = channel.generation,
                                    !.snap = {<<c, claims[c]>> : c \in kept(gate)}]
               park == [visit EXCEPT !.pc = "park", !.batch = b]
    <3>2. \E gate \in Gates, routed \in BOOLEAN :
            worker' = [worker EXCEPT ![w] =
              IF kept(gate) = {} THEN visit
              ELSE IF Bound /\ routed THEN acquire(gate)
              ELSE IF batches[b].state = "waiting_for_endpoint" THEN visit
              ELSE park]
      BY <2>4 DEF Visit
    <3>3. /\ park.pc = "park" /\ ~park.attested
          /\ \A gate : acquire(gate).pc = "acquire" /\ ~acquire(gate).attested
      BY <3>1 DEF WorkerRow
    <3> HIDE DEF visit, park, acquire, kept, Gates
    <3>4. PICK row : /\ worker' = [worker EXCEPT ![w] = row]
                     /\ row = visit \/ row = park \/ \E gate : row = acquire(gate)
      BY <3>2
    <3> QED
      BY <3>1, <3>3, <3>4
  <2>5. CASE EndSweep(w)
    BY <2>5 DEF EndSweep, Idle
  <2> QED
    BY <2>1, <2>2, <2>3, <2>4, <2>5 DEF RecoverStep
<1>1. v # w => worker'[v] = worker[v]
  BY <1>0
<1>2. worker'[w] = row
  BY <1>0
<1> QED
  BY <1>1, <1>2, SameWorkerKeeps DEF KeepsItsAttempt, HoldsAttempt

LEMMA DispatchKeeps ==
    ASSUME TypeInv, SingleActiveAttempt, NEW w \in Workers, NEW v \in Workers, DispatchStep(w),
           ~AcquireBatch(w)
    PROVE  KeepsItsAttempt(v)
<1>0. worker \in [Workers -> WorkerRow]
  BY DEF TypeInv, TypeOK
<1>1. CASE (\E b \in Batches : Visit(w, b)) \/ EndSweep(w)
  BY <1>1, SweepKeeps
<1>2. CASE Park(w) \/ SkipCandidate(w) \/ EmptyBatch(w) \/ StaleBinding(w) \/ SkipHandOver(w)
           \/ FinalizeAttempt(w)
  BY <1>2, NextCandidateKeeps
     DEF Park, SkipCandidate, EmptyBatch, StaleBinding, Abandon, SkipHandOver, FinalizeAttempt
<1>3. CASE CheckBinding(w)
  <2> DEFINE row == [worker[w] EXCEPT !.pc = "checked"]
  <2>1. /\ row.batch = worker[w].batch /\ row.attempt = worker[w].attempt
        /\ row.gen = worker[w].gen /\ row.attested = worker[w].attested
        /\ row.pc = "checked"
    BY <1>0 DEF WorkerRow
  <2>2. worker[w].pc = "acquired" /\ worker' = [worker EXCEPT ![w] = row]
    BY <1>3 DEF CheckBinding, At
  <2> HIDE DEF row
  <2> QED
    BY <1>0, <2>1, <2>2, SameWorkerKeeps DEF KeepsItsAttempt, HoldsAttempt
<1>4. ASSUME NEW nonce \in {"none", "outstanding"}, HandOver(w, nonce)
      PROVE  KeepsItsAttempt(v)
  BY <1>4, HandOverEffect, SameWorkerKeeps DEF KeepsItsAttempt, HoldsAttempt
<1>5. ASSUME NEW result \in Results, TransportReturns(w, result)
      PROVE  KeepsItsAttempt(v)
  <2> DEFINE seen == attempts[worker[w].batch][worker[w].attempt].nonce = "consumed"
             row == [worker[w] EXCEPT !.pc = "finalize", !.result = result, !.attested = seen]
  <2>1. /\ row.batch = worker[w].batch /\ row.attempt = worker[w].attempt
        /\ row.gen = worker[w].gen /\ row.pc = "finalize"
        /\ row.attested => attempts[worker[w].batch][worker[w].attempt].nonce = "consumed"
    BY <1>0 DEF WorkerRow
  <2>2. worker[w].pc = "inflight" /\ worker' = [worker EXCEPT ![w] = row]
    BY <1>5 DEF TransportReturns, At
  <2> HIDE DEF row, seen
  <2>3. CASE v = w
    BY <1>0, <2>1, <2>2, <2>3 DEF KeepsItsAttempt, HoldsAttempt
  <2>4. CASE v # w
    BY <1>0, <2>2, <2>4, SameWorkerKeeps
  <2> QED
    BY <2>3, <2>4
<1> QED
  BY <1>1, <1>2, <1>3, <1>4, <1>5 DEF DispatchStep

LEMMA WorkersKeepTheirAttempts ==
    ASSUME TypeInv, SingleActiveAttempt, [Next]_vars, NEW v \in Workers, ~AcquireBatch(v)
    PROVE  KeepsItsAttempt(v)
<1>1. CASE Tick \/ AgentStep
  <2>1. UNCHANGED worker
    BY <1>1 DEF Tick, TickGate, TickFreeze, TickAppend, AgentStep, SnoozeClaim, ConsumeClaim,
                ClaimAction, AckBatch, AckAfterAttestation
  <2> QED
    BY <2>1, SameWorkerKeeps
<1>2. CASE EchoStep \/ EndpointStep \/ OperatorStep
  <2>1. UNCHANGED worker
    BY <1>2 DEF EchoStep, EchoRead, EchoExpired, EchoCommit,
                EndpointStep, Takeover, EndpointLapses, EndpointRenews, EndpointRevoked,
                OperatorStep, DeleteChannel, RetryDeadLetter, RetryRead
  <2> QED
    BY <2>1, SameWorkerKeeps
<1>3. CASE Crash
  <2>1. worker \in [Workers -> WorkerRow] /\ Idle.pc = "idle" /\ ~Idle.attested
    BY DEF TypeInv, TypeOK, Idle
  <2>2. worker'[v] = worker[v] \/ worker'[v] = Idle
    BY <1>3, <2>1 DEF Crash, CrashDaemon, CrashOperator, CrashProcess
  <2> QED
    BY <2>1, <2>2, SameWorkerKeeps DEF KeepsItsAttempt, HoldsAttempt
<1>4. ASSUME NEW w \in Workers, RecoverStep(w) \/ DispatchStep(w)
      PROVE  KeepsItsAttempt(v)
  <2>1. CASE AcquireBatch(w)
    BY <2>1, AcquireEffect, SameWorkerKeeps
  <2> QED
    BY <1>4, <2>1, SweepKeeps, DispatchKeeps
<1>5. CASE (\E b \in Batches : TimerElapses(b)) \/ UNCHANGED vars
  BY <1>5, SameWorkerKeeps DEF TimerElapses, vars
<1> QED
  BY <1>1, <1>2, <1>3, <1>4, <1>5 DEF Next

------------------------------------------------------------------------------
(* Holders is preserved.  An attempt that was numbered keeps its binding    *)
(* generation, and its nonce changes by an answer or by being handed over.  *)

NonceStep(a, e) ==
    \/ e.nonce = a.nonce
    \/ a.nonce = "outstanding" /\ e.nonce \in {"consumed", "discarded", "expired"}

HandedOver(b, n) ==
    \E w \in Workers : Holds(w, b, n) /\ worker[w].pc = "checked" /\ worker'[w].pc = "inflight"

LEMMA NumbersGrow ==
    ASSUME TypeInv, TypeInv', EchoCapture, SingleActiveAttempt, NumberedFromZero, [Next]_vars,
           NEW b \in Batches, AcceptedIsLatest(b)
    PROVE  batches[b].attempt <= batches'[b].attempt
<1>1. batches[b].attempt \in 0..MaxAttempt
  BY DEF TypeInv, TypeOK, BatchRow
<1>2. batches'[b].attempt = batches[b].attempt \/ batches'[b].attempt = batches[b].attempt + 1
  BY EveryStepIsALeaseStep DEF LeaseStep
<1> QED
  BY <1>1, <1>2

LEMMA NumberedAttempts ==
    ASSUME TypeInv, EchoCapture, SingleActiveAttempt, NumberedFromZero, [Next]_vars,
           NEW b \in Batches, NEW n \in AttemptNos, n <= batches[b].attempt
    PROVE  /\ attempts'[b][n].gen = attempts[b][n].gen
           /\ NonceStep(attempts[b][n], attempts'[b][n]) \/ HandedOver(b, n)
<1>1. CASE \A w \in Workers : ~Loud(w)
  BY <1>1, QuietOrLoud DEF Quiet, Fades, NonceStep
<1>2. ASSUME NEW w \in Workers, AcquireBatch(w)
      PROVE  attempts'[b][n] = attempts[b][n]
  <2>1. PICK x, m : x = worker[w].batch /\ m = batches[x].attempt + 1
    OBVIOUS
  <2>2. OnlyAt(x, m) /\ x \in Batches
    BY <1>2, <2>1, AcquireEffect
  <2>3. batches[b].attempt \in 0..MaxAttempt
    BY DEF TypeInv, TypeOK, BatchRow
  <2>4. <<b, n>> # <<x, m>>
    BY <2>1, <2>3 DEF AttemptNos
  <2> QED
    BY <2>2, <2>4 DEF OnlyAt
<1>3. ASSUME NEW w \in Workers, NEW nonce, HandOver(w, nonce)
      PROVE  /\ attempts'[b][n].gen = attempts[b][n].gen
             /\ attempts'[b][n] = attempts[b][n] \/ HandedOver(b, n)
  <2>1. PICK x, m : x = worker[w].batch /\ m = worker[w].attempt
    OBVIOUS
  <2>2. /\ OnlyAt(x, m) /\ attempts'[x][m].gen = attempts[x][m].gen
        /\ worker[w].pc = "checked" /\ worker'[w].pc = "inflight"
    BY <1>3, <2>1, HandOverEffect
  <2>3. CASE <<b, n>> = <<x, m>>
    BY <2>1, <2>2, <2>3 DEF HandedOver, Holds, HoldsAttempt
  <2>4. CASE <<b, n>> # <<x, m>>
    BY <2>2, <2>4 DEF OnlyAt
  <2> QED
    BY <2>3, <2>4
<1>4. ASSUME NEW w \in Workers, FinalizeAttempt(w)
      PROVE  /\ attempts'[b][n].gen = attempts[b][n].gen
             /\ NonceStep(attempts[b][n], attempts'[b][n])
  <2>1. PICK x, m : x = worker[w].batch /\ m = worker[w].attempt
    OBVIOUS
  <2>2. /\ OnlyAt(x, m) /\ attempts'[x][m].gen = attempts[x][m].gen
        /\ NonceStep(attempts[x][m], attempts'[x][m])
    BY <1>4, <2>1, FinalizeEffect DEF NonceStep
  <2>3. CASE <<b, n>> = <<x, m>>
    BY <2>2, <2>3
  <2>4. CASE <<b, n>> # <<x, m>>
    BY <2>2, <2>4 DEF OnlyAt, NonceStep
  <2> QED
    BY <2>3, <2>4
<1> QED
  BY <1>1, <1>2, <1>3, <1>4 DEF Loud, NonceStep

LEMMA HeldStep ==
    ASSUME TypeInv, TypeInv', EchoCapture, SingleActiveAttempt, NumberedFromZero, Holders,
           [Next]_vars, \A b \in Batches : AcceptedIsLatest(b), NEW w \in Workers
    PROVE  HeldAttempt(w)'
<1> SUFFICES ASSUME NEW b \in Batches, NEW n \in AttemptNos, Holds(w, b, n)'
             PROVE  /\ n <= batches'[b].attempt
                    /\ attempts'[b][n].gen = worker'[w].gen
                    /\ worker'[w].pc \in {"acquired", "checked"} => attempts'[b][n].nonce = "none"
  BY DEF HeldAttempt
<1>1. CASE AcquireBatch(w)
  <2>1. PICK x, m : x = worker[w].batch /\ m = batches[x].attempt + 1
    OBVIOUS
  <2>2. b = x /\ n = m
    BY <1>1, <2>1, AcquireEffect DEF Holds
  <2> QED
    BY <1>1, <2>1, <2>2, AcquireEffect DEF AttemptNos
<1>2. CASE ~AcquireBatch(w)
  <2>1. KeepsItsAttempt(w) /\ worker'[w].pc \in HoldsAttempt
    BY <1>2, WorkersKeepTheirAttempts DEF Holds
  <2>2. Holds(w, b, n) /\ worker'[w].gen = worker[w].gen
    BY <2>1 DEF KeepsItsAttempt, Holds
  <2>3. n <= batches[b].attempt /\ attempts[b][n].gen = worker[w].gen
    BY <2>2 DEF Holders, HeldAttempt
  <2>4. n <= batches'[b].attempt
    <3>1. batches[b].attempt \in Nat /\ batches'[b].attempt \in Nat
      BY BoundsAssumption DEF TypeInv, TypeOK, BatchRow
    <3> QED
      BY <2>3, <3>1, NumbersGrow DEF AttemptNos
  <2>5. attempts'[b][n].gen = worker'[w].gen
    BY <2>2, <2>3, NumberedAttempts
  <2>6. ASSUME worker'[w].pc \in {"acquired", "checked"}
        PROVE  attempts'[b][n].nonce = "none"
    <3>1. attempts[b][n].nonce = "none"
      BY <2>1, <2>2, <2>6 DEF KeepsItsAttempt, Holders, HeldAttempt
    <3>2. ~HandedOver(b, n)
      BY <2>2, <2>6 DEF HandedOver, Holders, OneHolder
    <3> QED
      BY <2>3, <3>1, <3>2, NumberedAttempts DEF NonceStep
  <2> QED
    BY <2>4, <2>5, <2>6
<1> QED
  BY <1>1, <1>2

LEMMA OneHolderStep ==
    ASSUME TypeInv, EchoCapture, SingleActiveAttempt, Holders, [Next]_vars,
           NEW v \in Workers, NEW w \in Workers \ {v}
    PROVE  OneHolder(v, w)'
<1> SUFFICES ASSUME NEW b \in Batches, NEW n \in AttemptNos, Holds(v, b, n)', Holds(w, b, n)'
             PROVE  FALSE
  BY DEF OneHolder
<1>1. ASSUME NEW s \in Workers, NEW t \in Workers \ {s}, AcquireBatch(s),
             Holds(s, b, n)', Holds(t, b, n)'
      PROVE  FALSE
  <2>1. PICK x, m : x = worker[s].batch /\ m = batches[x].attempt + 1
    OBVIOUS
  <2>2. b = x /\ n = m
    BY <1>1, <2>1, AcquireEffect DEF Holds
  <2>3. Holds(t, b, n)
    BY <1>1, <2>1, AcquireEffect DEF Holds
  <2>4. n <= batches[b].attempt
    BY <2>3 DEF Holders, HeldAttempt
  <2>5. batches[b].attempt \in Nat
    BY BoundsAssumption DEF TypeInv, TypeOK, BatchRow
  <2> QED
    BY <2>1, <2>2, <2>4, <2>5
<1>2. CASE ~AcquireBatch(v) /\ ~AcquireBatch(w)
  <2>1. Holds(v, b, n) /\ Holds(w, b, n)
    BY <1>2, WorkersKeepTheirAttempts DEF KeepsItsAttempt, Holds
  <2> QED
    BY <2>1 DEF Holders, OneHolder
<1> QED
  BY <1>1, <1>2

LEMMA EchoNonceStep ==
    ASSUME TypeInv, TypeInv', EchoCapture, SingleActiveAttempt, NumberedFromZero, Holders,
           [Next]_vars, \A b \in Batches : AcceptedIsLatest(b)
    PROVE  EchoOfIssuedNonce'
<1> SUFFICES ASSUME NEW b \in Batches, NEW n \in AttemptNos,
                    echo'.pc = "read", echo'.batch = b, echo'.attempt = n
             PROVE  n <= batches'[b].attempt /\ attempts'[b][n].nonce # "none"
  BY DEF EchoOfIssuedNonce
<1>1. CASE echo' = echo
  <2>1. n <= batches[b].attempt /\ attempts[b][n].nonce # "none"
    BY <1>1 DEF Holders, EchoOfIssuedNonce
  <2>2. ~HandedOver(b, n)
    BY <2>1 DEF HandedOver, Holders, HeldAttempt
  <2>3. batches[b].attempt \in Nat /\ batches'[b].attempt \in Nat
    BY BoundsAssumption DEF TypeInv, TypeOK, BatchRow
  <2>4. n <= batches'[b].attempt
    BY <2>1, <2>3, NumbersGrow DEF AttemptNos
  <2> QED
    BY <2>1, <2>2, <2>4, NumberedAttempts DEF NonceStep
<1>2. ASSUME NEW x \in Batches, NEW m \in AttemptNos, EchoRead(x, m)
      PROVE  n <= batches'[b].attempt /\ attempts'[b][n].nonce # "none"
  <2>1. /\ x = b /\ m = n /\ n = batches[b].attempt
        /\ attempts[b][n].nonce = "outstanding" /\ UNCHANGED <<batches, attempts>>
    BY <1>2 DEF EchoRead, EchoAccepted
  <2> QED
    BY <2>1 DEF AttemptNos
<1>3. CASE echo' = NoEcho
  BY <1>3 DEF NoEcho
<1> QED
  BY <1>1, <1>2, <1>3, EchoMoves

------------------------------------------------------------------------------
(* Receipts.  None is ever removed; only finalizing writes the transport's, *)
(* and a nonce is consumed together with the host's.                        *)

LEMMA ReceiptsGrow ==
    ASSUME [Next]_vars
    PROVE  receipts \subseteq receipts'
<1>1. CASE Tick \/ AgentStep
  BY <1>1 DEF Tick, TickGate, TickFreeze, TickAppend, AgentStep, SnoozeClaim, ConsumeClaim,
              ClaimAction, AckBatch, AckAfterAttestation
<1>2. CASE EchoStep
  BY <1>2 DEF EchoStep, EchoRead, EchoExpired, EchoCommit
<1>3. CASE EndpointStep \/ OperatorStep \/ Crash
  BY <1>3 DEF EndpointStep, Takeover, EndpointLapses, EndpointRenews, EndpointRevoked,
              OperatorStep, DeleteChannel, RetryDeadLetter, RetryRead,
              Crash, CrashDaemon, CrashOperator, CrashProcess
<1>4. ASSUME NEW w \in Workers, RecoverStep(w)
      PROVE  receipts \subseteq receipts'
  BY <1>4 DEF RecoverStep, RecoverLeases, RetireSettled, ReportIncidents
<1>5. ASSUME NEW w \in Workers, DispatchStep(w)
      PROVE  receipts \subseteq receipts'
  BY <1>5 DEF DispatchStep, Visit, Park, AcquireBatch, SkipCandidate, EmptyBatch, StaleBinding,
              Abandon, CheckBinding, SkipHandOver, HandOver, TransportReturns,
              FinalizeAttempt, EndSweep
<1>6. CASE (\E b \in Batches : TimerElapses(b)) \/ UNCHANGED vars
  BY <1>6 DEF TimerElapses, vars
<1> QED
  BY <1>1, <1>2, <1>3, <1>4, <1>5, <1>6 DEF Next

LEMMA TransportReceipts ==
    ASSUME [Next]_vars, NEW r \in receipts' \ receipts, r.stage = "transport_accepted"
    PROVE  \E w \in Workers : FinalizeAttempt(w)
<1>1. ~Tick
  BY DEF Tick, TickGate, TickFreeze, TickAppend
<1>2. ~AgentStep
  BY DEF AgentStep, SnoozeClaim, ConsumeClaim, ClaimAction, AckBatch, AckAfterAttestation, AgentSeen
<1>3. ~EchoStep
  <2>1. ASSUME EchoCommit
        PROVE  FALSE
    <3>1. r = [batch |-> echo.batch, attempt |-> echo.attempt, stage |-> "host_attested"]
      BY <2>1 DEF EchoCommit
    <3> QED
      BY <3>1
  <2> QED
    BY <2>1 DEF EchoStep, EchoRead, EchoExpired
<1>4. ~EndpointStep /\ ~OperatorStep /\ ~Crash
  BY DEF EndpointStep, Takeover, EndpointLapses, EndpointRenews, EndpointRevoked,
         OperatorStep, DeleteChannel, RetryDeadLetter, RetryRead,
         Crash, CrashDaemon, CrashOperator, CrashProcess
<1>5. ASSUME NEW w \in Workers, RecoverStep(w)
      PROVE  FALSE
  BY <1>5 DEF RecoverStep, RecoverLeases, RetireSettled, ReportIncidents
<1>6. ASSUME NEW w \in Workers, DispatchStep(w)
      PROVE  FinalizeAttempt(w)
  BY <1>6 DEF DispatchStep, Visit, Park, AcquireBatch, SkipCandidate, EmptyBatch, StaleBinding,
              Abandon, CheckBinding, SkipHandOver, HandOver, TransportReturns, EndSweep
<1>7. ~(\E b \in Batches : TimerElapses(b)) /\ ~(UNCHANGED vars)
  BY DEF TimerElapses, vars
<1> QED
  BY <1>1, <1>2, <1>3, <1>4, <1>5, <1>6, <1>7 DEF Next

LEMMA OnlyEchoConsumes ==
    ASSUME TypeInv, EchoCapture, SingleActiveAttempt, [Next]_vars,
           NEW b \in Batches, NEW n \in AttemptNos,
           attempts'[b][n].nonce = "consumed", attempts[b][n].nonce # "consumed"
    PROVE  EchoCommit
<1>0. attempts[b][n] \in AttemptRow
  BY DEF TypeInv, TypeOK
<1>1. ASSUME NEW A, NEW s \in {"discarded", "expired"}
      PROVE  WithNonces(A, s)[b][n].nonce # "consumed"
  BY <1>0 DEF WithNonces, AttemptRow
<1>2. attempts' # attempts
  OBVIOUS
<1>3. ~Tick /\ ~AgentStep
  BY <1>2 DEF Tick, TickGate, TickFreeze, TickAppend, AgentStep, SnoozeClaim, ConsumeClaim,
              ClaimAction, AckBatch, AckAfterAttestation
<1>4. EchoStep => EchoCommit
  BY <1>1 DEF EchoStep, EchoRead, EchoExpired
<1>5. ~EndpointStep
  BY <1>1, <1>2 DEF EndpointStep, Takeover, EndpointLapses, EndpointRenews, EndpointRevoked
<1>6. ~DeleteChannel
  <2> SUFFICES ASSUME DeleteChannel
               PROVE  FALSE
    OBVIOUS
  <2> DEFINE row == WithNonces(Outstanding, "discarded")[b][n]
  <2>1. attempts'[b][n] = [row EXCEPT !.state = IF @ = "leased" THEN "failed" ELSE @]
    BY DEF DeleteChannel
  <2>2. row \in AttemptRow /\ row.nonce # "consumed"
    BY <1>1, WithNoncesType
  <2> HIDE DEF row
  <2> QED
    BY <2>1, <2>2 DEF AttemptRow
<1>7. ~OperatorStep /\ ~Crash
  BY <1>2, <1>6 DEF OperatorStep, RetryDeadLetter, RetryRead, Crash, CrashDaemon, CrashOperator,
                    CrashProcess
<1>8. ASSUME NEW w \in Workers
      PROVE  ~RecoverStep(w)
  <2>1. ASSUME RecoverLeases(w)
        PROVE  FALSE
    <3>1. PICK lapsed : attempts'[b][n] = RecoveredAttempt(b, n, lapsed)
      BY <2>1 DEF RecoverLeases
    <3>2. RecoveredAttempt(b, n, lapsed).nonce # "consumed"
      BY <1>0 DEF RecoveredAttempt, AttemptRow
    <3> QED
      BY <3>1, <3>2
  <2> QED
    BY <1>2, <2>1 DEF RecoverStep, RetireSettled, ReportIncidents
<1>9. ASSUME NEW w \in Workers
      PROVE  ~DispatchStep(w)
  <2>1. ~AcquireBatch(w)
    BY AcquireEffect DEF OnlyAt
  <2>2. ASSUME NEW nonce, HandOver(w, nonce)
        PROVE  FALSE
    BY <2>2, HandOverEffect DEF OnlyAt
  <2>3. ~FinalizeAttempt(w)
    BY FinalizeEffect DEF OnlyAt
  <2>4. ~EmptyBatch(w) /\ ~StaleBinding(w)
    <3> SUFFICES ASSUME EmptyBatch(w) \/ StaleBinding(w)
                 PROVE  FALSE
      OBVIOUS
    <3> DEFINE x == worker[w].batch
               m == worker[w].attempt
               row == [attempts[x][m] EXCEPT !.state = IF attempts[x][m].state = "leased"
                                              THEN "failed" ELSE attempts[x][m].state]
    <3>1. /\ x \in Batches /\ m \in AttemptNos
          /\ attempts \in [Batches -> [AttemptNos -> AttemptRow]]
      BY DEF EmptyBatch, StaleBinding, At, TypeInv, TypeOK, GoodWorkerRow, HoldsBatch, HoldsAttempt
    <3>2. row.nonce = attempts[x][m].nonce
      BY <3>1 DEF AttemptRow
    <3>3. attempts' = [attempts EXCEPT ![x][m] = row]
      BY DEF EmptyBatch, StaleBinding, Abandon
    <3> HIDE DEF row, x, m
    <3> QED
      BY <3>1, <3>2, <3>3
  <2>5. ~(\E x \in Batches : Visit(w, x)) /\ ~Park(w) /\ ~SkipCandidate(w) /\ ~CheckBinding(w)
        /\ ~SkipHandOver(w) /\ ~EndSweep(w) /\ ~(\E result \in Results : TransportReturns(w, result))
    BY <1>2 DEF Visit, Park, SkipCandidate, CheckBinding, SkipHandOver, EndSweep, TransportReturns
  <2> QED
    BY <2>1, <2>2, <2>3, <2>4, <2>5 DEF DispatchStep
<1>10. ~(\E x \in Batches : TimerElapses(x)) /\ ~(UNCHANGED vars)
  BY <1>2 DEF TimerElapses, vars
<1> QED
  BY <1>3, <1>4, <1>5, <1>7, <1>8, <1>9, <1>10 DEF Next

LEMMA AttestationStep ==
    ASSUME TypeInv, EchoCapture, SingleActiveAttempt, AttestationIsRecorded, [Next]_vars
    PROVE  AttestationIsRecorded'
<1>1. ASSUME NEW b \in Batches, NEW n \in AttemptNos, Attested(b, n)
      PROVE  Attested(b, n)'
  BY <1>1, ReceiptsGrow DEF Attested
<1>2. ASSUME NEW b \in Batches, NEW n \in AttemptNos, attempts'[b][n].nonce = "consumed"
      PROVE  Attested(b, n)'
  <2>1. CASE attempts[b][n].nonce = "consumed"
    BY <1>1, <2>1 DEF AttestationIsRecorded
  <2>2. CASE attempts[b][n].nonce # "consumed"
    <3>1. EchoCommit
      BY <1>2, <2>2, OnlyEchoConsumes
    <3>2. PICK held \in BOOLEAN :
            LET x == echo.batch
                m == echo.attempt
                fenced == held /\ attempts[x][m].gen = channel.generation
            IN /\ attempts' = IF fenced THEN WithNonces({<<x, m>>}, "consumed") ELSE attempts
               /\ receipts' = IF fenced /\ attempts[x][m].nonce = "outstanding"
                              THEN receipts \cup
                                   {[batch |-> x, attempt |-> m, stage |-> "host_attested"]}
                              ELSE receipts
      BY <3>1 DEF EchoCommit
    <3>3. /\ attempts' = WithNonces({<<echo.batch, echo.attempt>>}, "consumed")
          /\ held /\ attempts[echo.batch][echo.attempt].gen = channel.generation
      BY <1>2, <2>2, <3>2
    <3>4. b = echo.batch /\ n = echo.attempt /\ attempts[b][n].nonce = "outstanding"
      BY <1>2, <2>2, <3>3 DEF WithNonces
    <3> QED
      BY <3>2, <3>3, <3>4 DEF Attested
  <2> QED
    BY <2>1, <2>2
<1>3. ASSUME NEW b \in Batches, NEW n \in AttemptNos, NEW w \in Workers,
             Holds(w, b, n)', worker'[w].attested
      PROVE  Attested(b, n)'
  <2>1. CASE AcquireBatch(w)
    <3>1. worker'[w].attested = worker[w].attested
      BY <2>1, AcquireEffect
    <3>2. worker[w].pc \notin HoldsAttempt
      BY <2>1 DEF AcquireBatch, At, HoldsAttempt
    <3> QED
      BY <1>3, <3>1, <3>2 DEF AttestationIsRecorded
  <2>2. CASE ~AcquireBatch(w)
    <3>1. /\ Holds(w, b, n)
          /\ worker[w].attested \/ attempts[b][n].nonce = "consumed"
      BY <1>3, <2>2, WorkersKeepTheirAttempts DEF KeepsItsAttempt, Holds
    <3> QED
      BY <1>1, <3>1 DEF AttestationIsRecorded
  <2> QED
    BY <2>1, <2>2
<1>4. ASSUME NEW w \in Workers, worker'[w].attested
      PROVE  worker'[w].pc \in HoldsAttempt
  <2>1. CASE AcquireBatch(w)
    BY <2>1, AcquireEffect DEF HoldsAttempt
  <2>2. CASE ~AcquireBatch(w)
    BY <1>4, <2>2, WorkersKeepTheirAttempts DEF KeepsItsAttempt, AttestationIsRecorded
  <2> QED
    BY <2>1, <2>2
<1> QED
  BY <1>2, <1>3, <1>4 DEF AttestationIsRecorded

LEMMA AcceptanceIsKept ==
    ASSUME TypeInv, TypeInv', EchoCapture, SingleActiveAttempt, NumberedFromZero, [Next]_vars,
           NEW b \in Batches, AcceptedIsLatest(b), NEW n \in AttemptNos,
           attempts[b][n].state = "accepted"
    PROVE  attempts'[b][n].state = "accepted"
<1>1. AcceptedNos(b) \subseteq AcceptedNos(b)'
  BY EveryStepIsALeaseStep DEF LeaseStep
<1> QED
  BY <1>1 DEF AcceptedNos

\* Only the pass that finalizes an attempt it owns accepts it, on an answer of the
\* transport or an attestation.
LEMMA AcceptanceIsFinalized ==
    ASSUME TypeInv, EchoCapture, SingleActiveAttempt, NumberedFromZero, [Next]_vars,
           NEW b \in Batches, NEW n \in AttemptNos,
           attempts[b][n].state # "accepted", attempts'[b][n].state = "accepted"
    PROVE  \E w \in Workers :
              /\ Holds(w, b, n)
              /\ \/ worker[w].attested
                 \/ [batch |-> b, attempt |-> n, stage |-> "transport_accepted"] \in receipts'
<1>1. ~(\A w \in Workers : ~Loud(w))
  BY QuietOrLoud DEF Quiet, Fades
<1>2. PICK w \in Workers : Loud(w)
  BY <1>1
<1>3. ~AcquireBatch(w)
  BY AcquireEffect DEF OnlyAt
<1>4. ~(\E nonce \in {"none", "outstanding"} : HandOver(w, nonce))
  BY HandOverEffect DEF OnlyAt
<1>5. PICK x, m : x = worker[w].batch /\ m = worker[w].attempt
  OBVIOUS
<1>6. /\ OnlyAt(x, m) /\ worker[w].pc = "finalize"
      /\ ~Owns(x, m) => attempts'[x][m].state = attempts[x][m].state
      /\ Owns(x, m) =>
            \/ worker[w].attested
            \/ /\ worker[w].result = "accepted"
               /\ receipts' = receipts \cup
                     {[batch |-> x, attempt |-> m, stage |-> "transport_accepted"]}
            \/ attempts'[x][m].state = "failed"
  BY <1>2, <1>3, <1>4, <1>5, FinalizeEffect DEF Loud
<1>7. b = x /\ n = m /\ Owns(x, m)
  BY <1>6 DEF OnlyAt
<1>8. Holds(w, b, n)
  BY <1>5, <1>6, <1>7 DEF Holds, HoldsAttempt
<1> QED
  BY <1>6, <1>7, <1>8

LEMMA EvidenceStep ==
    ASSUME TypeInv, TypeInv', EchoCapture, SingleActiveAttempt, NumberedFromZero, [Next]_vars,
           Evidence, \A b \in Batches : AcceptedIsLatest(b)'
    PROVE  EvidenceMatchesAttempt'
<1> DEFINE Has(b, n, stage) == [batch |-> b, attempt |-> n, stage |-> stage]
<1> SUFFICES ASSUME NEW b \in Batches, NEW n \in AttemptNos
             PROVE  /\ attempts'[b][n].state = "accepted" =>
                         /\ n = batches'[b].attempt
                         /\ \/ Has(b, n, "transport_accepted") \in receipts'
                            \/ Has(b, n, "host_attested") \in receipts'
                    /\ Has(b, n, "transport_accepted") \in receipts' =>
                         attempts'[b][n].state = "accepted"
  BY DEF EvidenceMatchesAttempt
<1>1. ASSUME attempts'[b][n].state = "accepted"
      PROVE  n = batches'[b].attempt
  BY <1>1 DEF AcceptedIsLatest, AcceptedNos
<1>2. ASSUME attempts'[b][n].state = "accepted"
      PROVE  \/ Has(b, n, "transport_accepted") \in receipts'
             \/ Has(b, n, "host_attested") \in receipts'
  <2>1. CASE attempts[b][n].state = "accepted"
    BY <2>1, ReceiptsGrow DEF Evidence, EvidenceMatchesAttempt
  <2>2. CASE attempts[b][n].state # "accepted"
    <3>1. PICK w \in Workers :
            /\ Holds(w, b, n)
            /\ worker[w].attested \/ Has(b, n, "transport_accepted") \in receipts'
      BY <1>2, <2>2, AcceptanceIsFinalized
    <3>2. worker[w].attested => Has(b, n, "host_attested") \in receipts
      BY <3>1 DEF Evidence, AttestationIsRecorded, Attested
    <3> QED
      BY <3>1, <3>2, ReceiptsGrow
  <2> QED
    BY <2>1, <2>2
<1>3. ASSUME Has(b, n, "transport_accepted") \in receipts'
      PROVE  attempts'[b][n].state = "accepted"
  <2>1. CASE Has(b, n, "transport_accepted") \in receipts
    <3>1. attempts[b][n].state = "accepted"
      BY <2>1 DEF Evidence, EvidenceMatchesAttempt
    <3> QED
      BY <3>1, AcceptanceIsKept DEF Evidence
  <2>2. CASE Has(b, n, "transport_accepted") \notin receipts
    <3>1. PICK w \in Workers : FinalizeAttempt(w)
      BY <1>3, <2>2, TransportReceipts
    <3>2. PICK x, m : x = worker[w].batch /\ m = worker[w].attempt
      OBVIOUS
    <3>3. /\ ~Owns(x, m) => receipts' = receipts
          /\ receipts' = receipts \/ receipts' = receipts \cup {Has(x, m, "transport_accepted")}
          /\ Owns(x, m) /\ worker[w].result = "accepted" => attempts'[x][m].state = "accepted"
          /\ worker[w].result # "accepted" => receipts' = receipts
      BY <3>1, <3>2, FinalizeEffect
    <3>4. Has(b, n, "transport_accepted") = Has(x, m, "transport_accepted")
      BY <1>3, <2>2, <3>3
    <3>5. b = x /\ n = m
      BY <3>4
    <3> QED
      BY <1>3, <2>2, <3>3, <3>5
  <2> QED
    BY <2>1, <2>2
<1> QED
  BY <1>1, <1>2, <1>3

\* How a batch becomes seen.
LEMMA NewlySeen ==
    ASSUME TypeInv, EchoCapture, SingleActiveAttempt, NumberedFromZero, [Next]_vars,
           NEW b \in Batches, batches[b].state # "seen", batches'[b].state = "seen"
    PROVE  \/ SettledAsSeen(b)
           \/ /\ batches'[b].attempt \in AttemptNos
              /\ attempts'[b][batches'[b].attempt].state = "accepted"
<1>1. CASE \A w \in Workers : ~Loud(w)
  BY <1>1, QuietOrLoud DEF Quiet, QuietBatch, RowStep, OpenStates
<1>2. ASSUME NEW w \in Workers, Loud(w)
      PROVE  /\ batches'[b].attempt \in AttemptNos
             /\ attempts'[b][batches'[b].attempt].state = "accepted"
  <2>1. ~AcquireBatch(w)
    BY AcquireEffect DEF OnlyAt
  <2>2. ~(\E nonce \in {"none", "outstanding"} : HandOver(w, nonce))
    BY HandOverEffect
  <2>3. PICK x, m : x = worker[w].batch /\ m = worker[w].attempt
    OBVIOUS
  <2>4. /\ OnlyAt(x, m) /\ m \in AttemptNos
        /\ ~Owns(x, m) => UNCHANGED batches
        /\ Owns(x, m) =>
              /\ batches'[x].attempt = m
              /\ \/ attempts'[x][m].state = "accepted"
                 \/ batches'[x].state \in {"retry_wait", "dead_letter"}
    BY <1>2, <2>1, <2>2, <2>3, FinalizeEffect DEF Loud
  <2>5. b = x /\ Owns(x, m)
    BY <2>4 DEF OnlyAt
  <2> QED
    BY <2>4, <2>5
<1> QED
  BY <1>1, <1>2

LEMMA SeenStep ==
    ASSUME TypeInv, TypeInv', EchoCapture, SingleActiveAttempt, NumberedFromZero, Holders,
           [Next]_vars, \A b \in Batches : AcceptedIsLatest(b), SeenByCurrentAttempt
    PROVE  SeenByCurrentAttempt'
<1> SUFFICES ASSUME NEW b \in Batches, batches'[b].state = "seen"
             PROVE  \E n \in AttemptNos :
                       /\ n = batches'[b].attempt
                       /\ attempts'[b][n].state = "accepted" \/ attempts'[b][n].nonce # "none"
  BY DEF SeenByCurrentAttempt
<1>1. ASSUME NEW n \in AttemptNos, n <= batches[b].attempt, attempts[b][n].nonce # "none"
      PROVE  attempts'[b][n].nonce # "none"
  <2>1. ~HandedOver(b, n)
    BY <1>1 DEF HandedOver, Holders, HeldAttempt
  <2> QED
    BY <1>1, <2>1, NumberedAttempts DEF NonceStep
<1>2. batches[b].attempt \in Nat /\ batches[b].state \in BatchStates
  BY BoundsAssumption DEF TypeInv, TypeOK, BatchRow
<1>3. CASE batches[b].state = "seen"
  <2>1. Phase(b) = "closed"
    BY <1>2, <1>3, PhaseValues
  <2>2. batches'[b].attempt = batches[b].attempt
    BY <2>1, EveryStepIsALeaseStep DEF LeaseStep
  <2>3. PICK n \in AttemptNos :
            /\ n = batches[b].attempt
            /\ attempts[b][n].state = "accepted" \/ attempts[b][n].nonce # "none"
    BY <1>3 DEF SeenByCurrentAttempt
  <2>4. attempts'[b][n].state = "accepted" \/ attempts'[b][n].nonce # "none"
    BY <1>1, <1>2, <2>3, AcceptanceIsKept
  <2> QED
    BY <2>2, <2>3, <2>4
<1>4. CASE batches[b].state # "seen" /\ SettledAsSeen(b)
  <2>1. PICK n \in AttemptNos :
            /\ n = batches[b].attempt /\ batches'[b].attempt = n
            /\ \/ attempts[b][n].state = "accepted"
               \/ echo.pc = "read" /\ echo.batch = b /\ echo.attempt = n
    BY <1>4 DEF SettledAsSeen
  <2>2. attempts[b][n].state = "accepted" \/ attempts[b][n].nonce # "none"
    BY <2>1 DEF Holders, EchoOfIssuedNonce
  <2>3. attempts'[b][n].state = "accepted" \/ attempts'[b][n].nonce # "none"
    BY <1>1, <1>2, <2>1, <2>2, AcceptanceIsKept
  <2> QED
    BY <2>1, <2>3
<1> QED
  BY <1>3, <1>4, NewlySeen

\* The binding changes only in steps that discard every nonce.
LEMMA BindingChangesDiscard ==
    ASSUME TypeInv, [Next]_vars
    PROVE  \/ channel'.generation = channel.generation /\ channel'.deleted = channel.deleted
           \/ \A b \in Batches, n \in AttemptNos : attempts'[b][n].nonce # "outstanding"
<1>0. /\ channel \in [generation: Generations, live: BOOLEAN, deleted: BOOLEAN]
      /\ attempts \in [Batches -> [AttemptNos -> AttemptRow]]
  BY DEF TypeInv, TypeOK
<1>1. ASSUME NEW b \in Batches, NEW n \in AttemptNos
      PROVE  WithNonces(Outstanding, "discarded")[b][n].nonce # "outstanding"
  BY <1>0 DEF WithNonces, Outstanding, AttemptRow
<1>2. CASE EndpointStep
  BY <1>0, <1>1, <1>2 DEF EndpointStep, Takeover, EndpointLapses, EndpointRenews, EndpointRevoked
<1>3. CASE DeleteChannel
  BY <1>3, ClosedByDeletion DEF Closed, ClosedAttempt
<1>4. CASE Tick \/ AgentStep
  BY <1>4 DEF Tick, TickGate, TickFreeze, TickAppend, AgentStep, SnoozeClaim, ConsumeClaim,
              ClaimAction, AckBatch, AckAfterAttestation
<1>5. CASE EchoStep
  BY <1>5 DEF EchoStep, EchoRead, EchoExpired, EchoCommit
<1>6. CASE OperatorStep \/ Crash
  BY <1>3, <1>6 DEF OperatorStep, RetryDeadLetter, RetryRead, Crash, CrashDaemon, CrashOperator,
                    CrashProcess
<1>7. ASSUME NEW w \in Workers, RecoverStep(w)
      PROVE  channel' = channel
  BY <1>7 DEF RecoverStep, RecoverLeases, RetireSettled, ReportIncidents
<1>8. ASSUME NEW w \in Workers, DispatchStep(w)
      PROVE  channel' = channel
  BY <1>8 DEF DispatchStep, Visit, Park, AcquireBatch, SkipCandidate, EmptyBatch, StaleBinding,
              Abandon, CheckBinding, SkipHandOver, HandOver, TransportReturns, FinalizeAttempt,
              EndSweep
<1>9. CASE (\E b \in Batches : TimerElapses(b)) \/ UNCHANGED vars
  BY <1>9 DEF TimerElapses, vars
<1> QED
  BY <1>2, <1>3, <1>4, <1>5, <1>6, <1>7, <1>8, <1>9 DEF Next

LEMMA OutstandingStep ==
    ASSUME TypeInv, EchoCapture, SingleActiveAttempt, NumberedFromZero, Holders,
           [Next]_vars, OutstandingNonceIsCurrent
    PROVE  OutstandingNonceIsCurrent'
<1> SUFFICES ASSUME channel'.generation = channel.generation, channel'.deleted = channel.deleted,
                    NEW b \in Batches, NEW n \in AttemptNos,
                    attempts'[b][n].nonce = "outstanding"
             PROVE  ~channel.deleted /\ attempts'[b][n].gen = channel.generation
  BY BindingChangesDiscard DEF OutstandingNonceIsCurrent
<1>1. CASE \A w \in Workers : ~Loud(w)
  BY <1>1, QuietOrLoud DEF Quiet, Fades, OutstandingNonceIsCurrent
<1>2. ASSUME NEW w \in Workers, AcquireBatch(w)
      PROVE  attempts'[b][n] = attempts[b][n]
  BY <1>2, AcquireEffect DEF OnlyAt
<1>3. ASSUME NEW w \in Workers, FinalizeAttempt(w)
      PROVE  attempts[b][n].nonce = "outstanding" /\ attempts'[b][n].gen = attempts[b][n].gen
  BY <1>3, FinalizeEffect DEF OnlyAt
<1>4. ASSUME NEW w \in Workers, NEW nonce, HandOver(w, nonce), attempts'[b][n] # attempts[b][n]
      PROVE  ~channel.deleted /\ attempts'[b][n].gen = channel.generation
  <2>1. PICK x, m : x = worker[w].batch /\ m = worker[w].attempt
    OBVIOUS
  <2>2. /\ OnlyAt(x, m) /\ DispatchFence(w) /\ worker[w].pc = "checked"
        /\ attempts'[x][m].gen = attempts[x][m].gen
    BY <1>4, <2>1, HandOverEffect
  <2>3. b = x /\ n = m
    BY <1>4, <2>2 DEF OnlyAt
  <2>4. attempts[b][n].gen = worker[w].gen
    BY <2>1, <2>2, <2>3 DEF Holders, HeldAttempt, Holds, HoldsAttempt
  <2> QED
    BY <2>2, <2>3, <2>4 DEF DispatchFence
<1> QED
  BY <1>1, <1>2, <1>3, <1>4 DEF Loud, OutstandingNonceIsCurrent

------------------------------------------------------------------------------
(* The invariant, and what follows from it.                                 *)

OutboxInv == NumberedFromZero /\ Holders /\ Evidence

LEMMA OutboxInvInit == Init => OutboxInv
<1> SUFFICES ASSUME Init
             PROVE  OutboxInv
  OBVIOUS
<1>1. /\ \A b \in Batches : batches[b].state = "none" /\ batches[b].attempt = 0
      /\ \A b \in Batches, n \in AttemptNos :
            attempts[b][n].state = "none" /\ attempts[b][n].nonce = "none"
      /\ \A w \in Workers : worker[w].pc = "idle" /\ ~worker[w].attested
      /\ echo.pc = "idle" /\ receipts = {}
  BY DEF Init, NoRow, NoAttempt, Idle, NoEcho
<1>2. NumberedFromZero
  BY <1>1 DEF NumberedFromZero
<1>3. Holders
  BY <1>1 DEF Holders, HeldAttempt, OneHolder, Holds, HoldsAttempt, EchoOfIssuedNonce
<1>4. AttestationIsRecorded /\ \A b \in Batches : AcceptedIsLatest(b)
  BY <1>1 DEF AttestationIsRecorded, Holds, HoldsAttempt, AcceptedIsLatest, AcceptedNos
<1>5. EvidenceMatchesAttempt /\ SeenByCurrentAttempt /\ OutstandingNonceIsCurrent
  BY <1>1 DEF EvidenceMatchesAttempt, SeenByCurrentAttempt, OutstandingNonceIsCurrent
<1> QED
  BY <1>2, <1>3, <1>4, <1>5 DEF OutboxInv, Evidence

LEMMA OutboxInvStep ==
    ASSUME TypeInv, TypeInv', EchoCapture, SingleActiveAttempt, OutboxInv, [Next]_vars
    PROVE  OutboxInv'
<1>1. NumberedFromZero /\ Holders /\ AttestationIsRecorded /\ \A b \in Batches : AcceptedIsLatest(b)
  BY DEF OutboxInv, Evidence
<1>2. NumberedFromZero'
  BY <1>1, NumberedStep
<1>3. Holders'
  BY <1>1, HeldStep, OneHolderStep, EchoNonceStep DEF Holders
<1>4. \A b \in Batches : AcceptedIsLatest(b)'
  BY <1>1, EveryStepIsALeaseStep, AcceptedStep
<1>5. AttestationIsRecorded'
  BY <1>1, AttestationStep
<1>6. EvidenceMatchesAttempt'
  BY <1>1, <1>4, EvidenceStep DEF OutboxInv
<1>7. SeenByCurrentAttempt'
  BY <1>1, SeenStep DEF OutboxInv, Evidence
<1>8. OutstandingNonceIsCurrent'
  BY <1>1, OutstandingStep DEF OutboxInv, Evidence
<1> QED
  BY <1>2, <1>3, <1>4, <1>5, <1>6, <1>7, <1>8 DEF OutboxInv, Evidence

LEMMA OutboxInvariant == Spec => [](EchoCapture /\ OutboxInv)
<1>1. TypeInv /\ TypeInv' /\ EchoCapture /\ SingleActiveAttempt /\ OutboxInv /\ [Next]_vars
        => OutboxInv'
  BY OutboxInvStep
<1> QED
  BY <1>1, OutboxInvInit, TypesInvariant, OneActiveAttempt, EchoCaptureInit, EchoCaptureStep, PTL
     DEF Spec

\* Acceptances and receipts: a late answer of a pass whose lease was reclaimed
\* adds neither, and an accepted attempt is the last of its batch.
THEOREM EvidenceIsTrue == Spec => []EvidenceMatchesAttempt
<1>1. OutboxInv => EvidenceMatchesAttempt
  BY DEF OutboxInv, Evidence
<1> QED
  BY <1>1, OutboxInvariant, PTL

\* An echo, an acknowledgement or an answer settles only the attempt it is about.
THEOREM SeenIsCurrent == Spec => []SeenByCurrentAttempt
<1>1. OutboxInv => SeenByCurrentAttempt
  BY DEF OutboxInv, Evidence
<1> QED
  BY <1>1, OutboxInvariant, PTL

\* A nonce that can be echoed belongs to the binding in force: the fence of the
\* hand-over closes the window between reading the binding and using it.
THEOREM NoncesAreCurrent == Spec => []OutstandingNonceIsCurrent
<1>1. OutboxInv => OutstandingNonceIsCurrent
  BY DEF OutboxInv, Evidence
<1> QED
  BY <1>1, OutboxInvariant, PTL

------------------------------------------------------------------------------
(* The refinement: every step of the outbox is a step of DeliveryLease.     *)

LEMMA LeaseInit == Init => Lease!Init
<1> SUFFICES ASSUME Init
             PROVE  Lease!Init
  OBVIOUS
<1>1. ASSUME NEW b \in Batches
      PROVE  Phase(b) = "absent" /\ batches[b].attempt = 0 /\ AcceptedNos(b) = {}
  <2>1. batches[b].state = "none" /\ batches[b].attempt = 0
    BY DEF Init, NoRow
  <2>2. Phase(b) = "absent"
    BY <2>1, PhaseValues DEF BatchStates
  <2>3. AcceptedNos(b) = {}
    BY DEF Init, NoAttempt, AcceptedNos
  <2> QED
    BY <2>1, <2>2, <2>3
<1> QED
  BY <1>1 DEF Lease!Init, AcceptedNos

LEMMA LeaseNext ==
    ASSUME NEW b \in Batches, LeaseStep(b)
    PROVE  Lease!Step(b)
<1> DEFINE n == batches[b].attempt
<1>1. CASE /\ MayMove(Phase(b), Phase(b)')
           /\ batches'[b].attempt = n /\ AcceptedNos(b)' = AcceptedNos(b)
  BY <1>1 DEF MayMove, AcceptedNos, Lease!Step, Lease!Stay, Lease!Enqueue, Lease!Release,
              Lease!Reopen, Lease!Close
<1>2. CASE /\ Phase(b) = "queued" /\ Phase(b)' = "leased"
           /\ batches'[b].attempt = n + 1 /\ AcceptedNos(b)' = AcceptedNos(b)
  BY <1>2 DEF AcceptedNos, Lease!Step, Lease!Lease
<1>3. CASE /\ Phase(b) = "leased" /\ Phase(b)' \in {"sent", "closed"}
           /\ batches'[b].attempt = n /\ AcceptedNos(b)' = AcceptedNos(b) \cup {n}
  BY <1>3 DEF AcceptedNos, Lease!Step, Lease!Accept
<1> QED
  BY <1>1, <1>2, <1>3 DEF LeaseStep

\* The outbox promises what DeliveryLease says: one lease at a time, acceptance by
\* the holder only, no delivery after an acceptance.
THEOREM OutboxImplementsLease == Spec => ImplementsLease
<1>1. TypeInv /\ TypeInv' /\ EchoCapture /\ SingleActiveAttempt /\ OutboxInv /\ [Next]_vars
        => [Lease!Next]_(Lease!vars)
  <2> SUFFICES ASSUME TypeInv, TypeInv', EchoCapture, SingleActiveAttempt, OutboxInv, [Next]_vars,
                      NEW b \in Batches
               PROVE  Lease!Step(b)
    BY DEF Lease!Next
  <2>1. NumberedFromZero /\ AcceptedIsLatest(b)
    BY DEF OutboxInv, Evidence
  <2> QED
    BY <2>1, EveryStepIsALeaseStep, LeaseNext
<1> QED
  BY <1>1, LeaseInit, TypesInvariant, OneActiveAttempt, OutboxInvariant, PTL
     DEF Spec, ImplementsLease, Lease!Spec

\* At most one attempt of a batch was ever accepted, and the batch is then neither
\* queued nor leased nor open to an operator's retry: what a transport accepted is
\* never handed to a transport again.
THEOREM AcceptedIsNeverResent == Spec => []Lease!AcceptedIsFinal
<1>1. OutboxInv => Lease!AcceptedIsFinal
  BY DEF OutboxInv, Evidence, AcceptedIsLatest, AcceptedNos, Lease!AcceptedIsFinal
<1> QED
  BY <1>1, OutboxInvariant, PTL
==============================================================================
