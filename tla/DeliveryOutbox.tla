--------------------------- MODULE DeliveryOutbox ---------------------------
(***************************************************************************)
(* The durable delivery outbox of WakeBridge (src/src/core.ts): the claims *)
(* and batches of one attention channel, the dispatch attempts made for    *)
(* each batch, the receipts those attempts earn, and the workers that run  *)
(* dispatchDue() against the shared SQLite file.                           *)
(*                                                                         *)
(* Every database call of the program starts one sqlite3 process and       *)
(* waits for it, so a statement or a BEGIN IMMEDIATE transaction is one    *)
(* atomic step.  Between two calls other PROCESSES (CLI, MCP servers,      *)
(* embedded bridges) may write; inside one process only the await of the   *)
(* transport yields.  DaemonWorkers are the passes of one daemon process   *)
(* (its scheduler and POST /v1/dispatch), the other Workers run in         *)
(* processes of their own.                                                 *)
(*                                                                         *)
(* Abstractions.                                                           *)
(*  - One channel.  The endpoint a binding points to is folded into its    *)
(*    generation: every takeover makes a new one.                          *)
(*  - Time is the flag "due" of a batch: the timer of its present state    *)
(*    has run out (batching window or retry delay, dispatch lease,         *)
(*    acknowledgement timeout).  Gate conditions (quiet hours, presence,   *)
(*    expiry) are choices.                                                 *)
(*  - "consumed" stands for consumed and dismissed, which the outbox       *)
(*    treats alike.  Event references follow their claims.  The state      *)
(*    waiting_for_waiter is declared by types.ts and set nowhere.          *)
(*  - The incident channel is configured and a projection never throws.    *)
(*    Receipts are those the bridge itself writes, not the ones an owner   *)
(*    records through POST /v1/receipts.                                   *)
(***************************************************************************)
EXTENDS Integers, FiniteSets

CONSTANTS
    Claims,          \* attention claims routed to the channel
    Batches,         \* wake batches, created by tick()
    Workers,         \* passes of dispatchDue()
    DaemonWorkers,   \* those that share the daemon's event loop
    NoBatch,         \* the job of an idle worker
    MaxBatchClaims,  \* batch.max_events of the policy
    MaxAttempt,      \* bound: acquisitions of one batch
    MaxGeneration    \* bound: takeovers of the channel

ASSUME WorkersAssumption == DaemonWorkers \subseteq Workers
ASSUME NoBatchAssumption == NoBatch \notin Batches
ASSUME BoundsAssumption ==
    MaxBatchClaims \in Nat \ {0} /\ MaxAttempt \in Nat \ {0} /\ MaxGeneration \in Nat

VARIABLES
    claims,     \* claims.state
    batches,    \* rows of the table batches
    attempts,   \* rows of outbox_attempts and delivery_correlations, by number
    receipts,   \* rows of receipts that speak of a whole batch
    incidents,  \* batches for which an ack_timeout incident was emitted
    channel,    \* the attention channel, its binding and endpoint lease
    worker,     \* the local variables of each pass of dispatchDue()
    echo,       \* the local variables of consumeWakeEcho()
    operator    \* the local variables of retryDeadLetter()

vars == <<claims, batches, attempts, receipts, incidents, channel, worker, echo, operator>>

------------------------------------------------------------------------------
(* The types.                                                               *)

ActiveClaims    == {"pending", "deferred", "eligible"}
FinalizedClaims == {"consumed", "expired"}
ClaimStates     == ActiveClaims \cup {"batched"} \cup FinalizedClaims

OpenStates  == {"pending", "waiting_for_endpoint", "retry_wait"}
BatchStates == OpenStates \cup {"none", "dispatching", "dispatched", "seen",
                                "cancelled", "needs_attention", "dead_letter"}

AttemptNos  == 1..MaxAttempt
Generations == 0..MaxGeneration

\* last_error holds the id of the owning attempt while a batch is dispatching
\* ("owner") and an error class otherwise ("reason", of which only two classes
\* are ever read back).  gen is binding_generation, 0 for NULL.
BatchRow == [state  : BatchStates,
             claims : SUBSET Claims,
             attempt: 0..MaxAttempt,
             gen    : Generations,
             owner  : 0..MaxAttempt,
             reason : {"none", "ack_timeout", "empty_batch"},
             due    : BOOLEAN]

AttemptRow == [state: {"none", "leased", "accepted", "failed", "expired"},
               gen  : Generations,
               nonce: {"none", "outstanding", "consumed", "discarded", "expired"}]

Stages  == {"transport_accepted", "host_attested", "agent_seen"}
Receipt == [batch: Batches, attempt: AttemptNos, stage: Stages]

Results == {"accepted", "retry", "rejected"}

WorkerRow ==
    [pc      : {"idle", "retire", "report", "sweep", "acquire", "park",
                "acquired", "checked", "inflight", "finalize"},
     batch   : Batches \cup {NoBatch},
     attempt : 0..MaxAttempt,
     gen     : Generations,
     snap    : SUBSET (Claims \X ClaimStates),  \* dispatchClaimsSnapshotSql
     result  : Results \cup {"none"},
     attested: BOOLEAN,
     timedOut: SUBSET Batches,
     visited : SUBSET Batches]

EchoRow == [pc: {"idle", "read"}, batch: Batches \cup {NoBatch},
            attempt: 0..MaxAttempt, captured: BatchStates, settle: BOOLEAN]

RetryRow == [batch: Batches \cup {NoBatch}, attempt: 0..MaxAttempt]

NoRow     == [state |-> "none", claims |-> {}, attempt |-> 0, gen |-> 0,
              owner |-> 0, reason |-> "none", due |-> FALSE]
NoAttempt == [state |-> "none", gen |-> 0, nonce |-> "none"]
NoRetry   == [batch |-> NoBatch, attempt |-> 0]
NoEcho    == [pc |-> "idle", batch |-> NoBatch, attempt |-> 0,
              captured |-> "none", settle |-> FALSE]
Idle      == [pc |-> "idle", batch |-> NoBatch, attempt |-> 0, gen |-> 0,
              snap |-> {}, result |-> "none", attested |-> FALSE,
              timedOut |-> {}, visited |-> {}]

TypeOK ==
    /\ claims \in [Claims -> ClaimStates]
    /\ batches \in [Batches -> BatchRow]
    /\ attempts \in [Batches -> [AttemptNos -> AttemptRow]]
    /\ receipts \subseteq Receipt
    /\ incidents \subseteq Batches
    /\ channel \in [generation: Generations, live: BOOLEAN, deleted: BOOLEAN]
    /\ worker \in [Workers -> WorkerRow]
    /\ echo \in EchoRow
    /\ operator \in RetryRow

\* A channel with emitted claims, no binding and no batch yet.
Init ==
    /\ claims = [c \in Claims |-> "pending"]
    /\ batches = [b \in Batches |-> NoRow]
    /\ attempts = [b \in Batches |-> [n \in AttemptNos |-> NoAttempt]]
    /\ receipts = {}
    /\ incidents = {}
    /\ channel = [generation |-> 0, live |-> FALSE, deleted |-> FALSE]
    /\ worker = [w \in Workers |-> Idle]
    /\ echo = NoEcho
    /\ operator = NoRetry

------------------------------------------------------------------------------
(* Conditions and updates shared by the handlers.                           *)

Bound == channel.generation > 0 /\ channel.live

\* Mutant of Owns: a worker that only asks for the state.
OwnsAnyAttempt(b, n) == batches[b].state = "dispatching" /\ n > 0

\* The owner predicate of every worker CAS:
\* state='dispatching' AND last_error=<attempt id>.
Owns(b, n) == batches[b].state = "dispatching" /\ batches[b].owner = n

\* Every claim the batch carries is consumed, dismissed or expired.
Settled(b) ==
    batches[b].claims # {} /\ \A c \in batches[b].claims : claims[c] \in FinalizedClaims

AckTimedOut(b) == batches[b].state = "needs_attention" /\ batches[b].reason = "ack_timeout"

\* The batch waits for an acknowledgement of its current accepted attempt.
AwaitsAck(b) ==
    LET n == batches[b].attempt IN
    /\ batches[b].state = "dispatched" \/ AckTimedOut(b)
    /\ n \in AttemptNos
    /\ batches[b].gen > 0
    /\ attempts[b][n].state = "accepted"
    /\ attempts[b][n].gen = batches[b].gen

\* Mutant of AckOverdue: the timeout asks for a live endpoint.
AckOverdueWhileBound(b) ==
    batches[b].state = "dispatched" /\ batches[b].due /\ AwaitsAck(b) /\ Bound

AckOverdue(b) == batches[b].state = "dispatched" /\ batches[b].due /\ AwaitsAck(b)

Snapshot(b) == {<<c, claims[c]>> : c \in batches[b].claims}

Outstanding == {a \in Batches \X AttemptNos : attempts[a[1]][a[2]].nonce = "outstanding"}

\* delivery_correlations of A that are still outstanding move to state s.
WithNonces(A, s) ==
    [b \in Batches |-> [n \in AttemptNos |->
        IF <<b, n>> \in A /\ attempts[b][n].nonce = "outstanding"
        THEN [attempts[b][n] EXCEPT !.nonce = s] ELSE attempts[b][n]]]

\* Mutant of MoveTo: state and error class change places.
MoveToSwapped(b, s, r) ==
    [batches[b] EXCEPT !.state = r, !.owner = 0, !.reason = s, !.due = FALSE]

\* The batch row leaves "dispatching", or settles, with its timer reset.
MoveTo(b, s, r) ==
    [batches[b] EXCEPT !.state = s, !.owner = 0, !.reason = r, !.due = FALSE]

\* Mutant of Detached: an emptied batch stays in the queue.
DetachedNotCancelled(c) ==
    [b \in Batches |-> IF batches[b].state \in OpenStates
                      THEN [batches[b] EXCEPT !.claims = @ \ {c}] ELSE batches[b]]

\* detachClaimFromOpenBatches: only work no transport has is rewritten.
Detached(c) ==
    [b \in Batches |->
        IF batches[b].state \in OpenStates /\ c \in batches[b].claims
        THEN IF batches[b].claims = {c}
             THEN [batches[b] EXCEPT !.claims = {}, !.state = "cancelled", !.due = FALSE]
             ELSE [batches[b] EXCEPT !.claims = @ \ {c}]
        ELSE batches[b]]

\* The synchronous code of one process runs to its next await: a daemon pass
\* takes a step only while no other pass and no echo handler of the daemon is
\* between two of its database calls.
AtAwait(w) == worker[w].pc \in {"idle", "inflight"}

MayRun(w) ==
    w \in DaemonWorkers =>
        echo.pc = "idle" /\ \A v \in DaemonWorkers \ {w} : AtAwait(v)

At(w, pc) == worker[w].pc = pc /\ MayRun(w)

\* The pass is done with its present batch and looks for the next one.
NextCandidate(w) ==
    [worker EXCEPT ![w] = [Idle EXCEPT !.pc = "sweep", !.visited = worker[w].visited]]

------------------------------------------------------------------------------
(* tick(): one claim at a time; a pass over many claims is a sequence of    *)
(* these steps, each of which re-checks the claim under the writer lock.    *)

\* The gates of an active claim: they open, defer it, or it has expired.
TickGate(c, s) ==
    /\ claims[c] \in ActiveClaims
    /\ s \in {"eligible", "deferred", "expired"}
    /\ claims' = [claims EXCEPT ![c] = s]
    /\ UNCHANGED <<operator, batches, attempts, receipts, incidents, channel, worker, echo>>

\* An eligible claim freezes a new batch.
TickFreeze(c, b) ==
    /\ claims[c] = "eligible"
    /\ batches[b].state = "none"
    /\ batches' = [batches EXCEPT ![b] = [NoRow EXCEPT !.state = "pending", !.claims = {c}]]
    /\ claims' = [claims EXCEPT ![c] = "batched"]
    /\ UNCHANGED <<operator, attempts, receipts, incidents, channel, worker, echo>>

\* Mutant of TickAppend: the claim is marked even if the append lost its race.
TickAppendUnchecked(c, b) ==
    /\ claims[c] = "eligible"
    /\ batches[b].state # "none"
    /\ c \notin batches[b].claims
    /\ Cardinality(batches[b].claims) < MaxBatchClaims
    /\ batches' = [batches EXCEPT ![b].claims =
                     IF batches[b].state \in OpenStates THEN @ \cup {c} ELSE @]
    /\ claims' = [claims EXCEPT ![c] = "batched"]
    /\ UNCHANGED <<operator, attempts, receipts, incidents, channel, worker, echo>>

\* An eligible claim joins a batch chosen when the tick was planned; the window
\* was open then, and the UPDATE re-checks the state and the room.
TickAppend(c, b) ==
    /\ claims[c] = "eligible"
    /\ batches[b].state \in OpenStates
    /\ c \notin batches[b].claims
    /\ Cardinality(batches[b].claims) < MaxBatchClaims
    /\ batches' = [batches EXCEPT ![b].claims = @ \cup {c}]
    /\ claims' = [claims EXCEPT ![c] = "batched"]
    /\ UNCHANGED <<operator, attempts, receipts, incidents, channel, worker, echo>>

------------------------------------------------------------------------------
(* claimAction(): the agent snoozes, consumes or dismisses a claim.         *)

ClaimAction(c, next) ==
    /\ ~channel.deleted
    /\ claims[c] \notin FinalizedClaims
    /\ claims' = [claims EXCEPT ![c] = next]
    /\ batches' = Detached(c)
    /\ UNCHANGED <<operator, attempts, receipts, incidents, channel, worker, echo>>

SnoozeClaim(c)  == ClaimAction(c, "pending")
ConsumeClaim(c) == ClaimAction(c, "consumed")

------------------------------------------------------------------------------
(* recover(), the head of every pass (and of a restarted process).          *)

\* Mutant of RecoveredBatch: a missing acknowledgement is delivered again.
RecoveredBatchResent(b) ==
    CASE AckTimedOut(b) /\ Settled(b) ->
            [batches[b] EXCEPT !.state = "cancelled"]
      [] batches[b].state = "dispatching" /\ batches[b].due ->
            [batches[b] EXCEPT !.state = "retry_wait", !.owner = 0]
      [] AckOverdue(b) -> MoveTo(b, "retry_wait", "none")
      [] OTHER -> batches[b]

\* Mutant of RecoveredBatch: leases are not reclaimed.
RecoveredBatchStillLeased(b) ==
    CASE AckTimedOut(b) /\ Settled(b) ->
            [batches[b] EXCEPT !.state = "cancelled"]
      [] AckOverdue(b) -> MoveTo(b, "needs_attention", "ack_timeout")
      [] OTHER -> batches[b]

RecoveredBatch(b) ==
    CASE AckTimedOut(b) /\ Settled(b) ->
            [batches[b] EXCEPT !.state = "cancelled"]
      [] batches[b].state = "dispatching" /\ batches[b].due ->
            [batches[b] EXCEPT !.state = "retry_wait", !.owner = 0]
      [] AckOverdue(b) -> MoveTo(b, "needs_attention", "ack_timeout")
      [] OTHER -> batches[b]

\* Mutant of RecoveredAttempt: the attempt survives the lease of its batch.
RecoveredAttemptKept(b, n, lapsed) ==
    [attempts[b][n] EXCEPT !.nonce = IF <<b, n>> \in lapsed THEN "expired" ELSE @]

\* An attempt's lease ends with the lease of its batch.
RecoveredAttempt(b, n, lapsed) ==
    [attempts[b][n] EXCEPT
        !.state = IF @ = "leased" /\ batches[b].due THEN "expired" ELSE @,
        !.nonce = IF <<b, n>> \in lapsed THEN "expired" ELSE @]

\* The SELECT of the timed-out batches and the first transaction: both use one
\* cutoff, so the transaction moves the batches the SELECT returned.  lapsed
\* are the delivery nonces whose hour is over.
RecoverLeases(w) ==
    /\ At(w, "idle")
    /\ \E lapsed \in SUBSET Outstanding :
          attempts' = [b \in Batches |-> [n \in AttemptNos |-> RecoveredAttempt(b, n, lapsed)]]
    /\ batches' = [b \in Batches |-> RecoveredBatch(b)]
    /\ worker' = [worker EXCEPT ![w] =
                    [Idle EXCEPT !.pc = "retire", !.timedOut = {b \in Batches : AckOverdue(b)}]]
    /\ UNCHANGED <<operator, claims, receipts, incidents, channel, echo>>

\* Mutant of Retirable: only failed work is looked at.
RetirableAfterFailure(b) ==
    batches[b].state \in {"retry_wait", "needs_attention"} /\ Settled(b)

Retirable(b) ==
    /\ \/ batches[b].state \in OpenStates
       \/ batches[b].state = "needs_attention" /\ batches[b].reason = "empty_batch"
    /\ Settled(b)

\* The second transaction: unsent batches with nothing left to deliver.
RetireSettled(w) ==
    /\ At(w, "retire")
    /\ batches' = [b \in Batches |->
                     IF Retirable(b) THEN [batches[b] EXCEPT !.state = "cancelled", !.due = FALSE]
                     ELSE batches[b]]
    /\ worker' = [worker EXCEPT ![w].pc = IF worker[w].timedOut = {} THEN "sweep" ELSE "report"]
    /\ UNCHANGED <<operator, claims, attempts, receipts, incidents, channel, echo>>

\* One incident per batch that this pass timed out and that still is.
ReportIncidents(w) ==
    /\ At(w, "report")
    /\ incidents' = incidents \cup {b \in worker[w].timedOut : AckTimedOut(b)}
    /\ worker' = NextCandidate(w)
    /\ UNCHANGED <<operator, claims, batches, attempts, receipts, channel, echo>>

------------------------------------------------------------------------------
(* dispatchDue(): one batch at a time, each at most once in a pass.         *)

\* recheckDispatchGates and resolveBinding.  The gates may expire or defer any
\* of the batched claims; the CAS that applies them is fenced by the whole
\* snapshot, so it happens here or not at all.  "routed" says that the endpoint
\* has a route this process has a transport for (chooseTransport).  A batch that
\* waits already for an endpoint is left waiting.
Visit(w, b) ==
    /\ At(w, "sweep")
    /\ b \notin worker[w].visited
    /\ batches[b].state \in OpenStates
    /\ batches[b].due
    /\ \E gate \in [{c \in batches[b].claims : claims[c] = "batched"}
                        -> {"batched", "deferred", "expired"}], routed \in BOOLEAN :
          LET gated == {c \in DOMAIN gate : gate[c] # "batched"}
              kept  == batches[b].claims \ gated
              visit == [NextCandidate(w)[w] EXCEPT !.visited = @ \cup {b}]
          IN /\ claims' = [c \in Claims |-> IF c \in gated THEN gate[c] ELSE claims[c]]
             /\ batches' = [batches EXCEPT ![b] =
                    [@ EXCEPT !.claims = kept, !.due = kept # {},
                              !.state = IF kept = {} THEN "cancelled" ELSE batches[b].state]]
             /\ worker' = [worker EXCEPT ![w] =
                    IF kept = {} THEN visit
                    ELSE IF Bound /\ routed
                    THEN [visit EXCEPT !.pc = "acquire", !.batch = b, !.gen = channel.generation,
                                       !.snap = {<<c, claims[c]>> : c \in kept}]
                    ELSE IF batches[b].state = "waiting_for_endpoint" THEN visit
                    ELSE [visit EXCEPT !.pc = "park", !.batch = b]]
    /\ UNCHANGED <<operator, attempts, receipts, incidents, channel, echo>>

\* Mutant of Parkable: the batch is parked whatever became of it.
ParkableAlways(b) == batches[b].state \in BatchStates

Parkable(b) == batches[b].state \in {"pending", "retry_wait"}

\* markNoEndpoint, and the branch without a compatible transport.
Park(w) ==
    LET b == worker[w].batch IN
    /\ At(w, "park")
    /\ batches' = IF Parkable(b)
                  THEN [batches EXCEPT ![b] =
                          [@ EXCEPT !.state = "waiting_for_endpoint", !.reason = "none"]]
                  ELSE batches
    /\ worker' = NextCandidate(w)
    /\ UNCHANGED <<operator, claims, attempts, receipts, incidents, channel, echo>>

\* The CAS of acquireBatch.  It fences the batch, its claims and the channel,
\* not the binding, which was read before.
CanAcquire(b, snap) ==
    /\ batches[b].state \in OpenStates
    /\ batches[b].due
    /\ Snapshot(b) = snap
    /\ ~channel.deleted

AcquireBatch(w) ==
    LET b == worker[w].batch
        n == batches[b].attempt + 1
        g == worker[w].gen
    IN /\ At(w, "acquire")
       /\ CanAcquire(b, worker[w].snap)
       /\ n <= MaxAttempt
       /\ batches' = [batches EXCEPT ![b] =
             [@ EXCEPT !.state = "dispatching", !.attempt = n, !.gen = g,
                       !.owner = n, !.reason = "none", !.due = FALSE]]
       /\ attempts' = [attempts EXCEPT ![b][n] = [NoAttempt EXCEPT !.state = "leased", !.gen = g]]
       /\ worker' = [worker EXCEPT ![w] = [@ EXCEPT !.pc = "acquired", !.attempt = n, !.snap = {}]]
       /\ UNCHANGED <<operator, claims, receipts, incidents, channel, echo>>

\* The batch changed, a claim expired or quiet hours began since the snapshot.
SkipCandidate(w) ==
    /\ At(w, "acquire") \/ At(w, "park")
    /\ worker' = NextCandidate(w)
    /\ UNCHANGED <<operator, claims, batches, attempts, receipts, incidents, channel, echo>>

\* A pass gives up the attempt it holds: the attempt fails, and the batch moves
\* on if the attempt still owns it.
Abandon(w, s, r) ==
    LET b == worker[w].batch
        n == worker[w].attempt
    IN /\ attempts' = [attempts EXCEPT ![b][n] =
             [@ EXCEPT !.state = IF attempts[b][n].state = "leased" THEN "failed"
                                 ELSE attempts[b][n].state]]
       /\ batches' = IF Owns(b, n) THEN [batches EXCEPT ![b] = MoveTo(b, s, r)] ELSE batches
       /\ worker' = NextCandidate(w)
       /\ UNCHANGED <<operator, claims, receipts, incidents, channel, echo>>

\* buildPayload resolves only claims that are still batched.
Deliverable(b) == \E c \in batches[b].claims : claims[c] = "batched"

EmptyBatch(w) ==
    /\ At(w, "acquired")
    /\ ~Deliverable(worker[w].batch)
    /\ Abandon(w, "needs_attention", "empty_batch")

\* bindingStillCurrent
BindingCurrent(w) == Bound /\ channel.generation = worker[w].gen

StaleBinding(w) ==
    /\ At(w, "acquired")
    /\ Deliverable(worker[w].batch)
    /\ ~BindingCurrent(w)
    /\ Abandon(w, "retry_wait", "none")

CheckBinding(w) ==
    /\ At(w, "acquired")
    /\ Deliverable(worker[w].batch)
    /\ BindingCurrent(w)
    /\ worker' = [worker EXCEPT ![w].pc = "checked"]
    /\ UNCHANGED <<operator, claims, batches, attempts, receipts, incidents, channel, echo>>

\* Mutant of DispatchFence: the binding is not read again.
DispatchFenceUnbound(w) ==
    LET b == worker[w].batch
        n == worker[w].attempt
    IN Owns(b, n) /\ attempts[b][n].state = "leased" /\ ~channel.deleted

\* dispatchFence, checked in the transaction that records the delivery nonce.
DispatchFence(w) ==
    LET b == worker[w].batch
        n == worker[w].attempt
    IN /\ Owns(b, n)
       /\ attempts[b][n].state = "leased"
       /\ ~channel.deleted
       /\ channel.generation = worker[w].gen

\* The attempt goes to the transport, with a nonce if the transport lets the
\* bridge observe the session it wakes.
HandOver(w, nonce) ==
    /\ At(w, "checked")
    /\ DispatchFence(w)
    /\ nonce \in {"none", "outstanding"}
    /\ attempts' = [attempts EXCEPT ![worker[w].batch][worker[w].attempt] =
                      [@ EXCEPT !.nonce = nonce]]
    /\ worker' = [worker EXCEPT ![w].pc = "inflight"]
    /\ UNCHANGED <<operator, claims, batches, receipts, incidents, channel, echo>>

\* The binding was current and the fence then failed: the pass leaves the
\* attempt as it is, to its lease.
SkipHandOver(w) ==
    /\ At(w, "checked")
    /\ ~DispatchFence(w)
    /\ worker' = NextCandidate(w)
    /\ UNCHANGED <<operator, claims, batches, attempts, receipts, incidents, channel, echo>>

\* The transport answers (or throws, a retryable result) and finalizeAttempt
\* looks whether the nonce of the attempt was consumed meanwhile.
TransportReturns(w, result) ==
    LET b == worker[w].batch
        n == worker[w].attempt
    IN /\ At(w, "inflight")
       /\ result \in Results
       /\ worker' = [worker EXCEPT ![w] =
             [@ EXCEPT !.pc = "finalize", !.result = result,
                       !.attested = attempts[b][n].nonce = "consumed"]]
       /\ UNCHANGED <<operator, claims, batches, attempts, receipts, incidents, channel, echo>>

\* The transaction of finalizeAttempt, decided by the values read before it.
FinalizeAttempt(w) ==
    LET b         == worker[w].batch
        n         == worker[w].attempt
        row       == attempts[b][n]
        accepted  == worker[w].result = "accepted"
        effective == accepted \/ worker[w].attested
        next      == CASE worker[w].attested           -> "seen"
                       [] accepted /\ ~worker[w].attested -> "dispatched"
                       [] worker[w].result = "retry" /\ ~effective -> "retry_wait"
                       [] OTHER                        -> "dead_letter"
        outcome   == IF effective THEN "accepted" ELSE "failed"
    IN /\ At(w, "finalize")
       /\ attempts' = [attempts EXCEPT ![b][n] =
             [@ EXCEPT !.state = IF row.state = "leased" THEN outcome ELSE row.state,
                       !.nonce = IF ~effective /\ row.nonce = "outstanding" THEN "discarded"
                                 ELSE row.nonce]]
       /\ receipts' = IF accepted /\ Owns(b, n) /\ attempts'[b][n].state = "accepted"
                      THEN receipts \cup {[batch |-> b, attempt |-> n, stage |-> "transport_accepted"]}
                      ELSE receipts
       /\ batches' = IF Owns(b, n) THEN [batches EXCEPT ![b] = MoveTo(b, next, "none")] ELSE batches
       /\ worker' = NextCandidate(w)
       /\ UNCHANGED <<operator, claims, incidents, channel, echo>>

\* No candidate is left, or the soft budget of the sweep is spent.
EndSweep(w) ==
    /\ At(w, "sweep")
    /\ worker' = [worker EXCEPT ![w] = Idle]
    /\ UNCHANGED <<operator, claims, batches, attempts, receipts, incidents, channel, echo>>

\* A process dies between two of its database calls.
CrashProcess(w) ==
    /\ w \notin DaemonWorkers
    /\ worker[w].pc # "idle"
    /\ worker' = [worker EXCEPT ![w] = Idle]
    /\ UNCHANGED <<operator, claims, batches, attempts, receipts, incidents, channel, echo>>

CrashDaemon ==
    /\ echo.pc # "idle" \/ \E w \in DaemonWorkers : worker[w].pc # "idle"
    /\ worker' = [w \in Workers |-> IF w \in DaemonWorkers THEN Idle ELSE worker[w]]
    /\ echo' = NoEcho
    /\ UNCHANGED <<operator, claims, batches, attempts, receipts, incidents, channel>>

\* The batching window or retry delay, the dispatch lease or the
\* acknowledgement timeout of the batch runs out.
TimerElapses(b) ==
    /\ batches[b].state \in {"pending", "retry_wait", "dispatching", "dispatched"}
    /\ ~batches[b].due
    /\ batches' = [batches EXCEPT ![b].due = TRUE]
    /\ UNCHANGED <<operator, claims, attempts, receipts, incidents, channel, worker, echo>>

------------------------------------------------------------------------------
(* ackBatch(): its reads are all re-checked by the CAS, so it is one step.  *)

AgentSeen(b) == [batch |-> b, attempt |-> batches[b].attempt, stage |-> "agent_seen"]

HasReceipt(b, stage) == \E r \in receipts : r.batch = b /\ r.stage = stage

AckBatch(b) ==
    /\ AwaitsAck(b)
    /\ batches[b].gen = channel.generation
    /\ batches' = [batches EXCEPT ![b] = MoveTo(b, "seen", "none")]
    /\ receipts' = receipts \cup {AgentSeen(b)}
    /\ UNCHANGED <<operator, claims, attempts, incidents, channel, worker, echo>>

\* The agent acknowledges what the host has attested already.
AckAfterAttestation(b) ==
    LET n == batches[b].attempt IN
    /\ batches[b].state = "seen"
    /\ HasReceipt(b, "host_attested") /\ ~HasReceipt(b, "agent_seen")
    /\ n \in AttemptNos
    /\ attempts[b][n].state = "accepted"
    /\ attempts[b][n].gen = channel.generation
    /\ receipts' = receipts \cup {AgentSeen(b)}
    /\ UNCHANGED <<operator, claims, batches, attempts, incidents, channel, worker, echo>>

------------------------------------------------------------------------------
(* consumeWakeEcho(): a read that captures the state of the batch, then one *)
(* transaction fenced by the binding.  It runs in the daemon.               *)

EchoAccepted(b, n) ==
    /\ echo.pc = "idle"
    /\ \A w \in DaemonWorkers : AtAwait(w)
    /\ Bound
    /\ attempts[b][n].nonce = "outstanding"
    /\ attempts[b][n].gen = channel.generation

EchoRead(b, n) ==
    LET s == batches[b].state IN
    /\ EchoAccepted(b, n)
    /\ n = batches[b].attempt
    /\ echo' = [pc |-> "read", batch |-> b, attempt |-> n, captured |-> s,
                settle |-> s \in {"retry_wait", "dead_letter", "dispatched"} \/ AckTimedOut(b)]
    /\ UNCHANGED <<operator, claims, batches, attempts, receipts, incidents, channel, worker>>

\* The nonce is too old; only that is written down.
EchoExpired(b, n) ==
    /\ EchoAccepted(b, n)
    /\ attempts' = WithNonces({<<b, n>>}, "expired")
    /\ UNCHANGED <<operator, claims, batches, receipts, incidents, channel, worker, echo>>

\* Mutant of EchoSettles: any attempt of the batch will do.
EchoSettlesAnyAttempt(b, n) ==
    /\ echo.settle
    /\ n > 0
    /\ batches[b].state = echo.captured
    /\ echo.captured = "needs_attention" => batches[b].reason = "ack_timeout"

\* The CAS that settles the batch asks for the captured state and the attempt,
\* and not for the nonce.
EchoSettles(b, n) ==
    /\ echo.settle
    /\ batches[b].state = echo.captured
    /\ batches[b].attempt = n
    /\ echo.captured = "needs_attention" => batches[b].reason = "ack_timeout"

\* The fence compares the lease with the clock of the read: it fails after a
\* takeover or a deletion, and if the token was rotated or the lease ended in
\* the same millisecond.
EchoCommit ==
    LET b == echo.batch
        n == echo.attempt
    IN /\ echo.pc = "read"
       /\ \E held \in BOOLEAN :
             LET fenced == held /\ attempts[b][n].gen = channel.generation IN
             /\ attempts' = IF fenced THEN WithNonces({<<b, n>>}, "consumed") ELSE attempts
             /\ receipts' = IF fenced /\ attempts[b][n].nonce = "outstanding"
                            THEN receipts \cup {[batch |-> b, attempt |-> n, stage |-> "host_attested"]}
                            ELSE receipts
             /\ batches' = IF fenced /\ EchoSettles(b, n)
                           THEN [batches EXCEPT ![b] = MoveTo(b, "seen", "none")] ELSE batches
       /\ echo' = NoEcho
       /\ UNCHANGED <<operator, claims, incidents, channel, worker>>

------------------------------------------------------------------------------
(* The endpoint side: takeover, leases, deletion of the channel.            *)

\* takeover() and registerHostSession(): a live endpoint becomes the binding.
Takeover ==
    /\ ~channel.deleted
    /\ channel.generation < MaxGeneration
    /\ channel' = [channel EXCEPT !.generation = @ + 1, !.live = TRUE]
    /\ attempts' = WithNonces(Outstanding, "discarded")
    /\ batches' = [b \in Batches |->
                     IF batches[b].state = "waiting_for_endpoint"
                     THEN [batches[b] EXCEPT !.state = "pending", !.gen = 0, !.reason = "none"]
                     ELSE batches[b]]
    /\ UNCHANGED <<operator, claims, receipts, incidents, worker, echo>>

EndpointLapses ==
    /\ Bound
    /\ channel' = [channel EXCEPT !.live = FALSE]
    /\ UNCHANGED <<operator, claims, batches, attempts, receipts, incidents, worker, echo>>

\* renewEndpoint and a re-registration of the same endpoint.
EndpointRenews ==
    /\ channel.generation > 0 /\ ~channel.live
    /\ channel' = [channel EXCEPT !.live = TRUE]
    /\ UNCHANGED <<operator, claims, batches, attempts, receipts, incidents, worker, echo>>

\* revokeEndpointState
EndpointRevoked ==
    /\ channel.generation > 0
    /\ channel' = [channel EXCEPT !.live = FALSE]
    /\ attempts' = WithNonces(Outstanding, "discarded")
    /\ UNCHANGED <<operator, claims, batches, receipts, incidents, worker, echo>>

\* Mutant of Deletable: only work that was not sent is closed.
DeletableUnsent(b) == batches[b].state \in OpenStates \cup {"dispatching"}

Deletable(b) == batches[b].state \notin {"none", "seen", "cancelled"}

\* deleteChannel with force: everything undelivered is closed in one step.
DeleteChannel ==
    /\ ~channel.deleted
    /\ channel' = [generation |-> 0, live |-> FALSE, deleted |-> TRUE]
    /\ claims' = [c \in Claims |-> IF claims[c] \in FinalizedClaims THEN claims[c] ELSE "consumed"]
    /\ attempts' = [b \in Batches |-> [n \in AttemptNos |->
                      [WithNonces(Outstanding, "discarded")[b][n] EXCEPT
                          !.state = IF @ = "leased" THEN "failed" ELSE @]]]
    /\ batches' = [b \in Batches |->
                     IF Deletable(b) THEN MoveTo(b, "cancelled", "none") ELSE batches[b]]
    /\ UNCHANGED <<operator, receipts, incidents, worker, echo>>

\* retryDeadLetter (operator-control.ts) reads the batch and its claims ...
RetryRead(b) ==
    /\ operator = NoRetry
    /\ batches[b].state = "dead_letter"
    /\ batches[b].claims # {} /\ \A c \in batches[b].claims : claims[c] = "batched"
    /\ operator' = [batch |-> b, attempt |-> batches[b].attempt]
    /\ UNCHANGED <<claims, batches, attempts, receipts, incidents, channel, worker, echo>>

\* ... and reopens the batch if it is still dead at that attempt; the claims are
\* not read again.
RetryDeadLetter ==
    LET b == operator.batch IN
    /\ operator # NoRetry
    /\ batches' = IF batches[b].state = "dead_letter" /\ batches[b].attempt = operator.attempt
                  THEN [batches EXCEPT ![b] =
                          [@ EXCEPT !.state = "retry_wait", !.gen = 0, !.due = TRUE]]
                  ELSE batches
    /\ operator' = NoRetry
    /\ UNCHANGED <<claims, attempts, receipts, incidents, channel, worker, echo>>

CrashOperator ==
    /\ operator # NoRetry
    /\ operator' = NoRetry
    /\ UNCHANGED <<claims, batches, attempts, receipts, incidents, channel, worker, echo>>

------------------------------------------------------------------------------
Tick == \E c \in Claims :
    \/ \E s \in ClaimStates : TickGate(c, s)
    \/ \E b \in Batches : TickFreeze(c, b) \/ TickAppend(c, b)

AgentStep ==
    \/ \E c \in Claims : SnoozeClaim(c) \/ ConsumeClaim(c)
    \/ \E b \in Batches : AckBatch(b) \/ AckAfterAttestation(b)

RecoverStep(w) == RecoverLeases(w) \/ RetireSettled(w) \/ ReportIncidents(w)

DispatchStep(w) ==
    \/ \E b \in Batches : Visit(w, b)
    \/ Park(w) \/ AcquireBatch(w) \/ SkipCandidate(w)
    \/ EmptyBatch(w) \/ StaleBinding(w) \/ CheckBinding(w) \/ SkipHandOver(w)
    \/ \E nonce \in {"none", "outstanding"} : HandOver(w, nonce)
    \/ \E result \in Results : TransportReturns(w, result)
    \/ FinalizeAttempt(w) \/ EndSweep(w)

EchoStep ==
    \/ \E b \in Batches, n \in AttemptNos : EchoRead(b, n) \/ EchoExpired(b, n)
    \/ EchoCommit

EndpointStep == Takeover \/ EndpointLapses \/ EndpointRenews \/ EndpointRevoked

OperatorStep == DeleteChannel \/ RetryDeadLetter \/ \E b \in Batches : RetryRead(b)

Crash == CrashDaemon \/ CrashOperator \/ \E w \in Workers : CrashProcess(w)

Next ==
    \/ Tick \/ AgentStep \/ EchoStep \/ EndpointStep \/ OperatorStep \/ Crash
    \/ \E w \in Workers : RecoverStep(w) \/ DispatchStep(w)
    \/ \E b \in Batches : TimerElapses(b)

Spec == Init /\ [][Next]_vars

(* Fairness.  The scheduler of the daemon starts a pass every second unless *)
(* one is running, a pass runs to its end, a transport gives up after its   *)
(* own timeout, and the event loop does not serve requests for ever while a *)
(* pass could go on: the steps of a daemon pass are strongly fair.  So are  *)
(* the two transactions of recover() by themselves: a restarted daemon      *)
(* recovers before it serves, and is not always killed between the two.     *)
(* Time passes.  Nothing is assumed of agents, hosts, operators or other    *)
(* processes.                                                               *)
Fairness ==
    /\ \A w \in DaemonWorkers :
          /\ SF_vars(RecoverStep(w) \/ DispatchStep(w))
          /\ SF_vars(RecoverLeases(w)) /\ SF_vars(RetireSettled(w))
    /\ WF_vars(EchoCommit)
    /\ \A b \in Batches : WF_vars(TimerElapses(b))

FairSpec == Spec /\ Fairness

------------------------------------------------------------------------------
(* Properties.                                                              *)

\* A leased attempt is the latest attempt of a batch that is dispatching under
\* it, and a dispatching batch has one: lease recovery, late answers of slow
\* workers, takeover and deletion never leave two live attempts of one batch
\* (docs/architecture.md, routing rule 7).
SingleActiveAttempt ==
    \A b \in Batches :
        /\ batches[b].state = "dispatching" =>
              /\ batches[b].attempt \in AttemptNos
              /\ attempts[b][batches[b].attempt].state = "leased"
        /\ \A n \in AttemptNos : attempts[b][n].state = "leased" => n = batches[b].attempt /\ Owns(b, n)

\* An accepted attempt is the latest of its batch and rests on a receipt of the
\* transport or of the host; a transport receipt belongs to an accepted
\* attempt.  A worker whose lease was reclaimed can add neither.
EvidenceMatchesAttempt ==
    \A b \in Batches, n \in AttemptNos :
        LET has(stage) == [batch |-> b, attempt |-> n, stage |-> stage] \in receipts IN
        /\ attempts[b][n].state = "accepted" =>
              n = batches[b].attempt /\ (has("transport_accepted") \/ has("host_attested"))
        /\ has("transport_accepted") => attempts[b][n].state = "accepted"

\* A delivery nonce that can still be echoed was issued under the binding
\* generation in force: no takeover, revocation or deletion that falls between
\* reading the binding and handing the batch over leaves one behind.
OutstandingNonceIsCurrent ==
    \A b \in Batches, n \in AttemptNos :
        attempts[b][n].nonce = "outstanding" =>
            /\ ~channel.deleted
            /\ attempts[b][n].gen = channel.generation

\* A seen batch was settled through its latest attempt: that attempt was
\* accepted or was sent out with a nonce.  An echo of an earlier attempt never
\* settles a later one.
SeenByCurrentAttempt ==
    \A b \in Batches : batches[b].state = "seen" =>
        \E n \in AttemptNos :
            /\ n = batches[b].attempt
            /\ attempts[b][n].state = "accepted" \/ attempts[b][n].nonce # "none"

\* Nothing of a deleted channel can still be delivered, answered or retried.
DeletedIsClosed ==
    channel.deleted =>
        /\ \A c \in Claims : claims[c] \in FinalizedClaims
        /\ \A b \in Batches :
              /\ batches[b].state \in {"none", "seen", "cancelled"}
              /\ \A n \in AttemptNos :
                    attempts[b][n].state # "leased" /\ attempts[b][n].nonce # "outstanding"

\* A claim marked batched is carried by a batch that was not cancelled: no race
\* of tick, gates, detaching, retirement and deletion drops it silently.
NoLostClaim ==
    \A c \in Claims : claims[c] = "batched" =>
        \E b \in Batches : c \in batches[b].claims /\ batches[b].state \notin {"none", "cancelled"}

\* A batch in the dispatch queue carries claims, at most the policy's number.
QueuedBatchCarriesClaims ==
    \A b \in Batches : batches[b].state \in OpenStates =>
        batches[b].claims # {} /\ Cardinality(batches[b].claims) <= MaxBatchClaims

\* Seen and cancelled are final, whatever a slow worker or echo decided before.
TerminalIsFinal ==
    [][\A b \in Batches : batches[b].state \in {"seen", "cancelled"} =>
          batches'[b].state = batches[b].state]_vars

\* The outbox implements DeliveryLease: one lease at a time, acceptance only by
\* the holder of the lease, no delivery after an acceptance.
Phase(b) ==
    CASE batches[b].state = "none"                -> "absent"
      [] batches[b].state \in OpenStates          -> "queued"
      [] batches[b].state = "dispatching"         -> "leased"
      [] batches[b].state = "dispatched" \/ AckTimedOut(b) -> "sent"
      [] batches[b].state \in {"seen", "cancelled"} -> "closed"
      [] OTHER                                    -> "failed"

Lease == INSTANCE DeliveryLease WITH
    Items    <- Batches,
    phase    <- [b \in Batches |-> Phase(b)],
    epoch    <- [b \in Batches |-> batches[b].attempt],
    accepted <- [b \in Batches |-> {n \in AttemptNos : attempts[b][n].state = "accepted"}]

ImplementsLease == Lease!Spec

\* Under fairness: an attempt does not hold its batch for ever ...
LeaseEnds ==
    \A b \in Batches, n \in AttemptNos :
        (batches[b].state = "dispatching" /\ batches[b].attempt = n) ~>
            ~(batches[b].state = "dispatching" /\ batches[b].attempt = n)

\* ... an accepted batch is acknowledged, reported or closed, also when its
\* endpoint is gone ...
AcceptanceIsAnswered ==
    \A b \in Batches : batches[b].state = "dispatched" ~> batches[b].state # "dispatched"

\* ... and queued work whose claims are all finished leaves the queue.
SettledWorkIsRetired ==
    \A b \in Batches :
        (batches[b].state \in OpenStates /\ Settled(b)) ~> batches[b].state \notin OpenStates

------------------------------------------------------------------------------
(* Statements of the documentation that the code does not keep.             *)

\* docs/operations/out-of-process-host-adapter.md: the echo of the current
\* attempt records host_attested and settles the batch as seen; so no later
\* attempt delivers it again.
AttestedIsNotRedelivered ==
    \A r \in receipts : r.stage = "host_attested" => batches[r.batch].attempt = r.attempt

\* Same place: what settles a batch as seen is recorded as a receipt.
SeenHasReceipt ==
    \A b \in Batches : batches[b].state = "seen" => \E r \in receipts : r.batch = b

\* core.ts, comment in recover(): an ack_timeout batch still raises its
\* incident before it can be closed.
ClosedTimeoutWasReported ==
    \A b \in Batches :
        batches[b].state = "cancelled" /\ batches[b].reason = "ack_timeout" => b \in incidents
==============================================================================
