# Wake Bridge in TLA+

Wake Bridge stores events in one SQLite file, turns them into attention claims,
freezes claims into wake batches and delivers each batch to the agent session
that owns the claims' attention channel. These modules describe the parts where
the program is hard to get right and to test. TLC checks them on small
instances, and TLAPS proves their invariants, action properties and refinements
for every instance. Source paths are relative to the repository (`src/core.ts`
is listed in `PROJECT.json` as `src/src/core.ts`).

## 1. The system

| Component | State | Operations | Module |
|---|---|---|---|
| Event ingestion (`core.ts` emitEvent, `event-sdk.ts`) | `events`, `event_status`, `idempotency_keys` | emit, deduplicate, merge into an open claim, suppress | `ClaimIngest` |
| Claims and `tick` (`core.ts`) | `claims`, `claim_transitions` | schedule, gate, freeze, append, snooze, consume, dismiss | `ClaimIngest`, `DeliveryOutbox` |
| Policy registry (`core.ts`, `policy-control.ts`) | `policies` | install, preview, disable | `ClaimIngest` |
| Retention (`retention.ts`) | whole rows | prune | `ClaimIngest` |
| Delivery outbox (`core.ts`) | `batches`, `outbox_attempts`, `receipts`, `delivery_correlations` | recover, dispatch, finalize, ack, wake echo | `DeliveryOutbox` |
| Operator control (`operator-control.ts`) | none | status, retry of a dead letter | `DeliveryOutbox` |
| Channels, endpoints, bindings (`core.ts`) | `attention_channels`, `endpoints`, `bindings` | create, delete, register a session, renew, revoke, take over | `AttentionChannels`, `HostSessions` |
| Presence, activity watches (`core.ts`) | `presence_leases`, `activity_watches` | renew, observe, configure, fire | `AttentionChannels`, `HostSessions` |
| Source runner and supervisor (`source-adapter.ts`, `source-connector.ts`) | `source_checkpoints`, `source_controls`, timers | poll, emit, commit a checkpoint, enable, disable, rebind, bootstrap, stop | `SourcePolling` |
| Daemon (`daemon.ts`) | one scheduler promise, supervisors | HTTP routes, a scheduler pass every second | `DeliveryOutbox`, `HostSessions`, `SourcePolling` |
| claude-cli host adapter (`channel.mjs`, `hook.mjs`) | session, delivery cache, `session.json` | hooks, renewal, wakes, echoes, stop | `ClaudeChannel` |
| Release lifecycle, database access (`release-lifecycle.ts`, `db.ts`) | database files, backups | backup, restore, upgrade, migrate | `ReleaseLifecycle` |
| Transports, out-of-process host (`transport-sdk.ts`, `out-of-process-host.ts`) | none | deliver a batch, classify the answer | `DeliveryOutbox` |
| CLI, MCP server | none of their own | the same core from other processes | the steps of other processes |
| Connectors, provider adapters, configuration, quiet hours | none | mapping, parsing, pure functions | none |

**Concurrency.** Every database call starts one `sqlite3` process and waits for
it (`db.ts`), so a statement or a `BEGIN IMMEDIATE` transaction is atomic, and
between two calls any other *process* may write. Inside one process only an
`await` yields: in the daemon a scheduler pass, a `POST /v1/dispatch` pass, a
wake echo and the poll cycles of sources interleave there, while a handler that
awaits nothing runs to its end. Nothing else is locked: correctness rests on
compare-and-swap conditions (batch state, owning attempt id, attempt number,
binding generation, lease token, checkpoint revision, claim snapshot) and on
`recover()`.

**What makes each component correct.**

* Outbox: one live attempt per batch; a slow worker cannot write for an attempt
  it no longer owns; only nonces of the present binding can be echoed; seen and
  cancelled are final; no claim marked batched is dropped; leases, acceptances
  and finished work do not stay for ever.
* Ingestion: one event per key; every matched event owned by one claim, also when
  the claim it merged into is frozen meanwhile; retention removes nothing that is
  still referred to; a policy version never changes.
* Channels: generations only grow, one owner each, the registry limit holds, a
  deleted channel stays deleted; evidence about a session ends with its binding;
  each firing of a watch has a claim.
* Sources: a checkpoint moves forward only past events that were emitted, and
  only for the identity it was read under; an enabled source is polled again.
* Claude adapter: a fenced launch does not take the channel back; no stale end
  closes a newer lease; a wake is written once; only a written wake is attested.
* Lifecycle: wherever a command stops, nothing acknowledged is lost and no log
  is left beside another database.

## 2. Modules

| Module | What it is |
|---|---|
| `DeliveryLease` | What the outbox promises of a batch: leased to one epoch at a time, accepted only by the epoch that holds the lease, never leased again after an acceptance. |
| `DeliveryOutbox` | The outbox with its claims and channel; refines `DeliveryLease`. |
| `ClaimIngest` | Emitting, scheduling, policies, gates, freezing, the owner's actions, deletion of the channel, retention. |
| `AttentionChannels` | Registry, bindings, takeovers, presence and the inactivity watch. |
| `HostSessions` | The host-session routes with their tokens, generations and credentials. |
| `DurableFeed` | What a pulled source promises: what lies behind the checkpoint was emitted, and a binding's checkpoint only advances, one revision at a time. |
| `SourcePolling` | Supervisor, runner and operator over one checkpoint; refines `DurableFeed`. |
| `ClaudeChannel` | The channel and hook processes of several Claude launches and the daemon they talk to. |
| `ReleaseLifecycle` | backup, restore and upgrade on the files, with the daemon beside them. |
| `DeliveryOutbox_proofs`, `DeliveryOutboxEvidence_proofs`, `ClaimIngest_proofs`, `SourcePolling_proofs`, `AttentionChannels_proofs`, `HostSessions_proofs`, `ClaudeChannel_proofs`, `ReleaseLifecycle_proofs` | Theorems (section 5). |
| `MC...` | Small sets, symmetry and the bound of one run for TLC. |

The modules share no variables: each reduces its neighbours to what they may do
to its own rows. `ClaimIngest` knows of a batch that it is open, dispatched,
dead or finished; `DeliveryOutbox` knows of claims what a delivery can do to
them; `AttentionChannels` takes a host's calls as they come, `HostSessions` adds
the tokens and credentials they carry and `ClaudeChannel` the host that makes
them. Where a deletion of the channel touches several components, each
module has the part of its rows.

### DeliveryOutbox

`claims`, `batches`, `attempts` and `receipts` are the rows of the tables;
`attempts[b][n]` holds the row of `outbox_attempts` with attempt number `n` and
the state of its `delivery_correlations` row (`nonce`). The column `last_error`
has two roles in the code, which are two fields here: the owning attempt while a
batch is dispatching (`owner`) and an error class otherwise (`reason`, of which
only `ack_timeout` and `empty_batch` are ever read back). `worker[w]`, `echo`
and `operator` are the local variables that `dispatchDue`, `consumeWakeEcho` and
`retryDeadLetter` keep between two database calls: everything that can be stale.

A pass of `dispatchDue` runs through these control points:

    idle --RecoverLeases--> retire --RetireSettled--> [report --ReportIncidents-->] sweep
    sweep --Visit--> acquire | park | sweep             --EndSweep--> idle
    acquire --AcquireBatch--> acquired  | --SkipCandidate--> sweep
    acquired --EmptyBatch, StaleBinding--> sweep | --CheckBinding--> checked
    checked --HandOver--> inflight | --SkipHandOver--> sweep
    inflight --TransportReturns--> finalize --FinalizeAttempt--> sweep

`Visit` joins the reads of a candidate, the transaction of its gates and
`resolveBinding`. This loses no interleaving: the transaction of the gates and
the later acquisition are both fenced by the complete snapshot of the batch's
claims (their `updated_at` included), so either nothing of it changed between
the reads and the acquisition, or the acquisition fails (`SkipCandidate`). The
binding is *not* fenced there, and is a local variable (`gen`). `AckBatch` is one
step for the same reason: its CAS repeats what was read.

`FinalizeAttempt` is the transaction only; whether the nonce was consumed
(`attested`) is read by a call before it, in `TransportReturns`. `EchoRead` and
`EchoCommit`, `RetryRead` and `RetryDeadLetter` split the same way, and so do
the transaction that times batches out and the incidents reported after it.

Agents, hosts, operators and clocks are the environment. `CrashProcess`,
`CrashDaemon` and `CrashOperator` end a process between two calls; the daemon's
crash takes all its passes and a pending echo with it. Recovery is not an action
of its own: a restarted process runs `recover()` like any pass.

Abstractions: one channel; an endpoint is identified with the generation under
which it is bound; time is the flag `due` of a batch (the timer of its present
state has run out); gates, routes and transports are nondeterministic choices
over what the code can decide; `consumed` stands for consumed and dismissed;
event references follow their claims. Left out: audit rows and texts, receipts
an owner records by hand (`recordReceipt`), the repair of rows written by an
older version (`recover`), and pruning, which only removes seen and cancelled
batches whose claims are finished.

### ClaimIngest

An emit is `EmitLookup` (the two lookups by key), `EmitMatch` (policy and merge
candidate) and `EmitCommit` (the transaction: guards of the channel, the unique
keys, the append to the candidate or the replacement claim). `ScheduleLookup`
and `ScheduleCommit`, `InstallRead` and `InstallCommit` split the same way. Any
of the two processes may die in between (`Crash`) and the request may come
again. The gates, `snooze`, `dismiss`, `consume` and `expire` compare in their
transaction what they read, so each is one step. `PruneHistory` takes any set of
batches and claims that are old enough and keeps what the code keeps. `answers`
is a history of what callers were told.

Two assumptions on callers are in `RequestsAssumption`: self commitments use a
source of their own, and one idempotency key is used for one event. Without the
second the code returns the earlier event, as `types.ts:58` says.

### AttentionChannels and HostSessions

In `AttentionChannels` a call that reads and then writes (takeover, session
registration, watch configuration, observation, the firing of a watch) leaves
what it read in `calls[p]` and commits in a second step; leases are not state,
so a call may be refused at any step (`Refused`). The watch row has the fields
the code decides by; `latest` is the last claim of the watch, by generation,
epoch and sequence.

`HostSessions` has what that leaves open: lease tokens, credentials, requests
that travel, and answers that get lost. A handler of the daemon reads
(`Handle`), and its transaction follows (`Commit...`) with no other handler in
between, because its database calls are synchronous; the owner's command line is
another process and may come between. `opened` (the token of the last open) and
`bindings[c].at` (the token when the binding was made) are histories.
`renewEndpoint` asks for the token only and so revives a lapsed or closed lease,
as `docs/operations/multi-agent-channels.md:188` says.

### SourcePolling

A cycle is `Connect`, then for each page `NextPage` (read the checkpoint, ask the
connector), `PageArrives`, one `EmitEvent` per event, `Commit` with its
compare-and-swap, and `Confirm`. The slot of the supervisor has the fields of the
code: enabled, timer, promise, and broken for `needs_attention`. `LoopIsFree`
says that a page is handled without an await, so that requests are served only
between pages. A call to the database that fails ends the cycle in
`needs_attention` (`source-connector.ts:371`), whether it fails before anything
is written or after the event or the checkpoint of its transaction is durable,
and makes a rebind or a bootstrap write nothing. The daemon is `starting`
between listening and `sourceSupervisor.start()`, when requests are served
already, then `up`, `stopping` and `down`. A second process runs `source-once`, and rebind and
bootstrap keep a cursor over an await (`rebind`, `boot`). `waterline` and
`emitted` are histories which `DurableFeed` speaks of.

### ClaudeChannel

Every operation that changes a session runs under its lock. The daemon executes
calls in order, so a call made under the lock is one step with three outcomes:
answered, executed with the answer lost, not executed. Opening a session and
writing a wake keep the lock over several steps, since a stop, a takeover or a
request in between matters. The hook process posts SessionEnd and closes the
saved lease itself when the channel does not (`EndFallback`). `late` is a
SessionStart that was admitted before the process began to stop. `pipe` and
`attested` are histories. Requests with a wrong token, the settling of turns and
human prompts are left out: they are inputs of `AttentionChannels`.

### ReleaseLifecycle

The database is its main file and its write-ahead log; `View` is what a
connection sees. A command runs through `checkpoint`, `status`, `snapshot`,
`manifest` and, for upgrade and restore, `configure`/`migrate`/`verify` or
`copy`/`unlink`/`rename`; each step may fail, which runs the code's catch and
finally blocks (`FailsEarly`, `BackupFails`, `FailsLate`, `RollbackFails`), and
the command may be killed at each (`Killed`). The daemon writes beside a backup;
during upgrade and restore there is none, which `--confirm-offline` asserts and
nothing enforces: the check of the checkpoint (`release-lifecycle.ts:141`) does
not notice an idle daemon.

### Command line and MCP server

Their dispatch is not modelled for itself. What each tool or command asks of the
core is a group of the steps of other processes: `Install`, `Schedule`,
`WatchCall`, `AgentStep`, `OwnerStep`, `OperatorStep` and `Begins`.

## 3. What the runs check

| Run | Instance | Shows |
|---|---|---|
| `outbox_processes` | daemon and another process; two takeovers with one attempt, or one takeover with two | `SingleActiveAttempt`, `EvidenceMatchesAttempt`, `SeenByCurrentAttempt`, `OutstandingNonceIsCurrent`, `DeletedIsClosed`, `TerminalIsFinal`, `TypeOK` |
| `outbox_claims` | 2 claims in one batch, one process; both claims with one attempt, or one claim with two | `NoLostClaim`, `QueuedBatchCarriesClaims`, `ImplementsLease` |
| `outbox_progress` | daemon and another process, `FairSpec` | `LeaseEnds`, `AcceptanceIsAnswered`, `SettledWorkIsRetired` |
| `ingest` | 2 processes; 2 kinds of emit and a schedule; 2 claims, 1 batch, 1 policy version over the default | `SameKeySameEvent`, `EventIsOwned`, `EventsFollowClaim`, `ScheduleNeverCorrupt`, `KeptBatchKeepsClaims`, `DeletedChannelIsQuiet`, `ClaimHasOneSemantics`, `InstalledIsImmutable` |
| `channels` | 3 channels under a limit of 2, 2 endpoints, 2 calls at a time | `ChannelLimitHolds`, `BindingsAdvance`, `EvidenceIsCurrent`, `EveryFireIsAClaim` |
| `sessions` | 2 processes of one session, wildcard and one-channel credential, 2 channels | `OnlyItsOwnLease`, `RotatedTogether`, `PresenceEndsWithSession` |
| `sources` | 2 identities, pages of one item, 2 pages a cycle, daemon and `source-once` | `NothingSkipped`, `OneCyclePerSlot`, `DisabledIsQuiet`, `ImplementsFeed`, `PolledAgain` |
| `claude` | 2 launches of one session, 2 attempts, one sent twice, cache of 1 | `NeverReclaims`, `LeaseHeldIsLive`, `DeliveredOnce`, `EvidenceIsEarned` |
| `release` | 3 directories, 3 writes, schema 8 and 9 | `NothingAcknowledgedIsLost`, `DatabaseIsWhole`, `AllOrNothing` |
| `attested_redelivery`, `seen_without_receipt`, `timeout_unreported` | the smallest that violates | section 4 |

**Bounds and why they are enough.** The code bounds none of attempts, takeovers,
tokens, revisions or writes; each is cut off by a constant in a guard
(`MaxAttempt`, `MaxGeneration`, `MaxGen`, `MaxToken`, `MaxEpoch`, `MaxSeq`,
`MaxRev`, `MaxLog`, `MaxVersion`, `MaxWrites`). Two of each is what a late actor
needs in order to meet a newer attempt, binding, token or version, and the
loops act on one row at a time or on all by the same condition. In
`outbox_processes` the constraint `TakeoversAndAttempts` keeps attempts plus
takeovers at three, and at two once the batch is seen or cancelled: what may
follow a final state (`DeletedIsClosed`, `TerminalIsFinal`) is proved without
bounds. `ClaimsAndAttempts` does the same for claims and attempts in
`outbox_claims`. In `claude` only the first launch gets wakes, a SessionEnd
hook and an orderly stop (`Interactive`), and three registrations let a launch
open, be superseded and open again; `MaxCache` of one makes the cache evict. In
`channels` the third channel only counts for the limit, and
`DeletionsAndTakeovers` keeps to one deleted channel and to one takeover beside
a first binding. `AttemptsAndRegistrations` takes a second registration in
`claude` only while one of the attempts is still to be sent. In `sources` the
owner's bootstrap excludes a rebind and a `source-once` at the same time, which
are explored with the daemon and with each other. In `release` three
directories are a backup, a restore of it and its rollback copy. In `sessions`
one request is on its way beside the one being handled.

Deadlock is checked in all runs but `claude` and `release`, where the bounds
really end the behaviour: a launch ends and is not started again, and a daemon
with no writes and no free directories left has nothing to do.

`ImplementsLease` maps the batch states to the phases absent, queued, leased,
sent, failed and closed, the attempt number to the epoch and the accepted
attempts to the accepted epochs. Its strength is in what `DeliveryLease` does
not allow: a lease without a new epoch, an acceptance by an epoch that does not
hold the lease, and a way back from sent to queued. `ImplementsFeed` maps
variables to themselves; its strength is that every commit, rebind and bootstrap
of any process is an advance past emitted items or a new binding.

`DeliveredOnce` states what a bounded cache can give: between two writes of one
attempt lie at least as many other attempts as the cache holds.

Every property of a passing run has a mutant of the code in its module (“Mutant:
...” or “Mutant of ...”): a dropped condition of a CAS, a lookup by the wrong
key, a token that is not compared, a step order that is swapped. With the mutant
in place TLC finds the property violated.

### Fairness

`DeliveryOutbox.FairSpec` assumes what the daemon's scheduling gives.
`triggerScheduler` starts a pass every second unless one runs, a pass runs to
its end, and a transport gives up after its own timeout
(`out-of-process-host.ts`): the steps of a daemon pass are strongly fair.
Strong, because a pass is disabled while another pass or an echo of the same
process is between two calls, and not for ever, as the event loop reaches every
caller. `RecoverLeases` and `RetireSettled` are strongly fair by themselves:
without it a daemon could be killed between the two transactions of `recover()`
at every restart. A started echo finishes, and time passes. Nothing is assumed
of agents, hosts, operators or processes other than the daemon, so the three
liveness properties hold with a dead endpoint and an agent that never answers.
In `outbox_progress` the failure of the last attempt leaves the batch in the
queue, where `LeaseEnds` no longer speaks of it.

`SourcePolling.Spec` assumes that a timer that is set fires (weak fairness of
`TimerFires`) and nothing else: `PolledAgain` says that a cycle is under way
again and again, whatever ended the last one, unless the source is disabled or
asks for attention. That cycles end, by the connector's 15 s timeout, is not
needed for it.

## 4. Where code and documentation disagree

Each of these runs checks one sentence of the documentation or of a comment and
TLC finds a behaviour of the code that contradicts it.

* `attested_redelivery`: the echo is said to settle the batch of the current
  attempt as seen (`docs/operations/out-of-process-host-adapter.md:178-179`).
  While the batch is dispatching it only consumes the nonce and leaves settling
  to `finalizeAttempt`; after a crash before that, the attested batch is
  delivered again.
* `seen_without_receipt`: in the same place the echo is said to record
  `host_attested`. The UPDATE to seen does not depend on the nonce still being
  outstanding; when another process revokes the endpoint or expires the nonce
  between the echo's read and its transaction, the batch becomes seen with no
  receipt.
* `timeout_unreported`: a comment in `recover()` says a timed-out batch “still
  raises its incident”. The incident follows the transaction; after a crash in
  between nobody raises it, and the next recovery may close the batch.

Met while reading, in the models but not stated as runs:

* `configureActivityWatch` writes `next_due_at` from a row read before its
  transaction (`core.ts:1444`), and the firing writes it from a mode that may
  have changed (`core.ts:1797`): a reminder can be due at once, or stay due,
  against `docs/inactivity-watch.md:58`.
* `docs/protocol.md:395` says the claim ids of a batch no longer change once its
  window has closed; finished, snoozed and gated claims are taken out until the
  batch is acquired (`core.ts:2182`, `core.ts:2456`).
* An older schema is migrated by separate commits, and the first of them writes
  version 2 (`db.ts:70`). An upgrade killed after it leaves a version below the
  oldest supported one, which backup, upgrade and also `restore` refuse
  (`release-lifecycle.ts:260`, `:327`), while
  `docs/operations/release-lifecycle.md:179-183` names `restore` as the way
  back. Nothing is lost (`NothingAcknowledgedIsLost`): the backup made by the
  upgrade is complete, and it has to be put back by hand. Likewise a first start
  killed while it creates the schema leaves a file that is refused (`db.ts:44`).
* A source that is disabled and enabled again around a cycle that ends in
  `needs_attention` is enabled and not polled (`source-connector.ts:280`);
  `PolledAgain` excludes it by `slot.broken`. A `source-once` that overlaps a
  cycle of the daemon makes the daemon's commit fail, which leaves the source in
  `needs_attention`. The live manifest is fetched once per cycle
  (`source-connector.ts:351`), not for each page as `docs/protocol.md` (around
  line 565) suggests.
* In the Claude adapter, a failed write of `session.json` leaves an open session
  without renewals (`channel.mjs:623`); a broken pipe does not stop renewals, so
  the daemon keeps sending and gets 425; a renewal after the hook closed the
  lease revives it.
* `revokeEndpoint` does not repeat its token check in its transaction
  (`core.ts:1289`). A registration from the owner's command line
  (`core.ts:1197`, `cli.ts:720`) that falls between the two, and gives the
  endpoint a new token and lease, is ended by the holder of the older token.
  `OnlyItsOwnLease` speaks of what the host itself opened last, or newer, and
  does not exclude it.
* Two processes that create a fresh database, or configure the first watch of a
  channel, at once: one gets the raw UNIQUE error of SQLite (`core.ts:669-722`,
  `core.ts:1436`).

## 5. What is proved

Every invariant, every action property and both refinements that the passing
runs check are theorems of the specifications, for every value of the constants
that satisfies the assumption of the module. What the assumptions say of the
code's world:

* `DeliveryOutbox`: the daemon's passes are some of the workers
  (`WorkersAssumption`), the mark for “no batch” is none
  (`NoBatchAssumption`), a batch may hold at least one claim (`BoundsAssumption`).
* `ClaimIngest`: the two assumptions on callers of section 2 and marks that are
  no ids (`RequestsAssumption`), the four kinds of rule (`ContentsAssumption`).
* `SourcePolling`: a page has at least one item, the cycles of the two
  processes are distinct, some identity exists (`SourceAssumption`).
* `AttentionChannels`: a session names at least one and finitely many channels
  (`ChannelsAssumption`); the set of channels itself may be infinite.
* `HostSessions`: a host has one session, and a limited credential serves
  channels of its scope (`HostsAssumption`).
* `ClaudeChannel`: the cache holds at least one attempt, and marks are no values
  (`BoundsAssumption`).
* `ReleaseLifecycle`: the versions in their order (`VersionsAssumption`).

The bounds on counters (`MaxAttempt`, `MaxGen`, ...) are arbitrary natural
numbers in the proofs, and no symmetry or constraint of a run enters them.

Each module of proofs has the same shape: the invariant as a conjunction of
named parts, types, lemmas on what the steps have in common (a frame of what
most steps leave alone), a lemma for each step that does more, and the theorems.

### DeliveryOutbox (`DeliveryOutbox_proofs`)

* `TypeCorrect`: `TypeOK` is not inductive, because `FinalizeAttempt` writes a
  receipt for the attempt its worker names. `TypeInv` adds that a pass at a
  control point that works on a batch or an attempt names one, and likewise the
  echo.
* `TerminalStaysFinal` (`TerminalIsFinal`). The needed strengthening is
  `EchoCapture`: the state the echo captured, by which it later settles the
  batch, is one that is not final. All other writers re-check the state.
* `OneActiveAttempt` (`SingleActiveAttempt`). With `TypeInv` and `EchoCapture`
  it is inductive as stated, since it is an equivalence: a leased attempt owns
  its dispatching batch and a dispatching batch has a leased attempt. Most
  actions leave both sides alone (`LeasesUntouched`); the five that do not
  (recovery, acquisition, giving up, finalizing, deletion) are shown to move
  them together. `EndKeepsOneAttempt` is the heart: a worker may end its own
  attempt without owning the batch, and then the attempt was no longer leased.
* `DeletedStaysClosed` (`DeletedIsClosed`). What a deletion leaves behind
  (`Closed`) is inductive given `TypeInv` and `EchoCapture`: every action that
  could reopen something asks for a claim, a batch, a nonce or a channel that
  `Closed` excludes. Only a worker that still ends its attempt, the echo's
  transaction and a stale recovery write at all, and they write what was there
  or what is closed.
* `ClaimsAreCarried` (`NoLostClaim`) and `QueueCarriesClaims`
  (`QueuedBatchCarriesClaims`), inductive together (`Carried`). Every step but
  freezing and appending satisfies a frame: a batch keeps its claims, except
  those that are no longer batched after the step, and is not cancelled while
  one of its claims stays batched.

### Evidence and the refinement of DeliveryLease (`DeliveryOutboxEvidence_proofs`)

* `NoncesAreCurrent` (`OutstandingNonceIsCurrent`) rests on `Holders`: between
  acquiring and finalizing, a numbered attempt is held by one pass only, and its
  generation is the one that pass resolved. Then the fence at the hand-over
  compares the generation of the attempt itself.
* `EvidenceIsTrue` (`EvidenceMatchesAttempt`) and `SeenIsCurrent`
  (`SeenByCurrentAttempt`) rest on `Evidence`: an accepted attempt is the latest
  of its batch, which was sent or closed (`AcceptedIsLatest`), and whatever a
  pass has read as attested left a receipt (`AttestationIsRecorded`).
* `OutboxImplementsLease` (`ImplementsLease`): the initial states map to
  absent batches, and each step is quiet, a lease, an acceptance or a hand-over
  (`MayMove`, `LeaseStep`), of one batch or of several that move
  independently. `AcceptedIsNeverResent` draws the conclusion: the safety that
  `DeliveryLease` promises holds of the outbox.

### ClaimIngest (`ClaimIngest_proofs`)

One invariant, `IngestInv`, in five groups: who holds an event (`Ownership`),
which event a key has (`KeysAnswer`), which rules a claim and a match are of
(`RulesAgree`), what a batch refers to (`BatchesRefer`), and what a deleted
channel leaves. From it follow `KeyHasOneEvent` (`SameKeySameEvent`),
`CommitmentsAreIntact` (`ScheduleNeverCorrupt`), `EventHasOneOwner`
(`EventIsOwned`), `EventsFinishWithClaim` (`EventsFollowClaim`),
`BatchesKeepClaims` (`KeptBatchKeepsClaims`), `DeletionIsFinal`
(`DeletedChannelIsQuiet`), `RulesDoNotMix` (`ClaimHasOneSemantics`), and, as an
action property, `VersionsStay` (`InstalledIsImmutable`).

Cardinalities are avoided in the invariant (disjoint claims instead of one
owner) and come back in `EventHasOneOwner`. What a matched emit carries over to
its commit is in `RulesAgree`: the candidate has the rules of the match as long
as it exists. That a highest installed version exists, by which the policy of a
match is chosen, follows from the well-foundedness of the naturals. The steps
that create no rows satisfy a frame (`RowsKept`): a row keeps what it was
created with, unless retention takes it.

### SourcePolling and the refinement of DurableFeed (`SourcePolling_proofs`)

* `SlotHasOneCycle` (`OneCyclePerSlot`) and `DisabledStaysQuiet`
  (`DisabledIsQuiet`) from `SlotInv`, which adds that a daemon that is down has
  no promise and that a source that is off has a disabled slot.
* `NothingIsSkipped` (`NothingSkipped`) from `FeedInv`. A cycle that will
  commit knows that all from the start or from the checkpoint it read up to its
  position is emitted (`ReadIsEmitted`); revisions only grow, so if the
  compare-and-swap succeeds, the checkpoint it read is the one it replaces
  (`RevisionsGrow`).
* `FeedIsDurable` (`ImplementsFeed`) by the same invariant: a commit is an
  advance of `DurableFeed` past emitted items, rebind and bootstrap are bindings;
  what a failing database call leaves behind is such a step or none.

### AttentionChannels (`AttentionChannels_proofs`)

`ChannelInv` holds what the rows of the watch know of each other and of the
calls that have read them: a configuration that found a row still finds one, an
epoch that a tick has read is not newer than the row and has not lost its
activity if it is the row's (`CallsFit`), and the latest claim is of an earlier
epoch or is the row's own (`LatestFits`). The limit is about finite sets
(`WithinLimit`): registering `k` new channels adds at most `k`. Theorems:
`ChannelsStayWithinLimit`, `EvidenceEndsWithBinding` (`EvidenceIsCurrent`) and
the action properties `GenerationsAdvance` (`BindingsAdvance`) and
`FiresAreClaims` (`EveryFireIsAClaim`).

### HostSessions (`HostSessions_proofs`)

`SessionInv` adds to `RotatedTogether` and `PresenceEndsWithSession` that the
last token given out is one the endpoint has had (`OpenedIsIssued`) and that the
handler under way was admitted as the code admits it (`AdmittedAsChecked`): no
open replaces the token between a handler's reads and its transaction, though
the owner may come between. `SessionRotatesTogether`, `PresenceIsOfSession` and
`LeaseIsItsOwn` (`OnlyItsOwnLease`) follow.

### ClaudeChannel (`ClaudeChannel_proofs`)

* `HeldLeaseIsLive` (`LeaseHeldIsLive`) from `LeaseInv`. A token is known to
  one launch only, as its session, the grant it is about to handle, the saved
  file or what its hook read (`TokensAreOwn`), so that a close with that token
  can only come from that launch; and a grant whose answer is not handled yet is
  live (`GrantIsLive`). `FencedStaysFenced` (`NeverReclaims`) uses that a
  process that has served no session has left nothing behind (`OpensOnce`).
* `WrittenOnce` (`DeliveredOnce`) from `DeliveryInv`: as long as the process
  writes, its cache is the end of what was handed to the pipe, without
  repetitions, and as long as it can be (`IsTail`). A new nonce is in no such
  end, so at least as many others lie behind its last occurrence. A failed write
  takes a nonce out of the cache, but the pipe is broken then and takes no more.
* `EchoIsEarned` (`EvidenceIsEarned`) from the same invariant: a nonce is
  outstanding only where it was handed over (`OutstandingOf`).

### ReleaseLifecycle (`ReleaseLifecycle_proofs`)

* `Durability` (`NothingAcknowledgedIsLost`) and `Wholeness`
  (`DatabaseIsWhole`), from one inductive invariant `IInv`. Neither is inductive
  alone: that a write may be dropped from the database rests on a backup, and
  that backup on what the command knew when it made it. `IInv` adds what a
  command knows at each step: no daemon beside an upgrade or a restore
  (`Offline`), the output directory is its own (`OwnOutput`), the snapshot has
  the version that was read (`SnapshotIsCurrent`), before the database is
  touched every acknowledged write is in a readable backup
  (`SavedBeforeTouched`), and the log is gone when the file is renamed
  (`NoLogAtRename`).
* `Atomicity` (`AllOrNothing`) from `IInv` and `Progress`, which says how far
  each command has come: a backup keeps up with the daemon beside it, another
  command has changed nothing before its own backup holds what it began with,
  and at `verify` the database is what was asked for.

### Only model-checked

The liveness properties (`LeaseEnds`, `AcceptanceIsAnswered`,
`SettledWorkIsRetired`, `PolledAgain`): they rest on fairness and `ENABLED`,
which the prover does not handle. The three runs of section 4 are
counterexamples, which TLC finds. Induction over data and RECURSIVE operators
are outside the prover's reach as well; no module uses them. `TypeOK` is proved
of every detailed module; only `outbox_processes` also checks it, since the
types carry the other invariants.

## 6. Not modelled, and the plan

Not modelled: quiet hours (`util.ts`: minute boundaries under the runtime's
time-zone database) and the capped retry delay (`core.ts:2260`), since time is a
choice in all models; provider adapters and connectors (mapping and I/O); HTTP
parsing, authentication and limits; service files and reports of the release
commands; configuration files; audit rows, wording and formatting.

The plan, in this order:

1. The orderly stop of the daemon: `close()` stops the host adapters before it
   clears the scheduler's timer, and `server.close` does not wait for a handler
   whose client went away (`daemon.ts`).
2. A run for the stale `next_due_at` of a watch.
3. Proofs of what may follow the disagreements of section 4: what does hold of a
   batch that was attested while it was dispatching, and of one that timed out.
4. The retry delay against a reference definition over bounded inputs.
