---------------------------- MODULE ClaimIngest ----------------------------
(***************************************************************************)
(* How events become attention claims, and how long their rows last:       *)
(* emitEvent and scheduleClaim, the policy registry they match against,    *)
(* the gates and the freezing of claims in tick(), the owner's actions on  *)
(* claims, the deletion of the channel (src/src/core.ts) and pruneHistory  *)
(* (src/src/retention.ts).                                                 *)
(*                                                                         *)
(* Procs are processes over one SQLite file: source runners, the CLI, MCP  *)
(* servers and the daemon.  A database call is one atomic step, so an emit *)
(* is a lookup, a choice of policy and merge candidate, and one            *)
(* transaction, with other processes between them; a process may die at    *)
(* each of these points and its caller may repeat the request.             *)
(*                                                                         *)
(* Abstractions.                                                           *)
(*  - One source, one resource, one channel, one policy id (besides the    *)
(*    built-in default, version 0).  A policy version is its Content:      *)
(*    what it delivers and with which merge semantics.                     *)
(*  - An event id derived from an idempotency key is that key.             *)
(*  - Actions whose transaction compares the state they read (the gates,   *)
(*    snooze, dismiss, consume, expire) are one step: with the comparison  *)
(*    lost they write nothing.                                             *)
(*  - What DeliveryOutbox does to a batch is reduced to its outcomes.      *)
(*  - Time is a choice: a claim is due, expires or is old enough to be     *)
(*    pruned at any moment.                                                *)
(***************************************************************************)
EXTENDS Integers, FiniteSets

CONSTANTS
    Procs,        \* processes that emit, schedule or install
    Keys,         \* dedupe keys of events
    Idems,        \* idempotency keys
    NoIdem,       \* a request without one
    Fresh,        \* random event ids
    Claims,       \* claim ids
    NoClaim,
    Batches,
    Requests,     \* [kind: {"emit","schedule"}, key: Keys, idem: Idems \cup {NoIdem}]
    Contents,     \* what a policy version may say
    MaxVersion,   \* bound: versions of the policy
    MaxBatchClaims

ASSUME RequestsAssumption ==
    /\ Requests \subseteq [kind: {"emit", "schedule"}, key: Keys, idem: Idems \cup {NoIdem}]
    /\ NoIdem \notin Idems \cup Fresh /\ Idems \cap Fresh = {} /\ NoClaim \notin Claims
    \* An error is no event id.
    /\ "storage_corrupt" \notin Idems \cup Fresh
    \* Self commitments have a source of their own: no key is used by both kinds.
    /\ \A r, s \in Requests : r.key = s.key => r.kind = s.kind
    \* An idempotency key belongs to one event of one caller.
    /\ \A r, s \in Requests : r.idem = s.idem /\ r.idem # NoIdem => r.key = s.key
\* "now" is the rule of the built-in default, "later" has merge semantics of its
\* own, "off" is a disabled version.
ASSUME ContentsAssumption == Contents \subseteq {"now", "later", "suppress", "off"}
ASSUME IngestBounds == MaxVersion \in Nat \ {0} /\ MaxBatchClaims \in Nat \ {0}

VARIABLES
    policies,   \* rule of each installed version
    events,     \* rows of events and event_status
    claims,     \* rows of claims
    batches,    \* rows of batches
    channel,    \* "absent", "active" or "deleted"
    procs,      \* the local variables of each process
    answers     \* what requests have returned so far

vars == <<policies, events, claims, batches, channel, procs, answers>>

------------------------------------------------------------------------------
ActiveClaims    == {"pending", "deferred", "eligible"}
FinalizedClaims == {"consumed", "dismissed", "expired"}
FinishedEvents  == {"consumed", "expired"}
FinishedBatches == {"seen", "cancelled"}

EventIds == Idems \cup Fresh
Versions == 1..MaxVersion

SelfPolicy == MaxVersion + 1    \* policy_id self_commitment, in no policies row

EventRow == [st: {"none", "matched", "batched", "suppressed"} \cup FinishedEvents,
             key: Keys \cup {NoIdem}, ver: 0..SelfPolicy]
ClaimRow == [st: {"none", "batched", "pruned"} \cup ActiveClaims \cup FinalizedClaims,
             events: SUBSET EventIds, ver: 0..SelfPolicy]
BatchRow == [st: {"none", "open", "dispatched", "dead_letter", "pruned"} \cup FinishedBatches,
             claims: SUBSET Claims, ver: 0..SelfPolicy]

NoEvent == [st |-> "none", key |-> NoIdem, ver |-> 0]
NoRow   == [st |-> "none", events |-> {}, ver |-> 0]
NoBatch == [st |-> "none", claims |-> {}, ver |-> 0]

Idle == [pc |-> "idle"]
ProcRow ==
    {Idle}
    \cup [pc: {"looked", "asked"}, req: Requests]
    \cup [pc: {"matched"}, req: Requests, ver: 0..MaxVersion,
          content: Contents \cup {"now"}, cand: Claims \cup {NoClaim}]
    \cup [pc: {"install"}, ver: Versions, content: Contents]

\* An answer names an event, unless the storage was found corrupt; the refusal
\* claim_pruned needs no record.
Answer == [key: Keys, event: EventIds \cup {"storage_corrupt"}]

TypeOK ==
    /\ policies \in [Versions -> Contents \cup {"none"}]
    /\ events \in [EventIds -> EventRow]
    /\ claims \in [Claims -> ClaimRow]
    /\ batches \in [Batches -> BatchRow]
    /\ channel \in {"absent", "active", "deleted"}
    /\ procs \in [Procs -> ProcRow]
    /\ answers \subseteq Answer

Init ==
    /\ policies = [v \in Versions |-> "none"]
    /\ events = [e \in EventIds |-> NoEvent]
    /\ claims = [c \in Claims |-> NoRow]
    /\ batches = [b \in Batches |-> NoBatch]
    /\ channel = "absent"
    /\ procs = [p \in Procs |-> Idle]
    /\ answers = {}

------------------------------------------------------------------------------
(* The policy registry.                                                     *)

Installed == {v \in Versions : policies[v] # "none"}
Highest   == IF Installed = {} THEN 0
             ELSE CHOOSE v \in Installed : \A u \in Installed : u <= v

\* listActivePolicies: the highest version only; a disabled one matches nothing
\* and leaves the built-in default.
MatchedVersion == IF Highest # 0 /\ policies[Highest] = "off" THEN 0 ELSE Highest
ContentOf(v)   == IF v = 0 THEN "now" ELSE policies[v]

\* installPolicies reads every row: an equal row needs nothing, another content
\* is a conflict, and a version below the highest is refused.
InstallRead(p, v, content) ==
    /\ procs[p] = Idle
    /\ policies[v] = "none" /\ v > Highest
    /\ procs' = [procs EXCEPT ![p] = [pc |-> "install", ver |-> v, content |-> content]]
    /\ UNCHANGED <<policies, events, claims, batches, channel, answers>>

\* Mutant: the later installer replaces the row.
InstallCommitReplacing(p) ==
    /\ procs[p].pc = "install"
    /\ policies' = [policies EXCEPT ![procs[p].ver] = procs[p].content]
    /\ procs' = [procs EXCEPT ![p] = Idle]
    /\ UNCHANGED <<events, claims, batches, channel, answers>>

\* ... and inserts what was missing; PRIMARY KEY(id, version) is the arbiter.
InstallCommit(p) ==
    LET v == procs[p].ver IN
    /\ procs[p].pc = "install"
    /\ policies' = IF policies[v] # "none" THEN policies
                   ELSE [policies EXCEPT ![v] = procs[p].content]
    /\ procs' = [procs EXCEPT ![p] = Idle]
    /\ UNCHANGED <<events, claims, batches, channel, answers>>

------------------------------------------------------------------------------
(* emitEvent.                                                               *)

\* duplicateEmitResult: the event of the idempotency key, else of the dedupe key.
WithKey(k) == {e \in EventIds : events[e].st # "none" /\ events[e].key = k}
Known(r)   == IF r.idem \in EventIds /\ events[r.idem].st # "none" THEN {r.idem}
              ELSE WithKey(r.key)
Answers(r, found) == {[key |-> r.key, event |-> e] : e \in found}

EmitLookup(p, r) ==
    /\ procs[p] = Idle /\ r.kind = "emit"
    /\ answers' = answers \cup Answers(r, Known(r))
    /\ procs' = IF Known(r) # {} THEN procs
                ELSE [procs EXCEPT ![p] = [pc |-> "looked", req |-> r]]
    /\ UNCHANGED <<policies, events, claims, batches, channel>>

\* Mutant: merging looks at the resource alone.
MergeableAnyRule(ver) ==
    {c \in Claims : claims[c].st \in ActiveClaims /\ claims[c].ver # SelfPolicy}

\* Active claims made under equal delivery, batch and expiry rules.
Mergeable(ver) ==
    {c \in Claims : /\ claims[c].st \in ActiveClaims
                    /\ claims[c].ver # SelfPolicy
                    /\ ContentOf(claims[c].ver) = ContentOf(ver)}

EmitMatch(p) ==
    /\ procs[p].pc = "looked"
    /\ LET ver   == MatchedVersion
           cands == IF ContentOf(ver) = "suppress" THEN {} ELSE Mergeable(ver)
       IN \E c \in IF cands = {} THEN {NoClaim} ELSE cands :
             procs' = [procs EXCEPT ![p] =
                 [pc |-> "matched", req |-> @.req, ver |-> ver,
                  content |-> ContentOf(ver), cand |-> c]]
    /\ UNCHANGED <<policies, events, claims, batches, channel, answers>>

\* Mutant: a tombstone does not stop a write.
GuardStatusesUnchecked == IF channel = "absent" THEN {"ok", "channel_limit_reached"} ELSE {"ok"}

\* channelGuardSql: whether the channel may be written, or registered first.
\* Other channels fill the registry at will.
GuardStatuses == IF channel = "deleted" THEN {"channel_deleted"}
                 ELSE IF channel = "absent" THEN {"ok", "channel_limit_reached"}
                 ELSE {"ok"}

\* channelRegistrationSql: the first write registers the channel.
Registered == IF channel = "absent" THEN "active" ELSE channel

\* Mutant: without the unique index only an id can collide.
ConflictById(e, k) == events[e].st # "none"

\* UNIQUE(instance_id, source, dedupe_key) and the primary key of events.
Conflict(e, k) == events[e].st # "none" \/ WithKey(k) # {}

NewIds(r) == IF r.idem # NoIdem THEN {r.idem} ELSE {e \in Fresh : events[e].st = "none"}
NewClaims == {c \in Claims : claims[c].st = "none"}

\* Mutant: the state of the candidate is not read again.
CanAppendRead(c) == c # NoClaim /\ claims[c].st # "pruned"

\* The row is appended to the candidate while it is still unfrozen; otherwise a
\* claim of its own is inserted in the same transaction.
CanAppend(c) == c # NoClaim /\ claims[c].st \in ActiveClaims

\* Mutant: no replacement when the candidate was lost.
OwnedNoFallback(cand, e, ver) ==
    IF CanAppend(cand) THEN {[claims EXCEPT ![cand].events = @ \cup {e}]}
    ELSE IF cand # NoClaim THEN {claims}
    ELSE {[claims EXCEPT ![c] = [st |-> "pending", events |-> {e}, ver |-> ver]] : c \in NewClaims}

Owned(cand, e, ver) ==
    IF CanAppend(cand)
    THEN {[claims EXCEPT ![cand].events = @ \cup {e}]}
    ELSE {[claims EXCEPT ![c] = [st |-> "pending", events |-> {e}, ver |-> ver]] :
              c \in NewClaims}

EmitCommit(p) ==
    LET job == procs[p]  r == job.req IN
    /\ job.pc = "matched"
    /\ \E e \in NewIds(r), status \in IF job.content = "suppress" THEN {"ok"} ELSE GuardStatuses :
         LET matched == job.content # "suppress" /\ status = "ok" IN
         IF Conflict(e, r.key)
         THEN /\ answers' = answers \cup Answers(r, Known(r))
              /\ UNCHANGED <<events, claims, channel>>
         ELSE /\ events' = [events EXCEPT ![e] =
                     [st |-> IF matched THEN "matched" ELSE "suppressed",
                      key |-> r.key, ver |-> job.ver]]
              /\ IF matched THEN claims' \in Owned(job.cand, e, job.ver)
                 ELSE UNCHANGED claims
              /\ channel' = IF matched THEN Registered ELSE channel
              /\ answers' = answers \cup Answers(r, {e})
    /\ procs' = [procs EXCEPT ![p] = Idle]
    /\ UNCHANGED <<policies, batches>>

------------------------------------------------------------------------------
(* scheduleClaim: one claim per key, made with its event.                   *)

OwnersOf(e) == {c \in Claims : e \in claims[c].events /\ claims[c].st # "pruned"}

\* The event of an earlier call answers with its claim, or says why it has none.
Scheduled(e) == IF OwnersOf(e) # {} THEN {e}
                ELSE IF events[e].st \in FinishedEvents THEN {}
                ELSE {"storage_corrupt"}

ScheduleLookup(p, r) ==
    /\ procs[p] = Idle /\ r.kind = "schedule"
    /\ channel # "deleted"
    /\ answers' = answers \cup Answers(r, UNION {Scheduled(e) : e \in WithKey(r.key)})
    /\ procs' = IF WithKey(r.key) # {} THEN procs
                ELSE [procs EXCEPT ![p] = [pc |-> "asked", req |-> r]]
    /\ UNCHANGED <<policies, events, claims, batches, channel>>

ScheduleCommit(p) ==
    LET r == procs[p].req IN
    /\ procs[p].pc = "asked"
    /\ \E e \in NewIds(r), c \in NewClaims, status \in GuardStatuses :
         IF status # "ok" THEN UNCHANGED <<events, claims, channel, answers>>
         ELSE IF Conflict(e, r.key)
         THEN /\ answers' = answers \cup Answers(r, {x \in WithKey(r.key) : OwnersOf(x) # {}})
              /\ UNCHANGED <<events, claims, channel>>
         ELSE /\ events' = [events EXCEPT ![e] =
                     [st |-> "matched", key |-> r.key, ver |-> SelfPolicy]]
              /\ claims' = [claims EXCEPT ![c] =
                     [st |-> "pending", events |-> {e}, ver |-> SelfPolicy]]
              /\ channel' = Registered
              /\ answers' = answers \cup Answers(r, {e})
    /\ procs' = [procs EXCEPT ![p] = Idle]
    /\ UNCHANGED <<policies, batches>>

Crash(p) ==
    /\ procs[p] # Idle
    /\ procs' = [procs EXCEPT ![p] = Idle]
    /\ UNCHANGED <<policies, events, claims, batches, channel, answers>>

------------------------------------------------------------------------------
(* tick() and the owner's actions on a claim.                               *)

\* claimStateSql and claimDeferSql: one claim, if it is still in the state that was read.
ClaimTo(c, st) == [claims EXCEPT ![c].st = st]

\* claimEventStateSql: the events a claim holds when its own update has landed.
EventsTo(c, st) == [e \in EventIds |-> IF e \in claims[c].events
                                       THEN [events[e] EXCEPT !.st = st] ELSE events[e]]

\* detachClaimFromOpenBatches
Detached(c) ==
    [b \in Batches |->
        IF batches[b].st = "open" /\ c \in batches[b].claims
        THEN [batches[b] EXCEPT !.claims = @ \ {c},
                                !.st = IF batches[b].claims = {c} THEN "cancelled" ELSE @]
        ELSE batches[b]]

\* The gates: quiet hours and presence defer, otherwise the claim is eligible.
TickGate(c) ==
    /\ claims[c].st \in ActiveClaims
    /\ \E st \in {"deferred", "eligible"} : claims' = ClaimTo(c, st)
    /\ UNCHANGED <<policies, events, batches, channel, procs, answers>>

\* Mutant: a claim expires and leaves its events matched.
TickExpireEventsKept(c) ==
    /\ claims[c].st \in ActiveClaims
    /\ claims' = [claims EXCEPT ![c].st = "expired"]
    /\ UNCHANGED <<policies, events, batches, channel, procs, answers>>

TickExpire(c) ==
    /\ claims[c].st \in ActiveClaims
    /\ claims' = ClaimTo(c, "expired")
    /\ events' = EventsTo(c, "expired")
    /\ UNCHANGED <<policies, batches, channel, procs, answers>>

\* batchKey: the policy id, the version and the channel; what else coalesces by event
\* is left out.
SameBatchKey(b, c) == batches[b].ver = claims[c].ver

\* batchInsertSql: a queued batch of one claim.
NewBatch(c) == [st |-> "open", claims |-> {c}, ver |-> claims[c].ver]

\* An eligible claim opens a batch or joins an open one of its policy version.
TickFreeze(c) ==
    /\ claims[c].st = "eligible"
    /\ \E b \in Batches :
         \/ /\ batches[b].st = "none"
            /\ batches' = [batches EXCEPT ![b] = NewBatch(c)]
         \/ /\ batches[b].st = "open" /\ SameBatchKey(b, c)
            /\ Cardinality(batches[b].claims) < MaxBatchClaims
            /\ batches' = [batches EXCEPT ![b].claims = @ \cup {c}]
    /\ claims' = ClaimTo(c, "batched")
    /\ events' = EventsTo(c, "batched")
    /\ UNCHANGED <<policies, channel, procs, answers>>

\* claimAction("snooze"): back before the gates, its events stay as they are.
SnoozeClaim(c) ==
    /\ claims[c].st \in ActiveClaims \cup {"batched"} /\ channel = "active"
    /\ claims' = [claims EXCEPT ![c].st = "pending"]
    /\ batches' = Detached(c)
    /\ UNCHANGED <<policies, events, channel, procs, answers>>

\* claimAction("dismiss" or "consume")
FinishClaim(c, st) ==
    /\ claims[c].st \in ActiveClaims \cup {"batched"} /\ channel = "active"
    /\ claims' = [claims EXCEPT ![c].st = st]
    /\ batches' = Detached(c)
    /\ events' = EventsTo(c, "consumed")
    /\ UNCHANGED <<policies, channel, procs, answers>>

------------------------------------------------------------------------------
(* The life of a batch, as DeliveryOutbox details it.                       *)

MoveBatch(b, from, to) ==
    /\ batches[b].st = from
    /\ batches' = [batches EXCEPT ![b].st = to]
    /\ UNCHANGED <<policies, events, claims, channel, procs, answers>>

AllFinished(b) == \A c \in batches[b].claims : claims[c].st \in FinalizedClaims

DispatchBatch(b) == MoveBatch(b, "open", "dispatched")
SettleBatch(b)   == \E st \in {"open", "dead_letter", "seen"} : MoveBatch(b, "dispatched", st)
RetireBatch(b)   == AllFinished(b) /\ MoveBatch(b, "open", "cancelled")
RetryBatch(b)    == /\ \A c \in batches[b].claims : claims[c].st = "batched"
                    /\ MoveBatch(b, "dead_letter", "open")

------------------------------------------------------------------------------
(* Deletion and retention.                                                  *)

Unfinished(c) == claims[c].st \in ActiveClaims \cup {"batched"}

\* deleteChannel({force: true}): what is not finished is dismissed, its events
\* expire, and every batch that is not finished is cancelled.
DeleteChannel ==
    /\ channel = "active"
    /\ channel' = "deleted"
    /\ events' = [e \in EventIds |->
          IF events[e].st \in {"matched", "batched"} /\ \E c \in OwnersOf(e) : Unfinished(c)
          THEN [events[e] EXCEPT !.st = "expired"] ELSE events[e]]
    /\ claims' = [c \in Claims |->
          IF Unfinished(c) THEN [claims[c] EXCEPT !.st = "dismissed"] ELSE claims[c]]
    /\ batches' = [b \in Batches |->
          IF batches[b].st \in {"open", "dispatched", "dead_letter"}
          THEN [batches[b] EXCEPT !.st = "cancelled"] ELSE batches[b]]
    /\ UNCHANGED <<policies, procs, answers>>

\* pruneHistory, where oldBatches and oldClaims were last updated before the
\* cutoff.  Events stay for ever.
PrunableBatches(oldBatches) ==
    {b \in oldBatches : batches[b].st \in FinishedBatches /\ AllFinished(b)}

\* Mutant: only queued batches hold on to their claims.
KeptRefsOpen(pruned) == UNION {batches[b].claims : b \in {x \in Batches : batches[x].st = "open"}}

KeptRefs(pruned) ==
    UNION {batches[b].claims : b \in {x \in Batches : batches[x].st # "pruned"} \ pruned}
PrunableClaims(oldClaims, pruned) ==
    {c \in oldClaims : claims[c].st \in FinalizedClaims} \ KeptRefs(pruned)

PruneHistory(oldBatches, oldClaims) ==
    LET prunedBatches == PrunableBatches(oldBatches)
        prunedClaims  == PrunableClaims(oldClaims, prunedBatches) IN
    /\ prunedBatches # {} \/ prunedClaims # {}
    /\ batches' = [b \in Batches |-> IF b \in prunedBatches
                                     THEN [NoBatch EXCEPT !.st = "pruned"] ELSE batches[b]]
    /\ claims' = [c \in Claims |-> IF c \in prunedClaims
                                   THEN [NoRow EXCEPT !.st = "pruned"] ELSE claims[c]]
    /\ UNCHANGED <<policies, events, channel, procs, answers>>

------------------------------------------------------------------------------
\* What callers may ask for: a policy file, an event at the ingress of its source, a
\* commitment and its end by the owner or the agent, and a clean-up by the owner.
Install == \E p \in Procs : \/ \E v \in Versions, t \in Contents : InstallRead(p, v, t)
                            \/ InstallCommit(p)
Emit == \E p \in Procs : \/ \E r \in Requests : EmitLookup(p, r)
                         \/ EmitMatch(p)
                         \/ EmitCommit(p)
Schedule == \E p \in Procs : \/ \E r \in Requests : ScheduleLookup(p, r)
                             \/ ScheduleCommit(p)
Tick == \E c \in Claims : TickGate(c) \/ TickExpire(c) \/ TickFreeze(c)
Owner == \E c \in Claims : \/ SnoozeClaim(c)
                           \/ \E st \in {"consumed", "dismissed"} : FinishClaim(c, st)
Deliver == \E b \in Batches : DispatchBatch(b) \/ SettleBatch(b) \/ RetireBatch(b) \/ RetryBatch(b)
Prune == \E ob \in SUBSET Batches, oc \in SUBSET Claims : PruneHistory(ob, oc)

Next == \/ Install \/ Emit \/ Schedule \/ \E p \in Procs : Crash(p)
        \/ Tick \/ Owner \/ Deliver \/ DeleteChannel \/ Prune

Spec == Init /\ [][Next]_vars

------------------------------------------------------------------------------
(* Properties.                                                              *)

\* Whatever way a request is repeated, at once, after a crash, under another
\* idempotency key or after pruning, everyone who asked with one dedupe key is
\* told of one event: emitEvent's lookups and its handling of the unique
\* conflict agree (core.ts 832-985).
SameKeySameEvent ==
    \A a, b \in answers : a.key = b.key => a.event = b.event

\* An event the bridge let through belongs to exactly one claim, however the
\* claim it was to be merged into has moved since it was read; only an event
\* that is finished may have lost its claim to pruneHistory.
EventIsOwned ==
    \A e \in EventIds :
        /\ events[e].st \in {"matched", "batched"} => Cardinality(OwnersOf(e)) = 1
        /\ events[e].st \in FinishedEvents => Cardinality(OwnersOf(e)) <= 1
        /\ events[e].st \in {"none", "suppressed"} => OwnersOf(e) = {}

\* A claim that is finished has finished all its events with it, also those
\* that were merged in by another process meanwhile; no other claim holds a
\* finished event.
EventsFollowClaim ==
    \A c \in Claims : \A e \in claims[c].events :
        claims[c].st \in FinalizedClaims <=> events[e].st \in FinishedEvents

\* scheduleClaim never finds its storage corrupt: retention and deletion only
\* take claims whose events say that they are finished (core.ts 990-1000).
ScheduleNeverCorrupt ==
    \A a \in answers : a.event # "storage_corrupt"

\* A batch that retention keeps, a dead letter an operator may retry above all,
\* refers to claims that still exist (retention.ts 58-66).
KeptBatchKeepsClaims ==
    \A b \in Batches : \A c \in batches[b].claims : claims[c].st # "pruned"

\* Nothing waits on a deleted channel, whatever was being emitted, scheduled or
\* delivered when it was deleted.
DeletedChannelIsQuiet ==
    channel = "deleted" =>
        /\ \A c \in Claims : ~Unfinished(c)
        /\ \A b \in Batches : batches[b].st \in {"none", "pruned"} \cup FinishedBatches

\* A claim only gathers events that were matched under the rules the claim
\* itself was made under, although the policy may be replaced between the match
\* and the transaction.
ClaimHasOneSemantics ==
    \A c \in Claims : \A e \in claims[c].events :
        IF claims[c].ver = SelfPolicy THEN events[e].ver = SelfPolicy
        ELSE ContentOf(events[e].ver) = ContentOf(claims[c].ver)

\* An installed version stays as it is, whatever two installers of it read
\* before they wrote (core.ts 629-677).
InstalledIsImmutable ==
    [][\A v \in Installed : policies'[v] = policies[v]]_policies
==============================================================================
