------------------------- MODULE ClaimIngest_proofs -------------------------
(***************************************************************************)
(* Proofs about ClaimIngest, for every set of processes, requests, claims  *)
(* and batches, and every number of policy versions.  First the types,     *)
(* then the invariants by subject - who owns an event, which event answers *)
(* a key, which rules a claim was made under, what a batch refers to, what *)
(* a deleted channel leaves - and the steps, those that create rows apart  *)
(* from those that move them on.                                           *)
(***************************************************************************)
EXTENDS ClaimIngest, FiniteSetTheorems, WellFoundedInduction, TLAPS

------------------------------------------------------------------------------
(* The invariants.                                                          *)

Pending == {"matched", "batched"}    \* an event that is not finished

\* An event is held by at most one claim, one that is not finished by some claim, and a
\* claim that is not there holds none.
Ownership ==
    /\ \A c \in Claims : claims[c].st \in {"none", "pruned"} => claims[c].events = {}
    /\ \A c, d \in Claims : c # d => claims[c].events \cap claims[d].events = {}
    /\ \A c \in Claims : \A e \in claims[c].events : events[e].st \in Pending \cup FinishedEvents
    /\ \A e \in EventIds : events[e].st \in Pending => \E c \in Claims : e \in claims[c].events
    /\ EventsFollowClaim

\* A dedupe key has one event, an idempotency key the event of its requests, and whoever
\* was answered was told of it; no commitment is suppressed.
Present(e) == events[e].st # "none"

KeysAnswer ==
    /\ \A e, f \in EventIds : Present(e) /\ Present(f) /\ events[e].key = events[f].key => e = f
    /\ \A r \in Requests : r.idem \in EventIds /\ Present(r.idem) => events[r.idem].key = r.key
    /\ \A a \in answers : a.event \in EventIds /\ Present(a.event) /\ events[a.event].key = a.key
    /\ \A r \in Requests : r.kind = "schedule" =>
          \A e \in WithKey(r.key) : events[e].st # "suppressed"
    /\ \A p \in Procs :
          /\ procs[p].pc \in {"looked", "matched"} => procs[p].req.kind = "emit"
          /\ procs[p].pc = "asked" => procs[p].req.kind = "schedule"

\* What was matched refers to a version that is installed, and a claim to merge into, as
\* long as it exists, to one of the same rules.
Known0 == {0} \cup Installed

RulesAgree ==
    /\ \A c \in Claims : claims[c].ver \in Known0 \cup {SelfPolicy}
    /\ \A e \in EventIds : events[e].ver \in Known0 \cup {SelfPolicy}
    /\ ClaimHasOneSemantics
    /\ \A c \in Claims : \A e \in claims[c].events :
          events[e].ver = SelfPolicy <=> claims[c].ver = SelfPolicy
    /\ \A p \in Procs : procs[p].pc = "matched" =>
          /\ procs[p].ver \in Known0 /\ procs[p].content = ContentOf(procs[p].ver)
          /\ procs[p].cand # NoClaim =>
                /\ claims[procs[p].cand].st # "none"
                /\ claims[procs[p].cand].st # "pruned" =>
                      /\ claims[procs[p].cand].ver # SelfPolicy
                      /\ ContentOf(claims[procs[p].cand].ver) = procs[p].content

\* A batch that retention has taken refers to nothing.
BatchesRefer ==
    /\ KeptBatchKeepsClaims
    /\ \A b \in Batches : batches[b].st = "pruned" => batches[b].claims = {}

IngestInv ==
    /\ TypeOK /\ Ownership /\ KeysAnswer /\ RulesAgree /\ BatchesRefer /\ DeletedChannelIsQuiet

------------------------------------------------------------------------------
(* Helpers.                                                                 *)

LEMMA LessThanIsWellFounded == IsWellFoundedOn({x \in Nat \X Nat : x[1] < x[2]}, Nat)
  BY NatLessThanWellFounded DEF OpToRel

\* Some installed version is the highest, if there is one.
LEMMA HighestIsInstalled ==
    ASSUME Installed # {}
    PROVE  Highest \in Installed /\ \A u \in Installed : u <= Highest
  <1> DEFINE T == {MaxVersion - v : v \in Installed}
             R == {x \in Nat \X Nat : x[1] < x[2]}
  <1>1. MaxVersion \in Nat /\ \A v \in Installed : v \in Nat /\ v <= MaxVersion
    BY IngestBounds DEF Installed, Versions
  <1>2. T \subseteq Nat /\ T # {}
    BY <1>1
  <1>3. PICK x \in T : \A y \in T : ~(<<y, x>> \in R)
    <2> HIDE DEF T, R
    <2>1. IsWellFoundedOn(R, Nat)
      BY LessThanIsWellFounded DEF R
    <2> QED
      BY <1>2, <2>1, WFMin
  <1>4. PICK v \in Installed : x = MaxVersion - v
    BY <1>3
  <1>5. ASSUME NEW u \in Installed PROVE u <= v
    <2>1. MaxVersion - u \in T /\ MaxVersion - u \in Nat /\ MaxVersion - v \in Nat
      BY <1>1
    <2>2. ~(MaxVersion - u < MaxVersion - v)
      BY <1>3, <1>4, <2>1
    <2> QED
      BY <1>1, <2>2
  <1>6. \E w \in Installed : \A u \in Installed : u <= w
    BY <1>5
  <1> QED
    BY <1>6 DEF Highest

LEMMA MatchedIsInstalled == MatchedVersion \in Known0
  <1>1. CASE Installed = {}
    BY <1>1 DEF MatchedVersion, Highest, Known0
  <1>2. CASE Installed # {}
    BY <1>2, HighestIsInstalled DEF MatchedVersion, Known0
  <1> QED
    BY <1>1, <1>2

\* Versions, and what they say.
LEMMA VersionFacts ==
    /\ MaxVersion \in Nat \ {0} /\ SelfPolicy \in Nat
    /\ \A v \in Known0 : v \in 0..MaxVersion /\ v \in 0..SelfPolicy /\ v # SelfPolicy
    /\ SelfPolicy \in 0..SelfPolicy /\ 0 \in 0..SelfPolicy
  BY IngestBounds DEF Known0, Installed, Versions, SelfPolicy

LEMMA ContentFacts ==
    ASSUME TypeOK, NEW v \in Known0
    PROVE  ContentOf(v) \in Contents \cup {"now"}
  <1>1. CASE v = 0
    BY <1>1 DEF ContentOf
  <1>2. CASE v # 0
    <2>1. v \in Installed /\ v \in Versions
      BY <1>2 DEF Known0, Installed
    <2> QED
      BY <1>2, <2>1 DEF ContentOf, Installed, TypeOK
  <1> QED
    BY <1>1, <1>2

\* What a request is, and what it may create.
LEMMA RequestFields ==
    ASSUME NEW r \in Requests
    PROVE  /\ r.kind \in {"emit", "schedule"} /\ r.key \in Keys /\ r.idem \in Idems \cup {NoIdem}
           /\ r.idem \in EventIds <=> r.idem # NoIdem
           /\ NewIds(r) \subseteq EventIds
  BY RequestsAssumption DEF NewIds, EventIds

\* The kinds of procs.
AskingRows   == [pc: {"looked", "asked"}, req: Requests]
MatchedRows  == [pc: {"matched"}, req: Requests, ver: 0..MaxVersion,
                 content: Contents \cup {"now"}, cand: Claims \cup {NoClaim}]
InstallRows  == [pc: {"install"}, ver: Versions, content: Contents]

LEMMA ProcKinds == ProcRow = {Idle} \cup AskingRows \cup MatchedRows \cup InstallRows
  BY DEF ProcRow, AskingRows, MatchedRows, InstallRows

LEMMA ProcFields ==
    ASSUME NEW x \in ProcRow
    PROVE  /\ x.pc \in {"idle", "looked", "asked", "matched", "install"}
           /\ x.pc \in {"looked", "asked", "matched"} => x.req \in Requests
           /\ x.pc = "matched" => /\ x.ver \in 0..MaxVersion
                                  /\ x.content \in Contents \cup {"now"}
                                  /\ x.cand \in Claims \cup {NoClaim}
           /\ x.pc = "install" => x.ver \in Versions /\ x.content \in Contents
  <1>1. CASE x = Idle
    BY <1>1 DEF Idle
  <1>2. CASE x \in AskingRows
    BY <1>2 DEF AskingRows
  <1>3. CASE x \in MatchedRows
    BY <1>3 DEF MatchedRows
  <1>4. CASE x \in InstallRows
    BY <1>4 DEF InstallRows
  <1> QED
    BY <1>1, <1>2, <1>3, <1>4, ProcKinds

------------------------------------------------------------------------------
(* Types.                                                                   *)

EventStates == {"none", "matched", "batched", "suppressed"} \cup FinishedEvents
ClaimStates == {"none", "batched", "pruned"} \cup ActiveClaims \cup FinalizedClaims
BatchStates == {"none", "open", "dispatched", "dead_letter", "pruned"} \cup FinishedBatches

LEMMA EmptyRows ==
    /\ NoEvent \in EventRow /\ NoRow \in ClaimRow /\ NoBatch \in BatchRow /\ Idle \in ProcRow
    /\ [NoRow EXCEPT !.st = "pruned"] \in ClaimRow
    /\ [NoBatch EXCEPT !.st = "pruned"] \in BatchRow
    /\ [NoRow EXCEPT !.st = "pruned"].st = "pruned"
    /\ [NoRow EXCEPT !.st = "pruned"].events = {} /\ [NoRow EXCEPT !.st = "pruned"].ver = 0
    /\ [NoBatch EXCEPT !.st = "pruned"].st = "pruned"
    /\ [NoBatch EXCEPT !.st = "pruned"].claims = {}
  BY VersionFacts, ProcKinds DEF NoEvent, NoRow, NoBatch, EventRow, ClaimRow, BatchRow

\* A row that is created, and a row that moves on.
LEMMA EventCreated ==
    ASSUME NEW st \in EventStates, NEW k \in Keys, NEW v \in 0..SelfPolicy
    PROVE  [st |-> st, key |-> k, ver |-> v] \in EventRow
  BY DEF EventRow, EventStates

LEMMA ClaimCreated ==
    ASSUME NEW st \in ClaimStates, NEW es \in SUBSET EventIds, NEW v \in 0..SelfPolicy
    PROVE  [st |-> st, events |-> es, ver |-> v] \in ClaimRow
  BY DEF ClaimRow, ClaimStates

LEMMA BatchCreated ==
    ASSUME NEW st \in BatchStates, NEW cs \in SUBSET Claims, NEW v \in 0..SelfPolicy
    PROVE  [st |-> st, claims |-> cs, ver |-> v] \in BatchRow
  BY DEF BatchRow, BatchStates

LEMMA EventMoved ==
    ASSUME NEW x \in EventRow, NEW st \in EventStates
    PROVE  /\ [x EXCEPT !.st = st] \in EventRow /\ [x EXCEPT !.st = st].st = st
           /\ [x EXCEPT !.st = st].key = x.key /\ [x EXCEPT !.st = st].ver = x.ver
  BY DEF EventRow, EventStates

LEMMA ClaimMoved ==
    ASSUME NEW x \in ClaimRow, NEW st \in ClaimStates
    PROVE  /\ [x EXCEPT !.st = st] \in ClaimRow /\ [x EXCEPT !.st = st].st = st
           /\ [x EXCEPT !.st = st].events = x.events /\ [x EXCEPT !.st = st].ver = x.ver
  BY DEF ClaimRow, ClaimStates

LEMMA BatchMoved ==
    ASSUME NEW x \in BatchRow, NEW st \in BatchStates, NEW cs \in SUBSET Claims
    PROVE  /\ [x EXCEPT !.st = st] \in BatchRow /\ [x EXCEPT !.st = st].st = st
           /\ [x EXCEPT !.st = st].claims = x.claims
           /\ [x EXCEPT !.claims = cs] \in BatchRow /\ [x EXCEPT !.claims = cs].st = x.st
           /\ [x EXCEPT !.claims = cs].claims = cs
           /\ [x EXCEPT !.claims = cs, !.st = st] \in BatchRow
           /\ [x EXCEPT !.claims = cs, !.st = st].claims = cs
           /\ [x EXCEPT !.claims = cs, !.st = st].st = st
  BY DEF BatchRow, BatchStates

LEMMA RowFields ==
    ASSUME TypeOK
    PROVE  /\ \A e \in EventIds : events[e] \in EventRow /\ events[e].st \in EventStates
                                  /\ events[e].ver \in 0..SelfPolicy
           /\ \A c \in Claims : /\ claims[c] \in ClaimRow /\ claims[c].st \in ClaimStates
                                /\ claims[c].events \subseteq EventIds
                                /\ claims[c].ver \in 0..SelfPolicy
           /\ \A b \in Batches : /\ batches[b] \in BatchRow /\ batches[b].st \in BatchStates
                                 /\ batches[b].claims \subseteq Claims
           /\ \A p \in Procs : procs[p] \in ProcRow
  BY DEF TypeOK, EventRow, ClaimRow, BatchRow, EventStates, ClaimStates, BatchStates

LEMMA InitTypes == Init => TypeOK
  BY EmptyRows DEF Init, TypeOK, Answer

\* A claim that moves on, alone or with its events.
LEMMA ClaimToEffect ==
    ASSUME TypeOK, NEW c \in Claims, NEW st \in ClaimStates, claims' = ClaimTo(c, st)
    PROVE  /\ claims' \in [Claims -> ClaimRow]
           /\ claims'[c].st = st /\ \A d \in Claims \ {c} : claims'[d] = claims[d]
           /\ \A d \in Claims : claims'[d].events = claims[d].events
                                /\ claims'[d].ver = claims[d].ver
  <1>1. claims[c] \in ClaimRow /\ claims \in [Claims -> ClaimRow]
    BY DEF TypeOK
  <1>2. claims' = [claims EXCEPT ![c] = [claims[c] EXCEPT !.st = st]]
    BY <1>1 DEF ClaimTo
  <1> DEFINE row == [claims[c] EXCEPT !.st = st]
  <1>3. /\ row \in ClaimRow /\ row.st = st
        /\ row.events = claims[c].events /\ row.ver = claims[c].ver
    BY <1>1, ClaimMoved
  <1> HIDE DEF row
  <1> QED
    BY <1>1, <1>2, <1>3 DEF row

LEMMA EventsToEffect ==
    ASSUME TypeOK, NEW c \in Claims, NEW st \in EventStates, events' = EventsTo(c, st)
    PROVE  /\ events' \in [EventIds -> EventRow]
           /\ \A e \in EventIds :
                 /\ events'[e].key = events[e].key /\ events'[e].ver = events[e].ver
                 /\ events'[e].st = IF e \in claims[c].events THEN st ELSE events[e].st
  <1>1. ASSUME NEW e \in EventIds
        PROVE  /\ events'[e] \in EventRow
               /\ events'[e].key = events[e].key /\ events'[e].ver = events[e].ver
               /\ events'[e].st = IF e \in claims[c].events THEN st ELSE events[e].st
    <2>1. events[e] \in EventRow
      BY DEF TypeOK
    <2>2. events'[e] = IF e \in claims[c].events THEN [events[e] EXCEPT !.st = st] ELSE events[e]
      BY DEF EventsTo
    <2> QED
      BY <2>1, <2>2, EventMoved
  <1> QED
    BY <1>1 DEF EventsTo

LEMMA DetachedEffect ==
    ASSUME TypeOK, NEW c \in Claims, batches' = Detached(c)
    PROVE  /\ batches' \in [Batches -> BatchRow]
           /\ \A b \in Batches :
                 /\ batches'[b].claims \subseteq batches[b].claims
                 /\ \/ batches'[b].st = batches[b].st
                    \/ batches[b].st = "open" /\ batches'[b].st = "cancelled"
  <1>1. ASSUME NEW b \in Batches
        PROVE  /\ batches'[b] \in BatchRow
               /\ batches'[b].claims \subseteq batches[b].claims
               /\ \/ batches'[b].st = batches[b].st
                  \/ batches[b].st = "open" /\ batches'[b].st = "cancelled"
    <2> DEFINE st == IF batches[b].claims = {c} THEN "cancelled" ELSE batches[b].st
               cs == batches[b].claims \ {c}
    <2>1. batches[b] \in BatchRow /\ batches[b].st \in BatchStates /\ cs \in SUBSET Claims
      BY RowFields
    <2>2. st \in BatchStates
      BY <2>1 DEF BatchStates, FinishedBatches
    <2>3. CASE batches[b].st = "open" /\ c \in batches[b].claims
      <3>1. batches'[b] = [batches[b] EXCEPT !.claims = cs, !.st = st]
        BY <2>1, <2>3 DEF Detached, BatchRow
      <3>2. st = "open" \/ st = "cancelled"
        BY <2>3
      <3>3. cs \subseteq batches[b].claims
        OBVIOUS
      <3> HIDE DEF st, cs
      <3>4. batches'[b] \in BatchRow /\ batches'[b].claims = cs /\ batches'[b].st = st
        BY <2>1, <2>2, <3>1 DEF BatchRow, BatchStates
      <3> QED
        BY <2>3, <3>2, <3>3, <3>4
    <2>4. CASE ~(batches[b].st = "open" /\ c \in batches[b].claims)
      BY <2>1, <2>4 DEF Detached
    <2> QED
      BY <2>3, <2>4
  <1> QED
    BY <1>1 DEF Detached

\* The transaction of an emit, and of a schedule: they conflict, are refused, or create.
LEMMA EmitCommitForm ==
    ASSUME TypeOK, NEW p \in Procs, EmitCommit(p)
    PROVE  LET job == procs[p]  r == job.req IN
           /\ job.pc = "matched" /\ job \in ProcRow /\ r \in Requests
           /\ procs' = [procs EXCEPT ![p] = Idle] /\ UNCHANGED <<policies, batches>>
           /\ \E e \in EventIds : e \in NewIds(r) /\
                 \/ /\ answers' = answers \cup Answers(r, Known(r))
                    /\ UNCHANGED <<events, claims, channel>>
                 \/ /\ ~Conflict(e, r.key)
                    /\ events' = [events EXCEPT ![e] =
                          [st |-> "suppressed", key |-> r.key, ver |-> job.ver]]
                    /\ UNCHANGED <<claims, channel>>
                    /\ answers' = answers \cup Answers(r, {e})
                 \/ /\ ~Conflict(e, r.key)
                    /\ "ok" \in GuardStatuses
                    /\ events' = [events EXCEPT ![e] =
                          [st |-> "matched", key |-> r.key, ver |-> job.ver]]
                    /\ claims' \in Owned(job.cand, e, job.ver)
                    /\ channel' = Registered
                    /\ answers' = answers \cup Answers(r, {e})
  <1>1. /\ procs[p].pc = "matched" /\ procs[p] \in ProcRow
        /\ procs' = [procs EXCEPT ![p] = Idle] /\ UNCHANGED <<policies, batches>>
    BY RowFields DEF EmitCommit
  <1>2. procs[p].req \in Requests
    BY <1>1, ProcFields
  <1>3. NewIds(procs[p].req) \subseteq EventIds
    BY <1>2, RequestFields
  <1> QED
    BY <1>1, <1>2, <1>3 DEF EmitCommit

LEMMA ScheduleCommitForm ==
    ASSUME TypeOK, NEW p \in Procs, ScheduleCommit(p)
    PROVE  LET r == procs[p].req IN
           /\ procs[p].pc = "asked" /\ procs[p] \in ProcRow /\ r \in Requests
           /\ procs' = [procs EXCEPT ![p] = Idle] /\ UNCHANGED <<policies, batches>>
           /\ \/ UNCHANGED <<events, claims, channel, answers>>
              \/ /\ answers' = answers \cup Answers(r, {x \in WithKey(r.key) : OwnersOf(x) # {}})
                 /\ UNCHANGED <<events, claims, channel>>
              \/ \E e \in EventIds : \E c \in NewClaims :
                 /\ e \in NewIds(r) /\ ~Conflict(e, r.key) /\ "ok" \in GuardStatuses
                 /\ events' = [events EXCEPT ![e] =
                       [st |-> "matched", key |-> r.key, ver |-> SelfPolicy]]
                 /\ claims' = [claims EXCEPT ![c] =
                       [st |-> "pending", events |-> {e}, ver |-> SelfPolicy]]
                 /\ channel' = Registered
                 /\ answers' = answers \cup Answers(r, {e})
  <1>1. /\ procs[p].pc = "asked" /\ procs[p] \in ProcRow
        /\ procs' = [procs EXCEPT ![p] = Idle] /\ UNCHANGED <<policies, batches>>
    BY RowFields DEF ScheduleCommit
  <1>2. procs[p].req \in Requests
    BY <1>1, ProcFields
  <1>3. NewIds(procs[p].req) \subseteq EventIds
    BY <1>2, RequestFields
  <1> QED
    BY <1>1, <1>2, <1>3 DEF ScheduleCommit

\* The claim that takes a new event: the candidate, or one of its own.
Taken(c, e, v) ==
    /\ \A d \in Claims \ {c} : claims'[d] = claims[d]
    /\ \/ /\ claims[c].st \in ActiveClaims
          /\ claims'[c].st = claims[c].st /\ claims'[c].ver = claims[c].ver
          /\ claims'[c].events = claims[c].events \cup {e}
       \/ /\ claims[c].st = "none" /\ claims'[c].st = "pending"
          /\ claims'[c].events = {e} /\ claims'[c].ver = v

LEMMA OwnedForm ==
    ASSUME TypeOK, NEW cand \in Claims \cup {NoClaim}, NEW e \in EventIds,
           NEW ver \in 0..SelfPolicy, claims' \in Owned(cand, e, ver)
    PROVE  /\ claims' \in [Claims -> ClaimRow]
           /\ \E c \in Claims : Taken(c, e, ver) /\ (claims[c].st \in ActiveClaims => c = cand)
  <1>a. "none" \notin ActiveClaims
    BY DEF ActiveClaims
  <1>1. CASE CanAppend(cand)
    <2>1. cand \in Claims /\ claims[cand].st \in ActiveClaims /\ claims[cand] \in ClaimRow
      BY <1>1, RowFields DEF CanAppend
    <2>2. claims' = [claims EXCEPT ![cand] =
                        [claims[cand] EXCEPT !.events = claims[cand].events \cup {e}]]
      BY <1>1, <2>1 DEF Owned, TypeOK, ClaimRow
    <2> DEFINE row == [claims[cand] EXCEPT !.events = claims[cand].events \cup {e}]
    <2>3. /\ row \in ClaimRow /\ row.st = claims[cand].st /\ row.ver = claims[cand].ver
          /\ row.events = claims[cand].events \cup {e}
      BY <2>1 DEF ClaimRow
    <2>4. claims' = [claims EXCEPT ![cand] = row]
      BY <2>2
    <2> HIDE DEF row
    <2>5. /\ claims' \in [Claims -> ClaimRow] /\ claims'[cand] = row
          /\ \A d \in Claims \ {cand} : claims'[d] = claims[d]
      BY <2>1, <2>3, <2>4 DEF TypeOK
    <2> QED
      BY <2>1, <2>3, <2>5 DEF Taken
  <1>2. CASE ~CanAppend(cand)
    <2> DEFINE row == [st |-> "pending", events |-> {e}, ver |-> ver]
    <2>1. PICK c \in NewClaims : claims' = [claims EXCEPT ![c] = row]
      BY <1>2 DEF Owned
    <2>2. c \in Claims /\ claims[c].st = "none"
      BY DEF NewClaims
    <2>3. /\ row.st = "pending" /\ row.events = {e} /\ row.ver = ver
          /\ row \in ClaimRow
      BY DEF ClaimRow, ActiveClaims
    <2> HIDE DEF row
    <2>4. /\ claims' \in [Claims -> ClaimRow] /\ claims'[c] = row
          /\ \A d \in Claims \ {c} : claims'[d] = claims[d]
      BY <2>1, <2>2, <2>3 DEF TypeOK
    <2> QED
      BY <2>2, <2>3, <2>4, <1>a DEF Taken
  <1> QED
    BY <1>1, <1>2

LEMMA EventPlaced ==
    ASSUME TypeOK, NEW e \in EventIds, NEW k \in Keys, NEW v \in 0..SelfPolicy,
           NEW st \in EventStates,
           events' = [events EXCEPT ![e] = [st |-> st, key |-> k, ver |-> v]]
    PROVE  /\ events' \in [EventIds -> EventRow]
           /\ events'[e].st = st /\ events'[e].key = k /\ events'[e].ver = v
           /\ \A f \in EventIds \ {e} : events'[f] = events[f]
  <1> DEFINE row == [st |-> st, key |-> k, ver |-> v]
  <1>1. row \in EventRow /\ row.st = st /\ row.key = k /\ row.ver = v
    BY EventCreated
  <1>2. events' = [events EXCEPT ![e] = row]
    OBVIOUS
  <1> HIDE DEF row
  <1> QED
    BY <1>1, <1>2 DEF TypeOK

LEMMA AnswersTyped ==
    ASSUME TypeOK, NEW r \in Requests, NEW found \in SUBSET (EventIds \cup {"storage_corrupt"}),
           answers' = answers \cup Answers(r, found)
    PROVE  answers' \subseteq Answer
  BY RequestFields DEF TypeOK, Answers, Answer

LEMMA KnownIds ==
    ASSUME NEW r \in Requests
    PROVE  Known(r) \subseteq EventIds /\ WithKey(r.key) \subseteq EventIds
  BY DEF Known, WithKey

LEMMA ProcsPlaced ==
    ASSUME TypeOK, NEW p \in Procs, NEW row \in ProcRow, procs' = [procs EXCEPT ![p] = row]
    PROVE  /\ procs' \in [Procs -> ProcRow] /\ procs'[p] = row
           /\ \A q \in Procs \ {p} : procs'[q] = procs[q]
  BY DEF TypeOK

\* The rows that a call leaves: what it asks, what it has matched, what it installs.
LEMMA AskedRow ==
    ASSUME NEW pc \in {"looked", "asked"}, NEW r \in Requests
    PROVE  [pc |-> pc, req |-> r] \in ProcRow
  BY ProcKinds DEF AskingRows

LEMMA MatchedRow ==
    ASSUME NEW r \in Requests, NEW v \in 0..MaxVersion, NEW x \in Contents \cup {"now"},
           NEW c \in Claims \cup {NoClaim}
    PROVE  [pc |-> "matched", req |-> r, ver |-> v, content |-> x, cand |-> c] \in ProcRow
  <1>1. [pc |-> "matched", req |-> r, ver |-> v, content |-> x, cand |-> c] \in MatchedRows
    BY DEF MatchedRows
  <1> QED
    BY <1>1, ProcKinds

LEMMA InstallRow ==
    ASSUME NEW v \in Versions, NEW x \in Contents
    PROVE  [pc |-> "install", ver |-> v, content |-> x] \in ProcRow
  BY ProcKinds DEF InstallRows

\* What a match leaves: the version in force and a claim of the same rules.
LEMMA EmitMatchForm ==
    ASSUME TypeOK, NEW p \in Procs, EmitMatch(p)
    PROVE  \E c \in Claims \cup {NoClaim} :
              LET row == [pc |-> "matched", req |-> procs[p].req, ver |-> MatchedVersion,
                          content |-> ContentOf(MatchedVersion), cand |-> c] IN
              /\ procs[p].pc = "looked"
              /\ c = NoClaim \/ c \in Mergeable(MatchedVersion)
              /\ row \in ProcRow /\ procs' = [procs EXCEPT ![p] = row]
              /\ UNCHANGED <<policies, events, claims, batches, channel, answers>>
  <1> DEFINE ver   == MatchedVersion
             cands == IF ContentOf(ver) = "suppress" THEN {} ELSE Mergeable(ver)
             row(c) == [pc |-> "matched", req |-> procs[p].req, ver |-> ver,
                        content |-> ContentOf(ver), cand |-> c]
  <1>1. procs[p] \in ProcRow /\ procs[p].pc = "looked" /\ procs[p].req \in Requests
    BY ProcFields, RowFields DEF EmitMatch
  <1>2. PICK c \in IF cands = {} THEN {NoClaim} ELSE cands :
            procs' = [procs EXCEPT ![p] = row(c)]
    BY DEF EmitMatch
  <1>3. c = NoClaim \/ c \in Mergeable(ver)
    BY <1>2
  <1>4. c \in Claims \cup {NoClaim}
    BY <1>3 DEF Mergeable
  <1>5. row(c) \in ProcRow
    <2>1. ver \in 0..MaxVersion /\ ContentOf(ver) \in Contents \cup {"now"}
      BY MatchedIsInstalled, VersionFacts, ContentFacts
    <2> HIDE DEF ver
    <2> QED
      BY <1>1, <1>4, <2>1, MatchedRow
  <1>6. UNCHANGED <<policies, events, claims, batches, channel, answers>>
    BY DEF EmitMatch
  <1> QED
    BY <1>1, <1>2, <1>3, <1>4, <1>5, <1>6

LEMMA ProcStepTypes ==
    ASSUME TypeOK, NEW p \in Procs,
           \/ \E v \in Versions, t \in Contents : InstallRead(p, v, t)
           \/ InstallCommit(p) \/ Crash(p)
           \/ \E r \in Requests : EmitLookup(p, r) \/ ScheduleLookup(p, r)
           \/ EmitMatch(p)
    PROVE  TypeOK'
  <1>1. ASSUME NEW v \in Versions, NEW t \in Contents, InstallRead(p, v, t) PROVE TypeOK'
    <2>1. [pc |-> "install", ver |-> v, content |-> t] \in ProcRow
      BY InstallRow
    <2> QED
      BY <1>1, <2>1 DEF InstallRead, TypeOK
  <1>2. CASE InstallCommit(p)
    <2>1. procs[p].ver \in Versions /\ procs[p].content \in Contents
      BY <1>2, RowFields, ProcFields DEF InstallCommit
    <2>2. policies' \in [Versions -> Contents \cup {"none"}]
      BY <1>2, <2>1 DEF InstallCommit, TypeOK
    <2> QED
      BY <1>2, <2>2, EmptyRows DEF InstallCommit, TypeOK
  <1>3. CASE Crash(p)
    BY <1>3, EmptyRows DEF Crash, TypeOK
  <1>4. ASSUME NEW r \in Requests, EmitLookup(p, r) PROVE TypeOK'
    <2>1. answers' \subseteq Answer
      BY <1>4, KnownIds, AnswersTyped DEF EmitLookup
    <2>2. [pc |-> "looked", req |-> r] \in ProcRow
      BY AskedRow
    <2> QED
      BY <1>4, <2>1, <2>2 DEF EmitLookup, TypeOK
  <1>5. ASSUME NEW r \in Requests, ScheduleLookup(p, r) PROVE TypeOK'
    <2> DEFINE found == UNION {Scheduled(e) : e \in WithKey(r.key)}
    <2>1. found \in SUBSET (EventIds \cup {"storage_corrupt"})
      BY KnownIds DEF Scheduled
    <2>2. answers' \subseteq Answer
      <3>1. answers' = answers \cup Answers(r, found)
        BY <1>5 DEF ScheduleLookup
      <3> HIDE DEF found
      <3> QED
        BY <2>1, <3>1, AnswersTyped
    <2>3. [pc |-> "asked", req |-> r] \in ProcRow
      BY AskedRow
    <2> QED
      BY <1>5, <2>2, <2>3 DEF ScheduleLookup, TypeOK
  <1>6. CASE EmitMatch(p)
    BY <1>6, EmitMatchForm DEF TypeOK
  <1> QED
    BY <1>1, <1>2, <1>3, <1>4, <1>5, <1>6

LEMMA CreateTypes ==
    ASSUME TypeOK, NEW p \in Procs, EmitCommit(p) \/ ScheduleCommit(p)
    PROVE  TypeOK'
  <1>c. Registered \in {"absent", "active", "deleted"}
    BY DEF TypeOK, Registered
  <1>s. {"suppressed", "matched"} \subseteq EventStates
    BY DEF EventStates
  <1>1. CASE EmitCommit(p)
    <2> DEFINE job == procs[p]
               r   == job.req
    <2>1. /\ job.pc = "matched" /\ job \in ProcRow /\ r \in Requests
          /\ procs' = [procs EXCEPT ![p] = Idle] /\ UNCHANGED <<policies, batches>>
      BY <1>1, EmitCommitForm
    <2>2. /\ r.key \in Keys /\ job.ver \in 0..SelfPolicy
          /\ job.cand \in Claims \cup {NoClaim}
      BY <2>1, ProcFields, RequestFields, VersionFacts DEF SelfPolicy
    <2>3. PICK e \in EventIds : e \in NewIds(r) /\
                 \/ /\ answers' = answers \cup Answers(r, Known(r))
                    /\ UNCHANGED <<events, claims, channel>>
                 \/ /\ ~Conflict(e, r.key)
                    /\ events' = [events EXCEPT ![e] =
                          [st |-> "suppressed", key |-> r.key, ver |-> job.ver]]
                    /\ UNCHANGED <<claims, channel>>
                    /\ answers' = answers \cup Answers(r, {e})
                 \/ /\ ~Conflict(e, r.key)
                    /\ "ok" \in GuardStatuses
                    /\ events' = [events EXCEPT ![e] =
                          [st |-> "matched", key |-> r.key, ver |-> job.ver]]
                    /\ claims' \in Owned(job.cand, e, job.ver)
                    /\ channel' = Registered
                    /\ answers' = answers \cup Answers(r, {e})
      BY <1>1, EmitCommitForm
    <2> HIDE DEF r, job
    <2>4. answers' \subseteq Answer
      <3>1. {e} \in SUBSET (EventIds \cup {"storage_corrupt"})
            /\ Known(r) \in SUBSET (EventIds \cup {"storage_corrupt"})
        BY <2>1, KnownIds
      <3>2. answers' = answers \cup Answers(r, Known(r)) \/ answers' = answers \cup Answers(r, {e})
        BY <2>3
      <3> QED
        BY <2>1, <3>1, <3>2, AnswersTyped
    <2>5. events' \in [EventIds -> EventRow]
      BY <2>1, <2>2, <2>3, <1>s, EventPlaced DEF TypeOK
    <2>6. claims' \in [Claims -> ClaimRow]
      BY <2>2, <2>3, OwnedForm DEF TypeOK
    <2> QED
      BY <2>1, <2>3, <2>4, <2>5, <2>6, <1>c, EmptyRows DEF TypeOK
  <1>2. CASE ScheduleCommit(p)
    <2> DEFINE r == procs[p].req
    <2>1. /\ r \in Requests /\ r.key \in Keys
          /\ procs' = [procs EXCEPT ![p] = Idle] /\ UNCHANGED <<policies, batches>>
      BY <1>2, ScheduleCommitForm, RequestFields
    <2> DEFINE found == {x \in WithKey(r.key) : OwnersOf(x) # {}}
    <2>2. CASE UNCHANGED <<events, claims, channel, answers>>
      BY <2>1, <2>2, EmptyRows DEF TypeOK
    <2>3. CASE answers' = answers \cup Answers(r, found) /\ UNCHANGED <<events, claims, channel>>
      <3>1. found \in SUBSET (EventIds \cup {"storage_corrupt"})
        BY <2>1, KnownIds
      <3> HIDE DEF found, r
      <3>2. answers' \subseteq Answer
        BY <2>1, <2>3, <3>1, AnswersTyped
      <3> QED
        BY <2>1, <2>3, <3>2, EmptyRows DEF TypeOK
    <2>4. ASSUME NEW e \in EventIds, NEW c \in NewClaims,
                 events' = [events EXCEPT ![e] =
                       [st |-> "matched", key |-> r.key, ver |-> SelfPolicy]],
                 claims' = [claims EXCEPT ![c] =
                       [st |-> "pending", events |-> {e}, ver |-> SelfPolicy]],
                 channel' = Registered,
                 answers' = answers \cup Answers(r, {e})
          PROVE  TypeOK'
      <3> HIDE DEF r
      <3>1. answers' \subseteq Answer
        BY <2>1, <2>4, AnswersTyped
      <3>2. events' \in [EventIds -> EventRow]
        BY <2>1, <2>4, <1>s, VersionFacts, EventPlaced
      <3>3. [st |-> "pending", events |-> {e}, ver |-> SelfPolicy] \in ClaimRow
        BY VersionFacts, ClaimCreated DEF ClaimStates, ActiveClaims
      <3> QED
        BY <2>1, <2>4, <3>1, <3>2, <3>3, <1>c, EmptyRows DEF TypeOK
    <2> QED
      BY <1>2, <2>2, <2>3, <2>4, ScheduleCommitForm
  <1> QED
    BY <1>1, <1>2

\* What the steps on rows that exist do, each to one claim, to one batch, or to all.
LEMMA TickFreezeEffect ==
    ASSUME TypeOK, NEW c \in Claims, TickFreeze(c)
    PROVE  /\ batches' \in [Batches -> BatchRow]
           /\ \E b \in Batches :
                 /\ batches'[b].claims \subseteq batches[b].claims \cup {c}
                 /\ batches'[b].st = "open"
                 /\ \A x \in Batches \ {b} : batches'[x] = batches[x]
  <1>1. PICK b \in Batches :
          \/ batches' = [batches EXCEPT ![b] = NewBatch(c)] /\ batches[b].st = "none"
          \/ batches' = [batches EXCEPT ![b].claims = @ \cup {c}] /\ batches[b].st = "open"
    BY DEF TickFreeze
  <1>2. batches[b] \in BatchRow /\ batches[b].claims \cup {c} \in SUBSET Claims
        /\ claims[c].ver \in 0..SelfPolicy
    BY RowFields
  <1>3. CASE batches' = [batches EXCEPT ![b] = NewBatch(c)]
    <2>1. NewBatch(c) \in BatchRow /\ NewBatch(c).claims = {c} /\ NewBatch(c).st = "open"
      BY <1>2, BatchCreated DEF NewBatch, BatchStates
    <2> QED
      BY <1>3, <2>1 DEF TypeOK
  <1>4. CASE batches' = [batches EXCEPT ![b].claims = @ \cup {c}] /\ batches[b].st = "open"
    <2> DEFINE cs  == batches[b].claims \cup {c}
               row == [batches[b] EXCEPT !.claims = cs]
    <2>1. batches' = [batches EXCEPT ![b] = row]
      BY <1>2, <1>4 DEF TypeOK, BatchRow
    <2>2. row \in BatchRow /\ row.claims = cs /\ row.st = "open"
      BY <1>2, <1>4 DEF BatchRow
    <2> HIDE DEF row
    <2> QED
      BY <2>1, <2>2 DEF TypeOK
  <1> QED
    BY <1>1, <1>3, <1>4

LEMMA MoveBatchEffect ==
    ASSUME TypeOK, NEW b \in Batches, NEW from \in BatchStates, NEW to \in BatchStates,
           MoveBatch(b, from, to)
    PROVE  /\ batches' \in [Batches -> BatchRow]
           /\ batches[b].st = from /\ batches'[b].st = to
           /\ batches'[b].claims = batches[b].claims
           /\ \A x \in Batches \ {b} : batches'[x] = batches[x]
           /\ UNCHANGED <<policies, events, claims, channel, procs, answers>>
  <1> DEFINE row == [batches[b] EXCEPT !.st = to]
  <1>1. batches[b] \in BatchRow
    BY RowFields
  <1>2. batches' = [batches EXCEPT ![b] = row]
    BY <1>1 DEF MoveBatch, TypeOK
  <1>3. row \in BatchRow /\ row.claims = batches[b].claims /\ row.st = to
    BY <1>1 DEF BatchRow, BatchStates
  <1>4. batches[b].st = from /\ UNCHANGED <<policies, events, claims, channel, procs, answers>>
    BY DEF MoveBatch
  <1> HIDE DEF row
  <1> QED
    BY <1>2, <1>3, <1>4 DEF TypeOK

LEMMA DeleteChannelEffect ==
    ASSUME TypeOK, DeleteChannel
    PROVE  /\ events' \in [EventIds -> EventRow]
           /\ \A e \in EventIds :
                 /\ events'[e].key = events[e].key /\ events'[e].ver = events[e].ver
                 /\ events'[e].st = IF events[e].st \in Pending /\ \E c \in OwnersOf(e) : Unfinished(c)
                                    THEN "expired" ELSE events[e].st
           /\ claims' \in [Claims -> ClaimRow]
           /\ \A c \in Claims :
                 /\ claims'[c].events = claims[c].events /\ claims'[c].ver = claims[c].ver
                 /\ claims'[c].st = IF Unfinished(c) THEN "dismissed" ELSE claims[c].st
           /\ batches' \in [Batches -> BatchRow]
           /\ \A b \in Batches :
                 /\ batches'[b].claims = batches[b].claims
                 /\ batches'[b].st = IF batches[b].st \in {"open", "dispatched", "dead_letter"}
                                     THEN "cancelled" ELSE batches[b].st
           /\ channel' = "deleted" /\ UNCHANGED <<policies, procs, answers>>
  <1>1. ASSUME NEW e \in EventIds
        PROVE  /\ events'[e] \in EventRow
               /\ events'[e].key = events[e].key /\ events'[e].ver = events[e].ver
               /\ events'[e].st = IF events[e].st \in Pending /\ \E c \in OwnersOf(e) : Unfinished(c)
                                  THEN "expired" ELSE events[e].st
    <2>1. events[e] \in EventRow
      BY RowFields
    <2>2. /\ [events[e] EXCEPT !.st = "expired"] \in EventRow
          /\ [events[e] EXCEPT !.st = "expired"].st = "expired"
          /\ [events[e] EXCEPT !.st = "expired"].key = events[e].key
          /\ [events[e] EXCEPT !.st = "expired"].ver = events[e].ver
      BY <2>1, EventMoved DEF EventStates, FinishedEvents
    <2>3. events'[e] = IF events[e].st \in Pending /\ \E c \in OwnersOf(e) : Unfinished(c)
                       THEN [events[e] EXCEPT !.st = "expired"] ELSE events[e]
      BY DEF DeleteChannel, Pending
    <2> QED
      BY <2>1, <2>2, <2>3
  <1>2. ASSUME NEW c \in Claims
        PROVE  /\ claims'[c] \in ClaimRow
               /\ claims'[c].events = claims[c].events /\ claims'[c].ver = claims[c].ver
               /\ claims'[c].st = IF Unfinished(c) THEN "dismissed" ELSE claims[c].st
    <2>1. claims[c] \in ClaimRow
      BY RowFields
    <2>2. /\ [claims[c] EXCEPT !.st = "dismissed"] \in ClaimRow
          /\ [claims[c] EXCEPT !.st = "dismissed"].st = "dismissed"
          /\ [claims[c] EXCEPT !.st = "dismissed"].events = claims[c].events
          /\ [claims[c] EXCEPT !.st = "dismissed"].ver = claims[c].ver
      BY <2>1, ClaimMoved DEF ClaimStates, FinalizedClaims
    <2>3. claims'[c] = IF Unfinished(c) THEN [claims[c] EXCEPT !.st = "dismissed"] ELSE claims[c]
      BY DEF DeleteChannel
    <2> QED
      BY <2>1, <2>2, <2>3
  <1>3. ASSUME NEW b \in Batches
        PROVE  /\ batches'[b] \in BatchRow
               /\ batches'[b].claims = batches[b].claims
               /\ batches'[b].st = IF batches[b].st \in {"open", "dispatched", "dead_letter"}
                                   THEN "cancelled" ELSE batches[b].st
    <2>1. batches[b] \in BatchRow
      BY RowFields
    <2>2. /\ [batches[b] EXCEPT !.st = "cancelled"] \in BatchRow
          /\ [batches[b] EXCEPT !.st = "cancelled"].st = "cancelled"
          /\ [batches[b] EXCEPT !.st = "cancelled"].claims = batches[b].claims
      BY <2>1 DEF BatchRow, FinishedBatches
    <2>3. batches'[b] = IF batches[b].st \in {"open", "dispatched", "dead_letter"}
                        THEN [batches[b] EXCEPT !.st = "cancelled"] ELSE batches[b]
      BY DEF DeleteChannel
    <2> QED
      BY <2>1, <2>2, <2>3
  <1>4. channel' = "deleted" /\ UNCHANGED <<policies, procs, answers>>
    BY DEF DeleteChannel
  <1>5. /\ events' \in [EventIds -> EventRow] /\ claims' \in [Claims -> ClaimRow]
        /\ batches' \in [Batches -> BatchRow]
    <2>1. /\ events' = [e \in EventIds |-> events'[e]] /\ claims' = [c \in Claims |-> claims'[c]]
          /\ batches' = [b \in Batches |-> batches'[b]]
      BY DEF DeleteChannel
    <2> QED
      BY <1>1, <1>2, <1>3, <2>1
  <1> QED
    BY <1>1, <1>2, <1>3, <1>4, <1>5

LEMMA PruneEffect ==
    ASSUME TypeOK, NEW ob \in SUBSET Batches, NEW oc \in SUBSET Claims, PruneHistory(ob, oc)
    PROVE  LET pb == PrunableBatches(ob)
               pc == PrunableClaims(oc, pb) IN
           /\ claims' \in [Claims -> ClaimRow] /\ batches' \in [Batches -> BatchRow]
           /\ \A c \in pc : claims'[c].st = "pruned" /\ claims'[c].events = {} /\ claims'[c].ver = 0
           /\ \A c \in Claims \ pc : claims'[c] = claims[c]
           /\ \A b \in pb : batches'[b].st = "pruned" /\ batches'[b].claims = {}
           /\ \A b \in Batches \ pb : batches'[b] = batches[b]
           /\ UNCHANGED <<policies, events, channel, procs, answers>>
  <1> DEFINE pb == PrunableBatches(ob)
             pc == PrunableClaims(oc, pb)
  <1>1. /\ batches' = [b \in Batches |-> IF b \in pb
                                         THEN [NoBatch EXCEPT !.st = "pruned"] ELSE batches[b]]
        /\ claims' = [c \in Claims |-> IF c \in pc
                                       THEN [NoRow EXCEPT !.st = "pruned"] ELSE claims[c]]
        /\ UNCHANGED <<policies, events, channel, procs, answers>>
    BY DEF PruneHistory
  <1>2. pb \subseteq Batches /\ pc \subseteq Claims
    BY DEF PrunableBatches, PrunableClaims
  <1>3. /\ \A c \in Claims : claims'[c] = IF c \in pc THEN [NoRow EXCEPT !.st = "pruned"]
                                          ELSE claims[c]
        /\ \A b \in Batches : batches'[b] = IF b \in pb THEN [NoBatch EXCEPT !.st = "pruned"]
                                            ELSE batches[b]
    BY <1>1
  <1>4. claims' \in [Claims -> ClaimRow] /\ batches' \in [Batches -> BatchRow]
    <2> HIDE DEF pb, pc
    <2> QED
      BY <1>1, EmptyRows DEF TypeOK
  <1> HIDE DEF pb, pc
  <1>5. /\ \A c \in pc : claims'[c].st = "pruned" /\ claims'[c].events = {} /\ claims'[c].ver = 0
        /\ \A c \in Claims \ pc : claims'[c] = claims[c]
        /\ \A b \in pb : batches'[b].st = "pruned" /\ batches'[b].claims = {}
        /\ \A b \in Batches \ pb : batches'[b] = batches[b]
    BY <1>2, <1>3, EmptyRows
  <1> QED
    BY <1>1, <1>4, <1>5 DEF pb, pc

\* A claim that moves on in a tick or by its owner.
ClaimStep(c) ==
    \/ TickGate(c) \/ TickExpire(c) \/ TickFreeze(c)
    \/ SnoozeClaim(c) \/ \E st \in {"consumed", "dismissed"} : FinishClaim(c, st)

LEMMA ClaimStepEffect ==
    ASSUME TypeOK, NEW c \in Claims, ClaimStep(c)
    PROVE  \E st \in ClaimStates, est \in EventStates :
             /\ claims[c].st \in ActiveClaims \cup {"batched"}
             /\ claims' = ClaimTo(c, st)
             /\ events' = events \/ events' = EventsTo(c, est)
             /\ \/ st \in ActiveClaims \cup {"batched"} /\ est = "batched"
                \/ st \in FinalizedClaims /\ est \in FinishedEvents /\ events' = EventsTo(c, est)
             /\ \/ batches' = batches /\ st # "batched"
                \/ batches' = Detached(c) /\ st # "batched"
                \/ TickFreeze(c) /\ st = "batched"
             /\ UNCHANGED <<policies, channel, procs, answers>>
  <1>s. /\ "deferred" \in ActiveClaims /\ "eligible" \in ActiveClaims /\ "pending" \in ActiveClaims
        /\ "batched" \notin ActiveClaims /\ "batched" \notin FinalizedClaims
        /\ {"consumed", "dismissed", "expired"} \subseteq FinalizedClaims
        /\ {"consumed", "expired"} \subseteq FinishedEvents
        /\ ActiveClaims \cup {"batched"} \cup FinalizedClaims \subseteq ClaimStates
        /\ {"batched"} \cup FinishedEvents \subseteq EventStates
    BY DEF ActiveClaims, FinalizedClaims, FinishedEvents, ClaimStates, EventStates
  <1>1. CASE TickGate(c)
    BY <1>1, <1>s DEF TickGate
  <1>2. CASE TickExpire(c)
    BY <1>2, <1>s DEF TickExpire
  <1>3. CASE TickFreeze(c)
    BY <1>3, <1>s DEF TickFreeze
  <1>4. CASE SnoozeClaim(c)
    BY <1>4, <1>s DEF SnoozeClaim, ClaimTo
  <1>5. ASSUME NEW st \in {"consumed", "dismissed"}, FinishClaim(c, st)
        PROVE  /\ st \in FinalizedClaims /\ st \in ClaimStates /\ st # "batched"
               /\ claims[c].st \in ActiveClaims \cup {"batched"}
               /\ claims' = ClaimTo(c, st) /\ events' = EventsTo(c, "consumed")
               /\ batches' = Detached(c)
               /\ UNCHANGED <<policies, channel, procs, answers>>
    BY <1>5, <1>s DEF FinishClaim, ClaimTo
  <1> QED
    BY <1>1, <1>2, <1>3, <1>4, <1>5, <1>s DEF ClaimStep

------------------------------------------------------------------------------
(* The steps of Next by what they do to the rows.                           *)

\* A call that only reads, or writes the registry.
ProcStep(p) ==
    \/ \E v \in Versions, t \in Contents : InstallRead(p, v, t)
    \/ InstallCommit(p) \/ Crash(p)
    \/ \E r \in Requests : EmitLookup(p, r) \/ ScheduleLookup(p, r)
    \/ EmitMatch(p)

LiveBatches == {"open", "dispatched", "dead_letter"}

LEMMA NextForm ==
    ASSUME Next
    PROVE  \/ \E p \in Procs : ProcStep(p) \/ EmitCommit(p) \/ ScheduleCommit(p)
           \/ \E c \in Claims : ClaimStep(c)
           \/ \E b \in Batches : \E from \in LiveBatches, to \in LiveBatches \cup FinishedBatches :
                 MoveBatch(b, from, to)
           \/ DeleteChannel
           \/ \E ob \in SUBSET Batches, oc \in SUBSET Claims : PruneHistory(ob, oc)
  <1>1. Deliver => \E b \in Batches :
            \E from \in LiveBatches, to \in LiveBatches \cup FinishedBatches : MoveBatch(b, from, to)
    BY DEF Deliver, DispatchBatch, SettleBatch, RetireBatch, RetryBatch, LiveBatches,
           FinishedBatches
  <1>2. Tick \/ Owner => \E c \in Claims : ClaimStep(c)
    BY DEF Tick, Owner, ClaimStep
  <1>3. Install \/ Emit \/ Schedule \/ (\E p \in Procs : Crash(p)) =>
            \E p \in Procs : ProcStep(p) \/ EmitCommit(p) \/ ScheduleCommit(p)
    BY DEF Install, Emit, Schedule, ProcStep
  <1> QED
    BY <1>1, <1>2, <1>3 DEF Next, Prune

\* A new event, with the answer that names it.
Created(r, e, st, v) ==
    /\ e \in NewIds(r) /\ ~Conflict(e, r.key)
    /\ events'[e].st = st /\ events'[e].key = r.key /\ events'[e].ver = v
    /\ \A f \in EventIds \ {e} : events'[f] = events[f]
    /\ answers' = answers \cup Answers(r, {e})

LEMMA CreateForm ==
    ASSUME TypeOK, NEW p \in Procs, EmitCommit(p) \/ ScheduleCommit(p)
    PROVE  LET r == procs[p].req IN
           /\ r \in Requests /\ procs' = [procs EXCEPT ![p] = Idle] /\ UNCHANGED <<policies, batches>>
           /\ \/ /\ UNCHANGED <<events, claims, channel>>
                 /\ \E found \in SUBSET (Known(r) \cup WithKey(r.key)) :
                       answers' = answers \cup Answers(r, found)
              \/ /\ procs[p].pc = "matched" /\ UNCHANGED <<claims, channel>>
                 /\ \E e \in EventIds : Created(r, e, "suppressed", procs[p].ver)
              \/ /\ "ok" \in GuardStatuses /\ channel' = Registered
                 /\ \E e \in EventIds, c \in Claims, v \in 0..SelfPolicy :
                       /\ Created(r, e, "matched", v) /\ Taken(c, e, v)
                       /\ \/ /\ procs[p].pc = "matched" /\ v = procs[p].ver
                             /\ claims[c].st \in ActiveClaims => c = procs[p].cand
                          \/ /\ procs[p].pc = "asked" /\ v = SelfPolicy /\ claims[c].st = "none"
  <1> DEFINE job == procs[p]
             r   == job.req
  <1>s. {"suppressed", "matched"} \subseteq EventStates
    BY DEF EventStates
  <1>a. "none" \notin ActiveClaims
    BY DEF ActiveClaims
  <1>1. CASE EmitCommit(p)
    <2>1. /\ job.pc = "matched" /\ job \in ProcRow /\ r \in Requests
          /\ procs' = [procs EXCEPT ![p] = Idle] /\ UNCHANGED <<policies, batches>>
      BY <1>1, EmitCommitForm
    <2>2. /\ r.key \in Keys /\ job.ver \in 0..SelfPolicy
          /\ job.cand \in Claims \cup {NoClaim}
      BY <2>1, ProcFields, RequestFields, VersionFacts DEF SelfPolicy
    <2>3. PICK e \in EventIds : e \in NewIds(r) /\
                 \/ /\ answers' = answers \cup Answers(r, Known(r))
                    /\ UNCHANGED <<events, claims, channel>>
                 \/ /\ ~Conflict(e, r.key)
                    /\ events' = [events EXCEPT ![e] =
                          [st |-> "suppressed", key |-> r.key, ver |-> job.ver]]
                    /\ UNCHANGED <<claims, channel>>
                    /\ answers' = answers \cup Answers(r, {e})
                 \/ /\ ~Conflict(e, r.key)
                    /\ "ok" \in GuardStatuses
                    /\ events' = [events EXCEPT ![e] =
                          [st |-> "matched", key |-> r.key, ver |-> job.ver]]
                    /\ claims' \in Owned(job.cand, e, job.ver)
                    /\ channel' = Registered
                    /\ answers' = answers \cup Answers(r, {e})
      BY <1>1, EmitCommitForm
    <2> HIDE DEF r, job
    <2>4. CASE answers' = answers \cup Answers(r, Known(r)) /\ UNCHANGED <<events, claims, channel>>
      BY <2>1, <2>4 DEF r, job
    <2>5. CASE /\ ~Conflict(e, r.key)
               /\ events' = [events EXCEPT ![e] =
                     [st |-> "suppressed", key |-> r.key, ver |-> job.ver]]
               /\ UNCHANGED <<claims, channel>>
               /\ answers' = answers \cup Answers(r, {e})
      <3>1. Created(r, e, "suppressed", job.ver)
        BY <2>2, <2>3, <2>5, <1>s, EventPlaced DEF Created
      <3> QED
        BY <2>1, <2>5, <3>1 DEF r, job
    <2>6. CASE /\ ~Conflict(e, r.key)
               /\ "ok" \in GuardStatuses
               /\ events' = [events EXCEPT ![e] =
                     [st |-> "matched", key |-> r.key, ver |-> job.ver]]
               /\ claims' \in Owned(job.cand, e, job.ver)
               /\ channel' = Registered
               /\ answers' = answers \cup Answers(r, {e})
      <3>1. Created(r, e, "matched", job.ver)
        BY <2>2, <2>3, <2>6, <1>s, EventPlaced DEF Created
      <3>2. \E c \in Claims : /\ Taken(c, e, job.ver)
                              /\ claims[c].st \in ActiveClaims => c = job.cand
        BY <2>2, <2>3, <2>6, OwnedForm
      <3> QED
        BY <2>1, <2>2, <2>6, <3>1, <3>2 DEF r, job
    <2> QED
      BY <2>3, <2>4, <2>5, <2>6
  <1>2. CASE ScheduleCommit(p)
    <2>1. /\ r \in Requests /\ r.key \in Keys /\ job.pc = "asked"
          /\ procs' = [procs EXCEPT ![p] = Idle] /\ UNCHANGED <<policies, batches>>
      BY <1>2, ScheduleCommitForm, RequestFields
    <2>2. CASE UNCHANGED <<events, claims, channel, answers>>
      <3>1. answers' = answers \cup Answers(r, {})
        BY <2>2 DEF Answers
      <3> QED
        BY <2>1, <2>2, <3>1
    <2>3. CASE /\ answers' = answers \cup Answers(r, {x \in WithKey(r.key) : OwnersOf(x) # {}})
               /\ UNCHANGED <<events, claims, channel>>
      BY <2>1, <2>3
    <2>4. ASSUME NEW e \in EventIds, NEW c \in NewClaims,
                 e \in NewIds(r), ~Conflict(e, r.key), "ok" \in GuardStatuses,
                 events' = [events EXCEPT ![e] =
                       [st |-> "matched", key |-> r.key, ver |-> SelfPolicy]],
                 claims' = [claims EXCEPT ![c] =
                       [st |-> "pending", events |-> {e}, ver |-> SelfPolicy]],
                 channel' = Registered,
                 answers' = answers \cup Answers(r, {e})
          PROVE  /\ "ok" \in GuardStatuses /\ channel' = Registered
                 /\ c \in Claims /\ claims[c].st = "none" /\ SelfPolicy \in 0..SelfPolicy
                 /\ Created(r, e, "matched", SelfPolicy) /\ Taken(c, e, SelfPolicy)
      <3>1. Created(r, e, "matched", SelfPolicy)
        <4> HIDE DEF r
        <4> QED
          BY <2>1, <2>4, <1>s, VersionFacts, EventPlaced DEF Created
      <3>2. c \in Claims /\ claims[c].st = "none"
        BY DEF NewClaims
      <3>3. Taken(c, e, SelfPolicy)
        BY <2>4, <3>2 DEF Taken, TypeOK
      <3> QED
        BY <2>4, <3>1, <3>2, <3>3, VersionFacts
    <2> QED
      BY <1>2, <2>1, <2>2, <2>3, <2>4, ScheduleCommitForm
  <1> QED
    BY <1>1, <1>2

\* What the later steps leave of a row: what it was created with, unless it is pruned.
RowsKept ==
    /\ \A e \in EventIds :
          /\ events'[e].key = events[e].key /\ events'[e].ver = events[e].ver
          /\ events'[e].st = "none" <=> events[e].st = "none"
          /\ events'[e].st = "suppressed" <=> events[e].st = "suppressed"
    /\ \A c \in Claims :
          /\ claims'[c].st = "none" <=> claims[c].st = "none"
          /\ \/ /\ claims'[c].events = claims[c].events /\ claims'[c].ver = claims[c].ver
                /\ claims'[c].st = "pruned" <=> claims[c].st = "pruned"
             \/ claims'[c].st = "pruned" /\ claims'[c].events = {} /\ claims'[c].ver = 0
    /\ UNCHANGED <<policies, procs, answers>>

LEMMA StateNames ==
    /\ {"none", "suppressed"} \cap (FinishedEvents \cup Pending) = {}
    /\ {"none", "pruned"} \cap (ActiveClaims \cup FinalizedClaims \cup {"batched"}) = {}
    /\ (ActiveClaims \cup {"batched"}) \cap FinalizedClaims = {}
    /\ Pending \cap FinishedEvents = {} /\ "pending" \in ActiveClaims
    /\ "matched" \in Pending /\ "batched" \in Pending
    /\ "dismissed" \in FinalizedClaims /\ "expired" \in FinishedEvents
    /\ EventStates = {"none", "suppressed"} \cup Pending \cup FinishedEvents
    /\ ClaimStates = {"none", "pruned", "batched"} \cup ActiveClaims \cup FinalizedClaims
    /\ BatchStates = {"none", "pruned"} \cup LiveBatches \cup FinishedBatches
    /\ {"none", "pruned"} \cap (LiveBatches \cup FinishedBatches) = {}
    /\ LiveBatches \cap FinishedBatches = {} /\ "cancelled" \in FinishedBatches
    /\ "open" \in LiveBatches
  BY DEF FinishedEvents, Pending, ActiveClaims, FinalizedClaims, EventStates, ClaimStates,
         BatchStates, LiveBatches, FinishedBatches

\* A claim step, by its effect on each row.
LEMMA ClaimStepRows ==
    ASSUME TypeOK, NEW c \in Claims, ClaimStep(c)
    PROVE  /\ claims' \in [Claims -> ClaimRow] /\ events' \in [EventIds -> EventRow]
           /\ batches' \in [Batches -> BatchRow]
           /\ claims[c].st \in ActiveClaims \cup {"batched"}
           /\ claims'[c].st \in ActiveClaims \cup {"batched"} \cup FinalizedClaims
           /\ \A d \in Claims \ {c} : claims'[d] = claims[d]
           /\ \A d \in Claims : claims'[d].events = claims[d].events /\ claims'[d].ver = claims[d].ver
           /\ \A e \in EventIds :
                 /\ events'[e].key = events[e].key /\ events'[e].ver = events[e].ver
                 /\ IF e \notin claims[c].events THEN events'[e].st = events[e].st
                    ELSE IF claims'[c].st \in FinalizedClaims THEN events'[e].st \in FinishedEvents
                    ELSE events'[e].st \in {events[e].st, "batched"}
           /\ UNCHANGED <<policies, channel, procs, answers>>
           /\ \A b \in Batches :
                 /\ batches'[b].claims \subseteq batches[b].claims \cup {c}
                 /\ batches'[b].st = "pruned" =>
                       batches[b].st = "pruned" /\ batches'[b].claims \subseteq batches[b].claims
  <1>1. PICK st \in ClaimStates, est \in EventStates :
             /\ claims[c].st \in ActiveClaims \cup {"batched"}
             /\ claims' = ClaimTo(c, st)
             /\ events' = events \/ events' = EventsTo(c, est)
             /\ \/ st \in ActiveClaims \cup {"batched"} /\ est = "batched"
                \/ st \in FinalizedClaims /\ est \in FinishedEvents /\ events' = EventsTo(c, est)
             /\ \/ batches' = batches /\ st # "batched"
                \/ batches' = Detached(c) /\ st # "batched"
                \/ TickFreeze(c) /\ st = "batched"
             /\ UNCHANGED <<policies, channel, procs, answers>>
    BY ClaimStepEffect
  <1>2. /\ claims' \in [Claims -> ClaimRow]
        /\ claims'[c].st = st /\ \A d \in Claims \ {c} : claims'[d] = claims[d]
        /\ \A d \in Claims : claims'[d].events = claims[d].events /\ claims'[d].ver = claims[d].ver
    BY <1>1, ClaimToEffect
  <1>3. /\ events' \in [EventIds -> EventRow]
        /\ \A e \in EventIds :
              /\ events'[e].key = events[e].key /\ events'[e].ver = events[e].ver
              /\ IF e \notin claims[c].events THEN events'[e].st = events[e].st
                 ELSE IF st \in FinalizedClaims THEN events'[e].st \in FinishedEvents
                 ELSE events'[e].st \in {events[e].st, "batched"}
    <2>1. CASE events' = EventsTo(c, est)
      <3>1. /\ events' \in [EventIds -> EventRow]
            /\ \A e \in EventIds :
                  /\ events'[e].key = events[e].key /\ events'[e].ver = events[e].ver
                  /\ events'[e].st = IF e \in claims[c].events THEN est ELSE events[e].st
        BY <1>1, <2>1, EventsToEffect
      <3>2. IF st \in FinalizedClaims THEN est \in FinishedEvents ELSE est = "batched"
        BY <1>1, StateNames
      <3> QED
        BY <3>1, <3>2
    <2>2. CASE events' = events
      <3>1. st \in FinalizedClaims => events' = EventsTo(c, est)
        BY <1>1, StateNames
      <3>2. CASE st \notin FinalizedClaims
        BY <2>2, <3>2 DEF TypeOK
      <3> QED
        BY <2>1, <3>1, <3>2
    <2> QED
      BY <1>1, <2>1, <2>2
  <1>4. /\ batches' \in [Batches -> BatchRow]
        /\ \A b \in Batches :
              /\ batches'[b].claims \subseteq batches[b].claims \cup {c}
              /\ batches'[b].st = "pruned" =>
                    batches[b].st = "pruned" /\ batches'[b].claims \subseteq batches[b].claims
    <2>1. CASE batches' = batches
      BY <2>1 DEF TypeOK
    <2>2. CASE batches' = Detached(c)
      BY <2>2, DetachedEffect
    <2>3. CASE TickFreeze(c)
      BY <2>3, TickFreezeEffect
    <2> QED
      BY <1>1, <2>1, <2>2, <2>3
  <1>5. st \in ActiveClaims \cup {"batched"} \cup FinalizedClaims
    BY <1>1
  <1> QED
    BY <1>1, <1>2, <1>3, <1>4, <1>5

LEMMA LaterStepsKeepRows ==
    ASSUME TypeOK, Ownership,
           \/ \E c \in Claims : ClaimStep(c)
           \/ \E b \in Batches : \E from \in LiveBatches, to \in LiveBatches \cup FinishedBatches :
                 MoveBatch(b, from, to)
           \/ DeleteChannel
           \/ \E ob \in SUBSET Batches, oc \in SUBSET Claims : PruneHistory(ob, oc)
    PROVE  RowsKept
  <1>1. ASSUME NEW c \in Claims, ClaimStep(c) PROVE RowsKept
    <2>1. /\ claims[c].st \in ActiveClaims \cup {"batched"}
          /\ claims'[c].st \in ActiveClaims \cup {"batched"} \cup FinalizedClaims
          /\ \A d \in Claims \ {c} : claims'[d] = claims[d]
          /\ \A d \in Claims : claims'[d].events = claims[d].events /\ claims'[d].ver = claims[d].ver
          /\ UNCHANGED <<policies, procs, answers>>
          /\ \A e \in EventIds :
                /\ events'[e].key = events[e].key /\ events'[e].ver = events[e].ver
                /\ IF e \notin claims[c].events THEN events'[e].st = events[e].st
                   ELSE IF claims'[c].st \in FinalizedClaims THEN events'[e].st \in FinishedEvents
                   ELSE events'[e].st \in {events[e].st, "batched"}
      BY <1>1, ClaimStepRows
    <2>2. ASSUME NEW e \in EventIds
          PROVE  /\ events'[e].st = "none" <=> events[e].st = "none"
                 /\ events'[e].st = "suppressed" <=> events[e].st = "suppressed"
      <3>1. CASE e \notin claims[c].events
        BY <2>1, <3>1
      <3>2. CASE e \in claims[c].events
        <4>1. events[e].st \in Pending \cup FinishedEvents
          BY <3>2 DEF Ownership
        <4>2. events'[e].st \in FinishedEvents \cup {events[e].st, "batched"}
          BY <2>1, <3>2
        <4> QED
          BY <4>1, <4>2, StateNames
      <3> QED
        BY <3>1, <3>2
    <2>3. /\ claims'[c].st # "none" /\ claims'[c].st # "pruned"
          /\ claims[c].st # "none" /\ claims[c].st # "pruned"
      BY <2>1, StateNames
    <2> QED
      BY <2>1, <2>2, <2>3 DEF RowsKept
  <1>2. ASSUME NEW b \in Batches, NEW from \in LiveBatches, NEW to \in LiveBatches \cup FinishedBatches,
               MoveBatch(b, from, to)
        PROVE  RowsKept
    BY <1>2 DEF MoveBatch, RowsKept
  <1>3. CASE DeleteChannel
    <2>1. \A c \in Claims : /\ claims'[c].st = "none" <=> claims[c].st = "none"
                            /\ claims'[c].st = "pruned" <=> claims[c].st = "pruned"
      BY <1>3, DeleteChannelEffect, StateNames DEF Unfinished
    <2>2. \A e \in EventIds : /\ events'[e].st = "none" <=> events[e].st = "none"
                              /\ events'[e].st = "suppressed" <=> events[e].st = "suppressed"
      BY <1>3, DeleteChannelEffect, StateNames
    <2> QED
      BY <1>3, <2>1, <2>2, DeleteChannelEffect DEF RowsKept
  <1>4. ASSUME NEW ob \in SUBSET Batches, NEW oc \in SUBSET Claims, PruneHistory(ob, oc)
        PROVE  RowsKept
    <2> DEFINE pc == PrunableClaims(oc, PrunableBatches(ob))
    <2>1. /\ \A c \in pc : claims'[c].st = "pruned" /\ claims'[c].events = {} /\ claims'[c].ver = 0
          /\ \A c \in Claims \ pc : claims'[c] = claims[c]
          /\ UNCHANGED <<policies, events, channel, procs, answers>>
      BY <1>4, PruneEffect
    <2>2. \A c \in pc : claims[c].st \in FinalizedClaims
      BY DEF PrunableClaims
    <2> HIDE DEF pc
    <2>3. ASSUME NEW c \in Claims
          PROVE  /\ claims'[c].st = "none" <=> claims[c].st = "none"
                 /\ \/ /\ claims'[c].events = claims[c].events /\ claims'[c].ver = claims[c].ver
                       /\ claims'[c].st = "pruned" <=> claims[c].st = "pruned"
                    \/ claims'[c].st = "pruned" /\ claims'[c].events = {} /\ claims'[c].ver = 0
      <3>1. CASE c \in pc
        BY <2>1, <2>2, <3>1, StateNames
      <3>2. CASE c \notin pc
        BY <2>1, <3>2
      <3> QED
        BY <3>1, <3>2
    <2> QED
      BY <2>1, <2>3 DEF RowsKept
  <1> QED
    BY <1>1, <1>2, <1>3, <1>4

LEMMA NextKeepsTypes == TypeOK /\ [Next]_vars => TypeOK'
  <1> SUFFICES ASSUME TypeOK, [Next]_vars PROVE TypeOK'
    OBVIOUS
  <1>1. ASSUME NEW p \in Procs, ProcStep(p) PROVE TypeOK'
    BY <1>1, ProcStepTypes DEF ProcStep
  <1>2. ASSUME NEW p \in Procs, EmitCommit(p) \/ ScheduleCommit(p) PROVE TypeOK'
    BY <1>2, CreateTypes
  <1>3. ASSUME NEW c \in Claims, ClaimStep(c) PROVE TypeOK'
    BY <1>3, ClaimStepRows DEF TypeOK
  <1>4. ASSUME NEW b \in Batches, NEW from \in LiveBatches, NEW to \in LiveBatches \cup FinishedBatches,
               MoveBatch(b, from, to)
        PROVE  TypeOK'
    <2>1. from \in BatchStates /\ to \in BatchStates
      BY StateNames
    <2> QED
      BY <1>4, <2>1, MoveBatchEffect DEF TypeOK
  <1>5. CASE DeleteChannel
    BY <1>5, DeleteChannelEffect DEF TypeOK
  <1>6. ASSUME NEW ob \in SUBSET Batches, NEW oc \in SUBSET Claims, PruneHistory(ob, oc)
        PROVE  TypeOK'
    BY <1>6, PruneEffect DEF TypeOK
  <1>7. CASE UNCHANGED vars
    BY <1>7 DEF vars, TypeOK
  <1> QED
    BY <1>1, <1>2, <1>3, <1>4, <1>5, <1>6, <1>7, NextForm

------------------------------------------------------------------------------
(* Who owns an event.                                                       *)

\* An event that is not there yet is held by no claim.
LEMMA NewEventIsFree ==
    ASSUME TypeOK, Ownership, NEW e \in EventIds, NEW k, ~Conflict(e, k)
    PROVE  \A c \in Claims : e \notin claims[c].events
  BY StateNames DEF Ownership, Conflict

LEMMA OwnershipAtCreation ==
    ASSUME TypeOK, Ownership, NEW p \in Procs, EmitCommit(p) \/ ScheduleCommit(p)
    PROVE  Ownership'
  <1> DEFINE r == procs[p].req
  <1>1. CASE UNCHANGED <<events, claims>>
    BY <1>1 DEF Ownership, EventsFollowClaim
  <1>2. ASSUME NEW e \in EventIds, NEW v, Created(r, e, "suppressed", v), UNCHANGED claims
        PROVE  Ownership'
    <2>1. /\ \A c \in Claims : e \notin claims[c].events /\ claims[c].events \subseteq EventIds
          /\ \A f \in EventIds \ {e} : events'[f] = events[f]
          /\ events'[e].st = "suppressed" /\ claims' = claims
      BY <1>2, NewEventIsFree, RowFields DEF Created
    <2> QED
      BY <2>1, StateNames DEF Ownership, EventsFollowClaim
  <1>3. ASSUME NEW e \in EventIds, NEW c \in Claims, NEW v \in 0..SelfPolicy,
               Created(r, e, "matched", v), Taken(c, e, v)
        PROVE  Ownership'
    <2>1. /\ \A d \in Claims : e \notin claims[d].events /\ claims[d].events \subseteq EventIds
          /\ \A f \in EventIds \ {e} : events'[f] = events[f]
          /\ events'[e].st = "matched"
      BY <1>3, NewEventIsFree, RowFields DEF Created
    <2>2. /\ \A d \in Claims \ {c} : claims'[d] = claims[d]
          /\ claims[c].st \in ActiveClaims \/ claims[c].st = "none"
          /\ claims'[c].events = claims[c].events \cup {e}
          /\ claims'[c].st \in ActiveClaims
      BY <1>3, StateNames DEF Taken, Ownership
    <2>3. claims'[c].events \subseteq EventIds
      BY <2>1, <2>2
    <2>4. \A d \in Claims : claims'[d].st \in {"none", "pruned"} => claims'[d].events = {}
      BY <2>2, StateNames DEF Ownership
    <2>5. \A d, g \in Claims : d # g => claims'[d].events \cap claims'[g].events = {}
      <3>1. \A d \in Claims : d # c => claims'[c].events \cap claims'[d].events = {}
        BY <2>1, <2>2 DEF Ownership
      <3> QED
        BY <3>1, <2>2 DEF Ownership
    <2>6. /\ \A d \in Claims : \A f \in claims'[d].events :
                events'[f].st \in Pending \cup FinishedEvents
          /\ \A d \in Claims : \A f \in claims'[d].events :
                claims'[d].st \in FinalizedClaims <=> events'[f].st \in FinishedEvents
      <3>1. ASSUME NEW d \in Claims \ {c}, NEW f \in claims'[d].events
            PROVE  /\ events'[f].st \in Pending \cup FinishedEvents
                   /\ claims'[d].st \in FinalizedClaims <=> events'[f].st \in FinishedEvents
        <4>1. f \in claims[d].events /\ f # e /\ f \in EventIds
          BY <2>1, <2>2, <3>1
        <4>2. events'[f] = events[f] /\ claims'[d] = claims[d]
          BY <4>1, <2>1, <2>2
        <4> QED
          BY <4>1, <4>2 DEF Ownership, EventsFollowClaim
      <3>2. ASSUME NEW f \in claims'[c].events
            PROVE  /\ events'[f].st \in Pending \cup FinishedEvents
                   /\ claims'[c].st \in FinalizedClaims <=> events'[f].st \in FinishedEvents
        <4>1. CASE f = e
          BY <2>1, <2>2, <4>1, StateNames
        <4>2. CASE f # e
          <5>1. f \in claims[c].events /\ f \in EventIds
            BY <2>1, <2>2, <3>2, <4>2
          <5>2. claims[c].st \in ActiveClaims
            BY <2>2, <5>1 DEF Ownership
          <5>3. events[f].st \notin FinishedEvents /\ events[f].st \in Pending \cup FinishedEvents
            BY <5>1, <5>2, StateNames DEF Ownership, EventsFollowClaim
          <5> QED
            BY <2>1, <2>2, <4>2, <5>1, <5>3, StateNames
        <4> QED
          BY <4>1, <4>2
      <3> QED
        BY <3>1, <3>2
    <2>7. \A f \in EventIds : events'[f].st \in Pending => \E d \in Claims : f \in claims'[d].events
      <3>1. ASSUME NEW f \in EventIds \ {e}, events'[f].st \in Pending
            PROVE  \E d \in Claims : f \in claims'[d].events
        <4>1. PICK d \in Claims : f \in claims[d].events
          BY <2>1, <3>1 DEF Ownership
        <4> QED
          BY <2>2, <4>1
      <3> QED
        BY <2>2, <3>1
    <2> QED
      BY <2>4, <2>5, <2>6, <2>7 DEF Ownership, EventsFollowClaim
  <1> HIDE DEF r
  <1>4. \/ UNCHANGED <<events, claims>>
        \/ \E e \in EventIds : Created(r, e, "suppressed", procs[p].ver) /\ UNCHANGED claims
        \/ \E e \in EventIds, c \in Claims, v \in 0..SelfPolicy :
              Created(r, e, "matched", v) /\ Taken(c, e, v)
    BY CreateForm DEF r
  <1> QED
    BY <1>1, <1>2, <1>3, <1>4

LEMMA OwnershipInClaimStep ==
    ASSUME TypeOK, Ownership, NEW c \in Claims, ClaimStep(c)
    PROVE  Ownership'
  <1>1. /\ claims[c].st \in ActiveClaims \cup {"batched"}
        /\ claims'[c].st \in ActiveClaims \cup {"batched"} \cup FinalizedClaims
        /\ \A d \in Claims \ {c} : claims'[d] = claims[d]
        /\ \A d \in Claims : claims'[d].events = claims[d].events
        /\ \A e \in EventIds :
              IF e \notin claims[c].events THEN events'[e].st = events[e].st
              ELSE IF claims'[c].st \in FinalizedClaims THEN events'[e].st \in FinishedEvents
              ELSE events'[e].st \in {events[e].st, "batched"}
    BY ClaimStepRows
  <1>2. \A d \in Claims : claims[d].events \subseteq EventIds
    BY RowFields
  <1>3. \A d \in Claims : claims'[d].st \in {"none", "pruned"} => claims'[d].events = {}
    BY <1>1, StateNames DEF Ownership
  <1>4. \A d, g \in Claims : d # g => claims'[d].events \cap claims'[g].events = {}
    BY <1>1 DEF Ownership
  <1>5. ASSUME NEW d \in Claims, NEW e \in claims'[d].events
        PROVE  /\ events'[e].st \in Pending \cup FinishedEvents
               /\ claims'[d].st \in FinalizedClaims <=> events'[e].st \in FinishedEvents
    <2>1. e \in claims[d].events /\ e \in EventIds
      BY <1>1, <1>2, <1>5
    <2>2. CASE d # c
      <3>1. e \notin claims[c].events
        BY <2>1, <2>2 DEF Ownership
      <3> QED
        BY <1>1, <2>1, <2>2, <3>1 DEF Ownership, EventsFollowClaim
    <2>3. CASE d = c
      <3>1. events[e].st \in Pending /\ events[e].st \notin FinishedEvents
        BY <1>1, <2>1, <2>3, StateNames DEF Ownership, EventsFollowClaim
      <3> QED
        BY <1>1, <2>1, <2>3, <3>1, StateNames
    <2> QED
      BY <2>2, <2>3
  <1>6. ASSUME NEW e \in EventIds, events'[e].st \in Pending
        PROVE  \E d \in Claims : e \in claims'[d].events
    <2>1. CASE e \in claims[c].events
      BY <1>1, <2>1
    <2>2. CASE e \notin claims[c].events
      BY <1>1, <1>6, <2>2 DEF Ownership
    <2> QED
      BY <2>1, <2>2
  <1> QED
    BY <1>3, <1>4, <1>5, <1>6 DEF Ownership, EventsFollowClaim

LEMMA OwnershipInDeletion ==
    ASSUME TypeOK, Ownership, DeleteChannel
    PROVE  Ownership'
  <1>1. /\ \A e \in EventIds :
              events'[e].st = IF events[e].st \in Pending /\ \E c \in OwnersOf(e) : Unfinished(c)
                              THEN "expired" ELSE events[e].st
        /\ \A c \in Claims :
              /\ claims'[c].events = claims[c].events
              /\ claims'[c].st = IF Unfinished(c) THEN "dismissed" ELSE claims[c].st
    BY DeleteChannelEffect
  <1>2. \A c \in Claims : claims[c].events \subseteq EventIds /\ claims[c].st \in ClaimStates
    BY RowFields
  <1>3. \A c \in Claims : claims'[c].st \in {"none", "pruned"} => claims'[c].events = {}
    BY <1>1, StateNames DEF Ownership
  <1>4. \A c, d \in Claims : c # d => claims'[c].events \cap claims'[d].events = {}
    BY <1>1 DEF Ownership
  <1>5. ASSUME NEW c \in Claims, NEW e \in claims'[c].events
        PROVE  /\ events'[e].st \in Pending \cup FinishedEvents
               /\ claims'[c].st \in FinalizedClaims <=> events'[e].st \in FinishedEvents
    <2>1. e \in claims[c].events /\ e \in EventIds
      BY <1>1, <1>2, <1>5
    <2>2. /\ events[e].st \in Pending \cup FinishedEvents
          /\ claims[c].st \in FinalizedClaims <=> events[e].st \in FinishedEvents
      BY <2>1 DEF Ownership, EventsFollowClaim
    <2>3. claims[c].st \notin {"none", "pruned"}
      BY <2>1 DEF Ownership
    <2>4. CASE Unfinished(c)
      <3>1. c \in OwnersOf(e)
        BY <2>1, <2>3 DEF OwnersOf
      <3>2. events[e].st \in Pending
        BY <2>2, <2>4, StateNames DEF Unfinished
      <3> QED
        BY <1>1, <2>1, <2>4, <3>1, <3>2, StateNames
    <2>5. CASE ~Unfinished(c)
      <3>1. claims[c].st \in FinalizedClaims
        BY <1>2, <2>3, <2>5, StateNames DEF Unfinished
      <3>2. events[e].st \in FinishedEvents /\ events[e].st \notin Pending
        BY <2>2, <3>1, StateNames
      <3> QED
        BY <1>1, <2>1, <2>5, <3>1, <3>2
    <2> QED
      BY <2>4, <2>5
  <1>6. ASSUME NEW e \in EventIds, events'[e].st \in Pending
        PROVE  \E c \in Claims : e \in claims'[c].events
    <2>1. events[e].st \in Pending
      BY <1>1, <1>6, StateNames
    <2> QED
      BY <1>1, <2>1 DEF Ownership
  <1> QED
    BY <1>3, <1>4, <1>5, <1>6 DEF Ownership, EventsFollowClaim

LEMMA OwnershipInPruning ==
    ASSUME TypeOK, Ownership, NEW ob \in SUBSET Batches, NEW oc \in SUBSET Claims,
           PruneHistory(ob, oc)
    PROVE  Ownership'
  <1> DEFINE pc == PrunableClaims(oc, PrunableBatches(ob))
  <1>1. /\ \A c \in pc : claims'[c].st = "pruned" /\ claims'[c].events = {} /\ claims'[c].ver = 0
        /\ \A c \in Claims \ pc : claims'[c] = claims[c]
        /\ UNCHANGED <<policies, events, channel, procs, answers>>
    BY PruneEffect
  <1>2. \A c \in pc : claims[c].st \in FinalizedClaims
    BY DEF PrunableClaims
  <1>3. \A c \in Claims : claims[c].events \subseteq EventIds
    BY RowFields
  <1> HIDE DEF pc
  <1>4. \A c \in Claims : claims'[c].st \in {"none", "pruned"} => claims'[c].events = {}
    BY <1>1 DEF Ownership
  <1>5. \A c \in Claims : claims'[c].events \subseteq claims[c].events
    BY <1>1
  <1>6. \A c, d \in Claims : c # d => claims'[c].events \cap claims'[d].events = {}
    BY <1>5 DEF Ownership
  <1>7. ASSUME NEW c \in Claims, NEW e \in claims'[c].events
        PROVE  /\ events'[e].st \in Pending \cup FinishedEvents
               /\ claims'[c].st \in FinalizedClaims <=> events'[e].st \in FinishedEvents
    <2>1. c \notin pc
      BY <1>1, <1>7
    <2> QED
      BY <1>1, <1>7, <2>1 DEF Ownership, EventsFollowClaim
  <1>8. ASSUME NEW e \in EventIds, events'[e].st \in Pending
        PROVE  \E c \in Claims : e \in claims'[c].events
    <2>1. PICK c \in Claims : e \in claims[c].events
      BY <1>1, <1>8 DEF Ownership
    <2>2. claims[c].st \notin FinalizedClaims
      BY <1>1, <1>8, <2>1, StateNames DEF Ownership, EventsFollowClaim
    <2> QED
      BY <1>1, <1>2, <2>1, <2>2
  <1> QED
    BY <1>4, <1>6, <1>7, <1>8 DEF Ownership, EventsFollowClaim

LEMMA NextKeepsOwnership == TypeOK /\ Ownership /\ [Next]_vars => Ownership'
  <1> SUFFICES ASSUME TypeOK, Ownership, [Next]_vars PROVE Ownership'
    OBVIOUS
  <1>1. CASE UNCHANGED <<events, claims>>
    BY <1>1 DEF Ownership, EventsFollowClaim
  <1>2. ASSUME NEW p \in Procs, ProcStep(p) PROVE UNCHANGED <<events, claims>>
    BY <1>2 DEF ProcStep, InstallRead, InstallCommit, Crash, EmitLookup, ScheduleLookup, EmitMatch
  <1>3. ASSUME NEW b \in Batches, NEW from \in LiveBatches, NEW to \in LiveBatches \cup FinishedBatches,
               MoveBatch(b, from, to)
        PROVE  UNCHANGED <<events, claims>>
    BY <1>3 DEF MoveBatch
  <1>4. UNCHANGED vars => UNCHANGED <<events, claims>>
    BY DEF vars
  <1> QED
    BY <1>1, <1>2, <1>3, <1>4, NextForm, OwnershipAtCreation, OwnershipInClaimStep,
       OwnershipInDeletion, OwnershipInPruning

------------------------------------------------------------------------------
(* Which event answers a key.                                               *)

\* What the stored keys and the answers say, and what each process is about.
KeysStored ==
    /\ \A e, f \in EventIds : Present(e) /\ Present(f) /\ events[e].key = events[f].key => e = f
    /\ \A r \in Requests : r.idem \in EventIds /\ Present(r.idem) => events[r.idem].key = r.key
    /\ \A a \in answers : a.event \in EventIds /\ Present(a.event) /\ events[a.event].key = a.key
    /\ \A r \in Requests : r.kind = "schedule" =>
          \A e \in EventIds : Present(e) /\ events[e].key = r.key => events[e].st # "suppressed"

KindsFit(row) ==
    /\ row.pc \in {"looked", "matched"} => row.req.kind = "emit"
    /\ row.pc = "asked" => row.req.kind = "schedule"

LEMMA KeysAnswerForm == KeysAnswer <=> KeysStored /\ \A p \in Procs : KindsFit(procs[p])
  BY DEF KeysAnswer, KeysStored, KindsFit, WithKey, Present

LEMMA KindsFitStep ==
    ASSUME TypeOK, NEW p \in Procs, NEW row \in ProcRow, procs' = [procs EXCEPT ![p] = row],
           \A q \in Procs : KindsFit(procs[q]), KindsFit(row)
    PROVE  \A q \in Procs : KindsFit(procs'[q])
  <1>1. /\ procs'[p] = row /\ \A q \in Procs \ {p} : procs'[q] = procs[q]
    BY ProcsPlaced
  <1>2. ASSUME NEW q \in Procs PROVE KindsFit(procs'[q])
    <2>1. CASE q = p
      BY <1>1, <2>1
    <2>2. CASE q # p
      <3>1. procs'[q] = procs[q]
        BY <1>1, <2>2
      <3> QED
        BY <3>1
    <2> QED
      BY <2>1, <2>2
  <1> QED
    BY <1>2

\* What a lookup finds has the key that was asked for.
LEMMA FoundFits ==
    ASSUME KeysStored, NEW r \in Requests, NEW e \in Known(r) \cup WithKey(r.key)
    PROVE  e \in EventIds /\ Present(e) /\ events[e].key = r.key
  BY DEF KeysStored, Known, WithKey, Present

LEMMA AnsweringKeeps ==
    ASSUME KeysStored, NEW r \in Requests, NEW found,
           \A e \in found : e \in EventIds /\ Present(e) /\ events[e].key = r.key,
           answers' = answers \cup Answers(r, found), events' = events
    PROVE  KeysStored'
  <1>1. ASSUME NEW a \in answers'
        PROVE  a.event \in EventIds /\ events[a.event].st # "none" /\ events[a.event].key = a.key
    <2>1. CASE a \in answers
      BY <2>1 DEF KeysStored, Present
    <2>2. CASE a \in Answers(r, found)
      BY <2>2 DEF Answers, Present
    <2> QED
      BY <2>1, <2>2
  <1> QED
    BY <1>1 DEF KeysStored, Present

LEMMA CreationKeepsKeys ==
    ASSUME KeysStored, NEW r \in Requests, NEW e \in EventIds, NEW st \in {"matched", "suppressed"},
           NEW v, Created(r, e, st, v), st = "suppressed" => r.kind = "emit"
    PROVE  KeysStored'
  <1>1. /\ e \in NewIds(r) /\ ~Present(e)
        /\ \A f \in EventIds : Present(f) => events[f].key # r.key
        /\ events'[e].st = st /\ st # "none" /\ events'[e].key = r.key
        /\ \A f \in EventIds \ {e} : events'[f] = events[f]
        /\ answers' = answers \cup Answers(r, {e})
    BY DEF Created, Conflict, WithKey, Present
  <1>2. \A f, g \in EventIds : events'[f].st # "none" /\ events'[g].st # "none"
                               /\ events'[f].key = events'[g].key => f = g
    BY <1>1 DEF KeysStored, Present
  <1>3. ASSUME NEW s \in Requests, s.idem \in EventIds, events'[s.idem].st # "none"
        PROVE  events'[s.idem].key = s.key
    <2>1. CASE s.idem = e
      <3>1. e = r.idem /\ r.idem # NoIdem
        BY <1>1, <2>1, RequestFields, RequestsAssumption DEF NewIds
      <3>2. r.key = s.key
        BY <2>1, <3>1, RequestsAssumption
      <3> QED
        BY <1>1, <2>1, <3>2
    <2>2. CASE s.idem # e
      BY <1>1, <1>3, <2>2 DEF KeysStored, Present
    <2> QED
      BY <2>1, <2>2
  <1>4. ASSUME NEW a \in answers'
        PROVE  a.event \in EventIds /\ events'[a.event].st # "none" /\ events'[a.event].key = a.key
    <2>1. CASE a \in answers
      <3>1. a.event \in EventIds /\ Present(a.event) /\ events[a.event].key = a.key
        BY <2>1 DEF KeysStored
      <3> QED
        BY <1>1, <3>1 DEF Present
    <2>2. CASE a \in Answers(r, {e})
      BY <1>1, <2>2 DEF Answers
    <2> QED
      BY <1>1, <2>1, <2>2
  <1>5. ASSUME NEW s \in Requests, s.kind = "schedule", NEW f \in EventIds,
               events'[f].st # "none", events'[f].key = s.key
        PROVE  events'[f].st # "suppressed"
    <2>1. CASE f = e
      BY <1>1, <1>5, <2>1, RequestsAssumption
    <2>2. CASE f # e
      BY <1>1, <1>5, <2>2 DEF KeysStored, Present
    <2> QED
      BY <2>1, <2>2
  <1> QED
    BY <1>2, <1>3, <1>4, <1>5 DEF KeysStored, Present

LEMMA RowsKeptKeepKeys ==
    ASSUME TypeOK, KeysStored, RowsKept
    PROVE  KeysStored'
  BY DEF KeysStored, Present, RowsKept

\* The event of a commitment is finished or owned: a lookup finds no corrupt storage.
LEMMA CommitmentIsOwned ==
    ASSUME TypeOK, Ownership, KeysStored, NEW r \in Requests, r.kind = "schedule",
           NEW e \in WithKey(r.key)
    PROVE  Scheduled(e) \subseteq {e}
  <1>1. e \in EventIds /\ Present(e) /\ events[e].st # "suppressed" /\ events[e].st \in EventStates
    BY RowFields DEF KeysStored, WithKey, Present
  <1>2. events[e].st \in Pending \cup FinishedEvents
    BY <1>1, StateNames DEF Present
  <1>3. CASE events[e].st \in Pending
    <2>1. PICK c \in Claims : e \in claims[c].events
      BY <1>1, <1>3 DEF Ownership
    <2>2. claims[c].st # "pruned"
      BY <2>1 DEF Ownership
    <2>3. c \in OwnersOf(e)
      BY <2>1, <2>2 DEF OwnersOf
    <2> QED
      BY <2>3 DEF Scheduled
  <1>4. CASE events[e].st \in FinishedEvents
    BY <1>4 DEF Scheduled
  <1> QED
    BY <1>2, <1>3, <1>4

LEMMA IdleFits == KindsFit(Idle)
  BY DEF KindsFit, Idle

LEMMA KeysAnswerInProcStep ==
    ASSUME TypeOK, Ownership, KeysAnswer, NEW p \in Procs, ProcStep(p)
    PROVE  KeysAnswer'
  <1>0. KeysStored /\ \A q \in Procs : KindsFit(procs[q])
    BY KeysAnswerForm
  <1>k. UNCHANGED <<events, answers>> => KeysStored'
    BY <1>0 DEF KeysStored, Present
  <1>q. (KeysStored /\ \A q \in Procs : KindsFit(procs[q]))' => KeysAnswer'
    BY DEF KeysAnswer, KeysStored, KindsFit, WithKey, Present
  <1>1. ASSUME NEW v \in Versions, NEW t \in Contents, InstallRead(p, v, t)
        PROVE  KeysStored' /\ \A q \in Procs : KindsFit(procs'[q])
    <2> DEFINE row == [pc |-> "install", ver |-> v, content |-> t]
    <2>1. row \in ProcRow /\ KindsFit(row)
      BY InstallRow DEF KindsFit
    <2>2. procs' = [procs EXCEPT ![p] = row] /\ UNCHANGED <<events, answers>>
      BY <1>1 DEF InstallRead
    <2> HIDE DEF row
    <2> QED
      BY <1>0, <1>k, <2>1, <2>2, KindsFitStep
  <1>2. CASE InstallCommit(p) \/ Crash(p)
    <2>1. procs' = [procs EXCEPT ![p] = Idle] /\ UNCHANGED <<events, answers>>
      BY <1>2 DEF InstallCommit, Crash
    <2> QED
      BY <1>0, <1>k, <1>q, <2>1, EmptyRows, IdleFits, KindsFitStep
  <1>3. ASSUME NEW r \in Requests, EmitLookup(p, r)
        PROVE  KeysStored' /\ \A q \in Procs : KindsFit(procs'[q])
    <2> DEFINE row == [pc |-> "looked", req |-> r]
    <2>1. row \in ProcRow /\ KindsFit(row)
      BY <1>3, AskedRow DEF KindsFit, EmitLookup
    <2>2. /\ procs' = [procs EXCEPT ![p] = row] \/ procs' = procs
          /\ answers' = answers \cup Answers(r, Known(r)) /\ events' = events
      BY <1>3 DEF EmitLookup
    <2> HIDE DEF row
    <2>3. KeysStored'
      <3>1. \A e \in Known(r) : e \in EventIds /\ Present(e) /\ events[e].key = r.key
        BY <1>0, FoundFits
      <3> QED
        BY <1>0, <2>2, <3>1, AnsweringKeeps
    <2>4. \A q \in Procs : KindsFit(procs'[q])
      BY <1>0, <2>1, <2>2, KindsFitStep
    <2> QED
      BY <2>3, <2>4
  <1>4. ASSUME NEW r \in Requests, ScheduleLookup(p, r)
        PROVE  KeysStored' /\ \A q \in Procs : KindsFit(procs'[q])
    <2> DEFINE row   == [pc |-> "asked", req |-> r]
               found == UNION {Scheduled(e) : e \in WithKey(r.key)}
    <2>1. row \in ProcRow /\ KindsFit(row)
      BY <1>4, AskedRow DEF KindsFit, ScheduleLookup
    <2>2. /\ procs' = [procs EXCEPT ![p] = row] \/ procs' = procs
          /\ answers' = answers \cup Answers(r, found) /\ events' = events
          /\ r.kind = "schedule"
      BY <1>4 DEF ScheduleLookup
    <2>3. \A e \in found : e \in EventIds /\ Present(e) /\ events[e].key = r.key
      <3>1. found \subseteq WithKey(r.key)
        BY <1>0, <2>2, CommitmentIsOwned
      <3> QED
        BY <1>0, <3>1, FoundFits
    <2> HIDE DEF row, found
    <2>4. KeysStored'
      BY <1>0, <2>2, <2>3, AnsweringKeeps
    <2>5. \A q \in Procs : KindsFit(procs'[q])
      BY <1>0, <2>1, <2>2, KindsFitStep
    <2> QED
      BY <2>4, <2>5
  <1>5. CASE EmitMatch(p)
    <2>1. PICK c \in Claims \cup {NoClaim} :
              LET row == [pc |-> "matched", req |-> procs[p].req, ver |-> MatchedVersion,
                          content |-> ContentOf(MatchedVersion), cand |-> c] IN
              /\ procs[p].pc = "looked"
              /\ c = NoClaim \/ c \in Mergeable(MatchedVersion)
              /\ row \in ProcRow /\ procs' = [procs EXCEPT ![p] = row]
              /\ UNCHANGED <<policies, events, claims, batches, channel, answers>>
      BY <1>5, EmitMatchForm
    <2> DEFINE row == [pc |-> "matched", req |-> procs[p].req, ver |-> MatchedVersion,
                       content |-> ContentOf(MatchedVersion), cand |-> c]
    <2>2. row \in ProcRow /\ procs' = [procs EXCEPT ![p] = row] /\ UNCHANGED <<events, answers>>
      BY <2>1
    <2>3. KindsFit(row)
      BY <1>0, <2>1 DEF KindsFit
    <2> HIDE DEF row
    <2> QED
      BY <1>0, <1>k, <1>q, <2>2, <2>3, KindsFitStep
  <1> QED
    BY <1>1, <1>2, <1>3, <1>4, <1>5, <1>q DEF ProcStep

LEMMA KeysAnswerAtCreation ==
    ASSUME TypeOK, KeysAnswer, NEW p \in Procs, EmitCommit(p) \/ ScheduleCommit(p)
    PROVE  KeysAnswer'
  <1> DEFINE r == procs[p].req
  <1>0. KeysStored /\ \A q \in Procs : KindsFit(procs[q])
    BY KeysAnswerForm
  <1>1. /\ r \in Requests /\ procs' = [procs EXCEPT ![p] = Idle]
        /\ \/ /\ UNCHANGED events
              /\ \E found \in SUBSET (Known(r) \cup WithKey(r.key)) :
                    answers' = answers \cup Answers(r, found)
           \/ procs[p].pc = "matched" /\ \E e \in EventIds : Created(r, e, "suppressed", procs[p].ver)
           \/ \E e \in EventIds, v \in 0..SelfPolicy : Created(r, e, "matched", v)
    BY CreateForm
  <1>2. \A q \in Procs : KindsFit(procs'[q])
    BY <1>0, <1>1, EmptyRows, IdleFits, KindsFitStep
  <1>3. procs[p].pc = "matched" => r.kind = "emit"
    BY <1>0 DEF KindsFit
  <1> HIDE DEF r
  <1>4. ASSUME NEW found \in SUBSET (Known(r) \cup WithKey(r.key)), UNCHANGED events,
               answers' = answers \cup Answers(r, found)
        PROVE  KeysStored'
    <2>1. \A e \in found : e \in EventIds /\ Present(e) /\ events[e].key = r.key
      BY <1>0, <1>1, FoundFits
    <2> QED
      BY <1>0, <1>1, <1>4, <2>1, AnsweringKeeps
  <1>5. ASSUME NEW e \in EventIds, Created(r, e, "suppressed", procs[p].ver), procs[p].pc = "matched"
        PROVE  KeysStored'
    BY <1>0, <1>1, <1>3, <1>5, CreationKeepsKeys
  <1>6. ASSUME NEW e \in EventIds, NEW v \in 0..SelfPolicy, Created(r, e, "matched", v)
        PROVE  KeysStored'
    BY <1>0, <1>1, <1>6, CreationKeepsKeys
  <1>7. KeysStored'
    BY <1>1, <1>4, <1>5, <1>6
  <1> QED
    BY <1>2, <1>7 DEF KeysAnswer, KeysStored, KindsFit, WithKey, Present

LEMMA NextKeepsKeys == TypeOK /\ Ownership /\ KeysAnswer /\ [Next]_vars => KeysAnswer'
  <1> SUFFICES ASSUME TypeOK, Ownership, KeysAnswer, [Next]_vars PROVE KeysAnswer'
    OBVIOUS
  <1>0. KeysStored /\ \A q \in Procs : KindsFit(procs[q])
    BY KeysAnswerForm
  <1>1. CASE RowsKept
    <2>1. KeysStored' /\ procs' = procs
      BY <1>0, <1>1, RowsKeptKeepKeys DEF RowsKept
    <2> QED
      BY <1>0, <2>1 DEF KeysAnswer, KeysStored, KindsFit, WithKey, Present
  <1>2. CASE UNCHANGED vars
    BY <1>2 DEF vars, KeysAnswer, WithKey, Present
  <1> QED
    BY <1>1, <1>2, NextForm, LaterStepsKeepRows, KeysAnswerInProcStep, KeysAnswerAtCreation

------------------------------------------------------------------------------
(* The rules a claim was made under.                                        *)

\* An installed version says the same for ever.
VersionsKept == \A v \in Known0 : v \in Known0' /\ ContentOf(v)' = ContentOf(v)

LEMMA InstallsKeepVersions ==
    ASSUME TypeOK, [Next]_vars
    PROVE  /\ \A v \in Installed : policies'[v] = policies[v]
           /\ VersionsKept
  <1>1. CASE policies' = policies
    BY <1>1 DEF VersionsKept, Known0, Installed, ContentOf
  <1>2. ASSUME NEW p \in Procs, InstallCommit(p), policies' # policies
        PROVE  /\ \A v \in Installed : policies'[v] = policies[v]
               /\ VersionsKept
    <2> DEFINE u == procs[p].ver
               x == procs[p].content
    <2>1. u \in Versions /\ policies[u] = "none" /\ policies' = [policies EXCEPT ![u] = x]
      BY <1>2, RowFields, ProcFields DEF InstallCommit
    <2> HIDE DEF u, x
    <2>2. \A v \in Installed : v # u /\ policies'[v] = policies[v] /\ v \in Versions
      BY <2>1 DEF Installed, TypeOK
    <2> QED
      BY <2>2 DEF VersionsKept, Known0, Installed, ContentOf
  <1>3. ASSUME NEW p \in Procs, ProcStep(p), ~InstallCommit(p) PROVE policies' = policies
    BY <1>3 DEF ProcStep, InstallRead, Crash, EmitLookup, ScheduleLookup, EmitMatch
  <1>4. ASSUME NEW p \in Procs, EmitCommit(p) \/ ScheduleCommit(p) PROVE policies' = policies
    BY <1>4 DEF EmitCommit, ScheduleCommit
  <1>5. ASSUME NEW c \in Claims, ClaimStep(c) PROVE policies' = policies
    BY <1>5, ClaimStepRows
  <1>6. ASSUME NEW b \in Batches, NEW from \in LiveBatches, NEW to \in LiveBatches \cup FinishedBatches,
               MoveBatch(b, from, to)
        PROVE  policies' = policies
    BY <1>6 DEF MoveBatch
  <1>7. DeleteChannel => policies' = policies
    BY DEF DeleteChannel
  <1>8. ASSUME NEW ob \in SUBSET Batches, NEW oc \in SUBSET Claims, PruneHistory(ob, oc)
        PROVE  policies' = policies
    BY <1>8 DEF PruneHistory
  <1>9. UNCHANGED vars => policies' = policies
    BY DEF vars
  <1> QED
    BY <1>1, <1>2, <1>3, <1>4, <1>5, <1>6, <1>7, <1>8, <1>9, NextForm

\* The rows, and what a process has matched.
RulesOfRows ==
    /\ \A c \in Claims : claims[c].ver \in Known0 \cup {SelfPolicy}
    /\ \A e \in EventIds : events[e].ver \in Known0 \cup {SelfPolicy}
    /\ ClaimHasOneSemantics
    /\ \A c \in Claims : \A e \in claims[c].events :
          events[e].ver = SelfPolicy <=> claims[c].ver = SelfPolicy

MatchFits(row) ==
    row.pc = "matched" =>
        /\ row.ver \in Known0 /\ row.content = ContentOf(row.ver)
        /\ row.cand # NoClaim =>
              /\ claims[row.cand].st # "none"
              /\ claims[row.cand].st # "pruned" =>
                    /\ claims[row.cand].ver # SelfPolicy
                    /\ ContentOf(claims[row.cand].ver) = row.content

LEMMA RulesAgreeForm == RulesAgree <=> RulesOfRows /\ \A p \in Procs : MatchFits(procs[p])
  BY DEF RulesAgree, RulesOfRows, MatchFits

ClaimsKeepRules ==
    \A c \in Claims : claims[c].st # "none" =>
        /\ claims'[c].st # "none"
        /\ claims'[c].st # "pruned" => claims[c].st # "pruned" /\ claims'[c].ver = claims[c].ver

LEMMA MatchKept ==
    ASSUME TypeOK, RulesOfRows, VersionsKept, ClaimsKeepRules, NEW row \in ProcRow, MatchFits(row)
    PROVE  MatchFits(row)'
  <1> SUFFICES ASSUME row.pc = "matched"
               PROVE  /\ row.ver \in Known0' /\ row.content = ContentOf(row.ver)'
                      /\ row.cand # NoClaim =>
                            /\ claims'[row.cand].st # "none"
                            /\ claims'[row.cand].st # "pruned" =>
                                  /\ claims'[row.cand].ver # SelfPolicy
                                  /\ ContentOf(claims[row.cand].ver)' = row.content
    BY DEF MatchFits, ContentOf
  <1>1. row.ver \in Known0 /\ row.content = ContentOf(row.ver)
    BY DEF MatchFits
  <1>2. row.ver \in Known0' /\ row.content = ContentOf(row.ver)'
    BY <1>1 DEF VersionsKept, ContentOf
  <1>3. ASSUME row.cand # NoClaim
        PROVE  /\ claims'[row.cand].st # "none"
               /\ claims'[row.cand].st # "pruned" =>
                     /\ claims'[row.cand].ver # SelfPolicy
                     /\ ContentOf(claims[row.cand].ver)' = row.content
    <2> DEFINE c == row.cand
               v == claims[c].ver
    <2>1. c \in Claims
      BY <1>3, ProcFields
    <2>2. /\ claims[c].st # "none"
          /\ claims[c].st # "pruned" => v # SelfPolicy /\ ContentOf(v) = row.content
      BY <1>3 DEF MatchFits
    <2>3. /\ claims'[c].st # "none"
          /\ claims'[c].st # "pruned" => claims[c].st # "pruned" /\ claims'[c].ver = v
      BY <2>1, <2>2 DEF ClaimsKeepRules
    <2>4. v \in Known0 \cup {SelfPolicy}
      BY <2>1 DEF RulesOfRows
    <2> QED
      BY <2>2, <2>3, <2>4 DEF VersionsKept, ContentOf
  <1> QED
    BY <1>2, <1>3

LEMMA MatchesKept ==
    ASSUME TypeOK, RulesAgree, VersionsKept, ClaimsKeepRules,
           NEW p \in Procs, NEW row \in ProcRow, MatchFits(row),
           procs' = [procs EXCEPT ![p] = row] \/ procs' = procs
    PROVE  \A q \in Procs : MatchFits(procs[q])'
  <1>1. RulesOfRows /\ \A q \in Procs : MatchFits(procs[q])
    BY RulesAgreeForm
  <1>2. ASSUME NEW q \in Procs PROVE MatchFits(procs[q])'
    <2>1. PICK x \in ProcRow : x = procs'[q] /\ MatchFits(x)
      <3>1. CASE procs'[q] = row
        BY <3>1
      <3>2. CASE procs'[q] = procs[q]
        <4>1. procs[q] \in ProcRow /\ MatchFits(procs[q])
          BY <1>1, RowFields
        <4> QED
          BY <3>2, <4>1
      <3> QED
        BY <3>1, <3>2, ProcsPlaced
    <2>2. MatchFits(x)'
      BY <1>1, <2>1, MatchKept
    <2> QED
      BY <2>1, <2>2 DEF MatchFits
  <1> QED
    BY <1>2

LEMMA IdleMatches == Idle \in ProcRow /\ MatchFits(Idle)
  BY EmptyRows DEF MatchFits, Idle

LEMMA RowsKeptKeepRules ==
    ASSUME TypeOK, RulesAgree, RowsKept
    PROVE  RulesAgree'
  <1>1. RulesOfRows /\ \A q \in Procs : MatchFits(procs[q])
    BY RulesAgreeForm
  <1>2. policies' = policies /\ procs' = procs
    BY DEF RowsKept
  <1>3. Known0' = Known0 /\ VersionsKept
    BY <1>2 DEF VersionsKept, Known0, Installed, ContentOf
  <1>4. ClaimsKeepRules
    BY DEF ClaimsKeepRules, RowsKept
  <1>5. \A q \in Procs : MatchFits(procs[q])'
    <2>1. ASSUME NEW q \in Procs PROVE MatchFits(procs[q])'
      <3>1. PICK x \in ProcRow : x = procs[q] /\ MatchFits(x)
        BY <1>1, RowFields
      <3>2. MatchFits(x)'
        BY <1>1, <1>3, <1>4, <3>1, MatchKept
      <3> QED
        BY <1>2, <3>1, <3>2 DEF MatchFits
    <2> QED
      BY <2>1
  <1>6. \A c \in Claims : claims[c].events \subseteq EventIds
    BY RowFields
  <1>7. /\ \A c \in Claims : claims'[c].ver \in {0, claims[c].ver}
        /\ \A e \in EventIds : events'[e].ver = events[e].ver
        /\ 0 \in Known0
    BY DEF RowsKept, Known0
  <1>8. ASSUME NEW c \in Claims, NEW e \in claims'[c].events
        PROVE  /\ e \in claims[c].events /\ claims'[c].ver = claims[c].ver
               /\ events'[e].ver = events[e].ver
    <2>1. e \in claims[c].events /\ claims'[c].ver = claims[c].ver
      BY <1>8 DEF RowsKept
    <2> QED
      BY <1>6, <1>7, <2>1
  <1> QED
    BY <1>1, <1>2, <1>3, <1>5, <1>7, <1>8
       DEF RulesOfRows, RulesAgree, MatchFits, ClaimHasOneSemantics, ContentOf

LEMMA RulesInProcStep ==
    ASSUME TypeOK, RulesAgree, VersionsKept, NEW p \in Procs, ProcStep(p)
    PROVE  RulesAgree'
  <1>1. RulesOfRows /\ \A q \in Procs : MatchFits(procs[q])
    BY RulesAgreeForm
  <1>2. UNCHANGED <<claims, events>>
    BY DEF ProcStep, InstallRead, InstallCommit, Crash, EmitLookup, ScheduleLookup, EmitMatch
  <1>3. ClaimsKeepRules
    BY <1>2 DEF ClaimsKeepRules
  <1>4. RulesOfRows'
    <2>1. \A c \in Claims : claims[c].events \subseteq EventIds
      BY RowFields
    <2>2. /\ \A c \in Claims : claims'[c].ver \in Known0' \cup {SelfPolicy}
          /\ \A e \in EventIds : events'[e].ver \in Known0' \cup {SelfPolicy}
      BY <1>1, <1>2 DEF RulesOfRows, VersionsKept
    <2>3. ASSUME NEW c \in Claims, NEW e \in claims[c].events
          PROVE  /\ events[e].ver = SelfPolicy <=> claims[c].ver = SelfPolicy
                 /\ claims[c].ver # SelfPolicy =>
                       ContentOf(events[e].ver)' = ContentOf(claims[c].ver)'
      <3>1. /\ claims[c].ver \in Known0 \cup {SelfPolicy} /\ events[e].ver \in Known0 \cup {SelfPolicy}
            /\ events[e].ver = SelfPolicy <=> claims[c].ver = SelfPolicy
            /\ claims[c].ver # SelfPolicy => ContentOf(events[e].ver) = ContentOf(claims[c].ver)
        BY <1>1, <2>1 DEF RulesOfRows, ClaimHasOneSemantics
      <3> QED
        BY <1>2, <3>1 DEF VersionsKept, ContentOf
    <2> QED
      BY <1>2, <2>2, <2>3 DEF RulesOfRows, ClaimHasOneSemantics, ContentOf
  <1>5. \A q \in Procs : MatchFits(procs[q])'
    <2>1. ASSUME NEW row \in ProcRow, procs' = [procs EXCEPT ![p] = row] \/ procs' = procs,
                 row.pc # "matched"
          PROVE  \A q \in Procs : MatchFits(procs[q])'
      <3>1. MatchFits(row)
        BY <2>1 DEF MatchFits
      <3> QED
        BY <1>3, <2>1, <3>1, MatchesKept
    <2>2. ASSUME NEW v \in Versions, NEW t \in Contents, InstallRead(p, v, t)
          PROVE  \A q \in Procs : MatchFits(procs[q])'
      BY <2>1, <2>2, InstallRow DEF InstallRead
    <2>3. CASE InstallCommit(p) \/ Crash(p)
      BY <2>1, <2>3, EmptyRows DEF InstallCommit, Crash, Idle
    <2>4. ASSUME NEW r \in Requests, EmitLookup(p, r)
          PROVE  \A q \in Procs : MatchFits(procs[q])'
      BY <2>1, <2>4, AskedRow DEF EmitLookup
    <2>5. ASSUME NEW r \in Requests, ScheduleLookup(p, r)
          PROVE  \A q \in Procs : MatchFits(procs[q])'
      BY <2>1, <2>5, AskedRow DEF ScheduleLookup
    <2>6. CASE EmitMatch(p)
      <3>1. PICK c \in Claims \cup {NoClaim} :
                LET row == [pc |-> "matched", req |-> procs[p].req, ver |-> MatchedVersion,
                            content |-> ContentOf(MatchedVersion), cand |-> c] IN
                /\ procs[p].pc = "looked"
                /\ c = NoClaim \/ c \in Mergeable(MatchedVersion)
                /\ row \in ProcRow /\ procs' = [procs EXCEPT ![p] = row]
                /\ UNCHANGED <<policies, events, claims, batches, channel, answers>>
        BY <2>6, EmitMatchForm
      <3>2. PICK row \in ProcRow :
                /\ row = [pc |-> "matched", req |-> procs[p].req, ver |-> MatchedVersion,
                          content |-> ContentOf(MatchedVersion), cand |-> c]
                /\ procs' = [procs EXCEPT ![p] = row]
        BY <3>1
      <3>3. /\ row.ver = MatchedVersion /\ row.content = ContentOf(MatchedVersion)
            /\ row.cand = c
        BY <3>2
      <3>4. MatchFits(row)
        BY <3>1, <3>3, MatchedIsInstalled, StateNames DEF MatchFits, Mergeable
      <3> QED
        BY <1>3, <3>2, <3>4, MatchesKept
    <2> QED
      BY <2>2, <2>3, <2>4, <2>5, <2>6 DEF ProcStep
  <1> QED
    BY <1>4, <1>5 DEF RulesOfRows, RulesAgree, MatchFits

LEMMA RulesAtCreation ==
    ASSUME TypeOK, Ownership, RulesAgree, VersionsKept,
           NEW p \in Procs, EmitCommit(p) \/ ScheduleCommit(p)
    PROVE  RulesAgree'
  <1> DEFINE r == procs[p].req
  <1>1. RulesOfRows /\ \A q \in Procs : MatchFits(procs[q])
    BY RulesAgreeForm
  <1>2. /\ procs' = [procs EXCEPT ![p] = Idle] /\ UNCHANGED policies
        /\ \/ UNCHANGED <<events, claims>>
           \/ /\ procs[p].pc = "matched" /\ UNCHANGED claims
              /\ \E e \in EventIds : Created(r, e, "suppressed", procs[p].ver)
           \/ \E e \in EventIds, c \in Claims, v \in 0..SelfPolicy :
                 /\ Created(r, e, "matched", v) /\ Taken(c, e, v)
                 /\ \/ /\ procs[p].pc = "matched" /\ v = procs[p].ver
                       /\ claims[c].st \in ActiveClaims => c = procs[p].cand
                    \/ /\ procs[p].pc = "asked" /\ v = SelfPolicy /\ claims[c].st = "none"
    BY CreateForm
  <1>3. Known0' = Known0 /\ \A v \in Known0 \cup {SelfPolicy} : ContentOf(v)' = ContentOf(v)
    BY <1>2 DEF Known0, Installed, ContentOf
  <1>4. \A c \in Claims : claims[c].events \subseteq EventIds
    BY RowFields
  <1> HIDE DEF r
  <1>5. CASE UNCHANGED <<events, claims>>
    <2>1. ClaimsKeepRules
      BY <1>5 DEF ClaimsKeepRules
    <2>2. \A q \in Procs : MatchFits(procs[q])'
      BY <1>2, <2>1, IdleMatches, MatchesKept
    <2> QED
      BY <1>1, <1>2, <1>3, <1>5, <2>2
         DEF RulesOfRows, RulesAgree, MatchFits, ClaimHasOneSemantics, ContentOf
  <1>6. ASSUME NEW e \in EventIds, Created(r, e, "suppressed", procs[p].ver),
               procs[p].pc = "matched", UNCHANGED claims
        PROVE  RulesAgree'
    <2>1. ClaimsKeepRules
      BY <1>6 DEF ClaimsKeepRules
    <2>2. \A q \in Procs : MatchFits(procs[q])'
      BY <1>2, <2>1, IdleMatches, MatchesKept
    <2>3. procs[p].ver \in Known0
      BY <1>1, <1>6 DEF MatchFits
    <2>4. \A f \in EventIds : events'[f].ver \in Known0 \cup {SelfPolicy}
      BY <1>1, <1>6, <2>3 DEF Created, RulesOfRows
    <2>5. \A c \in Claims : \A f \in claims[c].events : events'[f] = events[f]
      BY <1>4, <1>6, NewEventIsFree DEF Created
    <2> QED
      BY <1>1, <1>2, <1>3, <1>6, <2>2, <2>4, <2>5
         DEF RulesOfRows, RulesAgree, MatchFits, ClaimHasOneSemantics, ContentOf
  <1>7. ASSUME NEW e \in EventIds, NEW c \in Claims, NEW v \in 0..SelfPolicy,
               Created(r, e, "matched", v), Taken(c, e, v),
               \/ /\ procs[p].pc = "matched" /\ v = procs[p].ver
                  /\ claims[c].st \in ActiveClaims => c = procs[p].cand
               \/ /\ procs[p].pc = "asked" /\ v = SelfPolicy /\ claims[c].st = "none"
        PROVE  RulesAgree'
    <2>1. /\ \A d \in Claims \ {c} : claims'[d] = claims[d]
          /\ claims[c].st \in ActiveClaims \/ claims[c].st = "none"
          /\ claims'[c].st \in ActiveClaims
          /\ claims[c].st # "none" => claims'[c].ver = claims[c].ver
      BY <1>7, StateNames DEF Taken
    <2>2. ClaimsKeepRules
      BY <2>1, StateNames DEF ClaimsKeepRules
    <2>3. \A q \in Procs : MatchFits(procs[q])'
      BY <1>2, <2>2, IdleMatches, MatchesKept
    <2>4. v \in Known0 \cup {SelfPolicy}
      BY <1>1, <1>7 DEF MatchFits
    <2>5. /\ \A f \in EventIds \ {e} : events'[f] = events[f]
          /\ events'[e].ver = v
          /\ \A d \in Claims : \A f \in claims[d].events : f # e /\ events'[f] = events[f]
      BY <1>4, <1>7, NewEventIsFree DEF Created
    <2>6. \A f \in EventIds : events'[f].ver \in Known0 \cup {SelfPolicy}
      BY <1>1, <2>4, <2>5 DEF RulesOfRows
    <2>7. /\ claims'[c].ver \in Known0 \cup {SelfPolicy}
          /\ claims'[c].ver = SelfPolicy <=> v = SelfPolicy
          /\ v # SelfPolicy => ContentOf(claims'[c].ver) = ContentOf(v)
          /\ \A f \in claims'[c].events \ {e} : f \in claims[c].events /\ claims'[c].ver = claims[c].ver
      <3>1. CASE claims[c].st \in ActiveClaims
        <4>1. /\ claims[c].st # "none" /\ claims[c].st # "pruned"
              /\ procs[p].pc = "matched" /\ v = procs[p].ver /\ c = procs[p].cand
          BY <1>7, <3>1, StateNames
        <4>2. c # NoClaim
          BY RequestsAssumption
        <4>3. /\ v \in Known0 /\ claims[c].ver # SelfPolicy
              /\ ContentOf(claims[c].ver) = ContentOf(v)
          BY <1>1, <4>1, <4>2 DEF MatchFits
        <4>4. v # SelfPolicy
          BY <4>3, VersionFacts
        <4>5. claims'[c].ver = claims[c].ver /\ claims'[c].events = claims[c].events \cup {e}
          BY <1>7, <4>1 DEF Taken
        <4> QED
          BY <1>1, <4>3, <4>4, <4>5 DEF RulesOfRows
      <3>2. CASE claims[c].st = "none"
        <4>1. claims'[c].ver = v /\ claims'[c].events = {e}
          BY <1>7, <3>2, StateNames DEF Taken
        <4> QED
          BY <2>4, <4>1
      <3> QED
        BY <2>1, <3>1, <3>2
    <2>8. \A d \in Claims : claims'[d].ver \in Known0 \cup {SelfPolicy}
      BY <1>1, <2>1, <2>7 DEF RulesOfRows
    <2>9. ASSUME NEW d \in Claims, NEW f \in claims'[d].events
          PROVE  /\ events'[f].ver = SelfPolicy <=> claims'[d].ver = SelfPolicy
                 /\ claims'[d].ver # SelfPolicy =>
                       ContentOf(events'[f].ver) = ContentOf(claims'[d].ver)
      <3>1. CASE d = c /\ f = e
        BY <2>5, <2>7, <3>1
      <3>2. CASE ~(d = c /\ f = e)
        <4>1. f \in claims[d].events /\ claims'[d].ver = claims[d].ver
          BY <2>1, <2>7, <2>9, <3>2
        <4> QED
          BY <1>1, <2>5, <4>1 DEF RulesOfRows, ClaimHasOneSemantics
      <3> QED
        BY <3>1, <3>2
    <2> QED
      BY <1>2, <1>3, <2>3, <2>6, <2>8, <2>9
         DEF RulesOfRows, RulesAgree, MatchFits, ClaimHasOneSemantics, ContentOf
  <1> QED
    BY <1>2, <1>5, <1>6, <1>7

LEMMA NextKeepsRules == TypeOK /\ Ownership /\ RulesAgree /\ [Next]_vars => RulesAgree'
  <1> SUFFICES ASSUME TypeOK, Ownership, RulesAgree, [Next]_vars PROVE RulesAgree'
    OBVIOUS
  <1>1. VersionsKept
    BY InstallsKeepVersions
  <1>2. CASE UNCHANGED vars
    <2>1. RowsKept
      BY <1>2 DEF vars, RowsKept
    <2> QED
      BY <2>1, RowsKeptKeepRules
  <1> QED
    BY <1>1, <1>2, NextForm, LaterStepsKeepRows, RowsKeptKeepRules, RulesInProcStep,
       RulesAtCreation

------------------------------------------------------------------------------
(* What a batch refers to, and what a deleted channel leaves.               *)

LEMMA NextKeepsBatches == TypeOK /\ BatchesRefer /\ [Next]_vars => BatchesRefer'
  <1> SUFFICES ASSUME TypeOK, BatchesRefer, [Next]_vars PROVE BatchesRefer'
    OBVIOUS
  <1>t. \A b \in Batches : batches[b].claims \subseteq Claims
    BY RowFields
  <1>1. ASSUME UNCHANGED batches,
               \A c \in Claims : claims'[c].st = "pruned" => claims[c].st = "pruned"
        PROVE  BatchesRefer'
    BY <1>1, <1>t DEF BatchesRefer, KeptBatchKeepsClaims
  <1>2. ASSUME NEW p \in Procs, ProcStep(p) PROVE UNCHANGED <<claims, batches>>
    BY <1>2 DEF ProcStep, InstallRead, InstallCommit, Crash, EmitLookup, ScheduleLookup, EmitMatch
  <1>3. ASSUME NEW p \in Procs, EmitCommit(p) \/ ScheduleCommit(p)
        PROVE  /\ UNCHANGED batches
               /\ \A c \in Claims : claims'[c].st = "pruned" => claims[c].st = "pruned"
    <2>1. /\ UNCHANGED batches
          /\ UNCHANGED claims \/ \E e \in EventIds, c \in Claims, v \in 0..SelfPolicy : Taken(c, e, v)
      BY <1>3, CreateForm
    <2> QED
      BY <2>1, StateNames DEF Taken
  <1>4. ASSUME NEW c \in Claims, ClaimStep(c) PROVE BatchesRefer'
    <2>1. /\ claims[c].st \in ActiveClaims \cup {"batched"}
          /\ claims'[c].st \in ActiveClaims \cup {"batched"} \cup FinalizedClaims
          /\ \A d \in Claims \ {c} : claims'[d] = claims[d]
          /\ \A b \in Batches :
                /\ batches'[b].claims \subseteq batches[b].claims \cup {c}
                /\ batches'[b].st = "pruned" =>
                      batches[b].st = "pruned" /\ batches'[b].claims \subseteq batches[b].claims
      BY <1>4, ClaimStepRows
    <2>2. claims'[c].st # "pruned"
      BY <2>1, StateNames
    <2>3. \A b \in Batches : \A d \in batches'[b].claims : claims'[d].st # "pruned"
      BY <2>1, <2>2, <1>t DEF BatchesRefer, KeptBatchKeepsClaims
    <2>4. \A b \in Batches : batches'[b].st = "pruned" => batches'[b].claims = {}
      BY <2>1 DEF BatchesRefer
    <2> QED
      BY <2>3, <2>4 DEF BatchesRefer, KeptBatchKeepsClaims
  <1>5. ASSUME NEW b \in Batches, NEW from \in LiveBatches, NEW to \in LiveBatches \cup FinishedBatches,
               MoveBatch(b, from, to)
        PROVE  BatchesRefer'
    <2>1. /\ batches'[b].st = to /\ batches'[b].claims = batches[b].claims
          /\ \A x \in Batches \ {b} : batches'[x] = batches[x]
          /\ claims' = claims /\ to # "pruned"
      BY <1>5, StateNames, MoveBatchEffect
    <2> QED
      BY <2>1 DEF BatchesRefer, KeptBatchKeepsClaims
  <1>6. CASE DeleteChannel
    <2>1. /\ \A c \in Claims : claims'[c].st = IF Unfinished(c) THEN "dismissed" ELSE claims[c].st
          /\ \A b \in Batches :
                /\ batches'[b].claims = batches[b].claims
                /\ batches'[b].st = "pruned" => batches[b].st = "pruned"
      BY <1>6, DeleteChannelEffect
    <2>2. \A c \in Claims : claims'[c].st = "pruned" => claims[c].st = "pruned"
      BY <2>1
    <2> QED
      BY <2>1, <2>2, <1>t DEF BatchesRefer, KeptBatchKeepsClaims
  <1>7. ASSUME NEW ob \in SUBSET Batches, NEW oc \in SUBSET Claims, PruneHistory(ob, oc)
        PROVE  BatchesRefer'
    <2> DEFINE pb == PrunableBatches(ob)
               pc == PrunableClaims(oc, pb)
    <2>1. /\ \A c \in Claims \ pc : claims'[c] = claims[c]
          /\ \A b \in pb : batches'[b].st = "pruned" /\ batches'[b].claims = {}
          /\ \A b \in Batches \ pb : batches'[b] = batches[b]
      BY <1>7, PruneEffect
    <2>2. \A b \in Batches \ pb : batches[b].st # "pruned" => batches[b].claims \cap pc = {}
      BY DEF PrunableClaims, KeptRefs
    <2> HIDE DEF pb, pc
    <2>3. ASSUME NEW b \in Batches
          PROVE  /\ \A c \in batches'[b].claims : claims'[c].st # "pruned"
                 /\ batches'[b].st = "pruned" => batches'[b].claims = {}
      <3>1. CASE b \in pb
        BY <2>1, <3>1
      <3>2. CASE b \notin pb /\ batches[b].st = "pruned"
        BY <2>1, <3>2 DEF BatchesRefer
      <3>3. CASE b \notin pb /\ batches[b].st # "pruned"
        BY <2>1, <2>2, <3>3, <1>t DEF BatchesRefer, KeptBatchKeepsClaims
      <3> QED
        BY <3>1, <3>2, <3>3
    <2> QED
      BY <2>3 DEF BatchesRefer, KeptBatchKeepsClaims
  <1>8. UNCHANGED vars => UNCHANGED <<claims, batches>>
    BY DEF vars
  <1> QED
    BY <1>1, <1>2, <1>3, <1>4, <1>5, <1>6, <1>7, <1>8, NextForm

LEMMA NextKeepsQuiet == TypeOK /\ DeletedChannelIsQuiet /\ [Next]_vars => DeletedChannelIsQuiet'
  <1> SUFFICES ASSUME TypeOK, DeletedChannelIsQuiet, [Next]_vars, channel' = "deleted"
               PROVE  /\ \A c \in Claims : ~Unfinished(c)'
                      /\ \A b \in Batches : batches'[b].st \in {"none", "pruned"} \cup FinishedBatches
    BY DEF DeletedChannelIsQuiet
  <1>1. ASSUME UNCHANGED <<claims, batches, channel>>
        PROVE  /\ \A c \in Claims : ~Unfinished(c)'
               /\ \A b \in Batches : batches'[b].st \in {"none", "pruned"} \cup FinishedBatches
    BY <1>1 DEF DeletedChannelIsQuiet, Unfinished
  <1>2. ASSUME NEW p \in Procs, ProcStep(p) PROVE UNCHANGED <<claims, batches, channel>>
    BY <1>2 DEF ProcStep, InstallRead, InstallCommit, Crash, EmitLookup, ScheduleLookup, EmitMatch
  <1>3. ASSUME NEW p \in Procs, EmitCommit(p) \/ ScheduleCommit(p)
        PROVE  UNCHANGED <<claims, batches, channel>>
    <2>1. /\ UNCHANGED batches
          /\ \/ UNCHANGED <<claims, channel>>
             \/ "ok" \in GuardStatuses /\ channel' = Registered
      BY <1>3, CreateForm
    <2>2. ~("ok" \in GuardStatuses /\ channel' = Registered)
      BY DEF GuardStatuses, Registered, TypeOK
    <2> QED
      BY <2>1, <2>2
  <1>4. ASSUME NEW c \in Claims, ClaimStep(c) PROVE FALSE
    <2>1. claims[c].st \in ActiveClaims \cup {"batched"} /\ channel' = channel
      BY <1>4, ClaimStepRows
    <2> QED
      BY <2>1 DEF DeletedChannelIsQuiet, Unfinished
  <1>5. ASSUME NEW b \in Batches, NEW from \in LiveBatches, NEW to \in LiveBatches \cup FinishedBatches,
               MoveBatch(b, from, to)
        PROVE  FALSE
    <2>1. batches[b].st \in LiveBatches /\ channel' = channel
      BY <1>5 DEF MoveBatch
    <2> QED
      BY <2>1, StateNames DEF DeletedChannelIsQuiet
  <1>6. ASSUME DeleteChannel
        PROVE  /\ \A c \in Claims : ~Unfinished(c)'
               /\ \A b \in Batches : batches'[b].st \in {"none", "pruned"} \cup FinishedBatches
    <2>1. /\ \A c \in Claims : claims'[c].st = IF Unfinished(c) THEN "dismissed" ELSE claims[c].st
          /\ \A b \in Batches : batches'[b].st = IF batches[b].st \in LiveBatches
                                                 THEN "cancelled" ELSE batches[b].st
          /\ \A b \in Batches : batches[b].st \in BatchStates
      BY <1>6, DeleteChannelEffect, RowFields DEF LiveBatches
    <2> QED
      BY <2>1, StateNames DEF Unfinished
  <1>7. ASSUME NEW ob \in SUBSET Batches, NEW oc \in SUBSET Claims, PruneHistory(ob, oc)
        PROVE  /\ \A c \in Claims : ~Unfinished(c)'
               /\ \A b \in Batches : batches'[b].st \in {"none", "pruned"} \cup FinishedBatches
    <2> DEFINE pb == PrunableBatches(ob)
               pc == PrunableClaims(oc, pb)
    <2>1. /\ \A c \in pc : claims'[c].st = "pruned"
          /\ \A c \in Claims \ pc : claims'[c] = claims[c]
          /\ \A b \in pb : batches'[b].st = "pruned"
          /\ \A b \in Batches \ pb : batches'[b] = batches[b]
          /\ channel' = channel
      BY <1>7, PruneEffect
    <2> HIDE DEF pb, pc
    <2> QED
      BY <2>1, StateNames DEF DeletedChannelIsQuiet, Unfinished
  <1>8. UNCHANGED vars => UNCHANGED <<claims, batches, channel>>
    BY DEF vars
  <1> QED
    BY <1>1, <1>2, <1>3, <1>4, <1>5, <1>6, <1>7, <1>8, NextForm

------------------------------------------------------------------------------
(* The theorems.                                                            *)

LEMMA InitIngest == Init => IngestInv
  <1> SUFFICES ASSUME Init PROVE IngestInv
    OBVIOUS
  <1>1. TypeOK
    BY InitTypes
  <1>2. /\ \A e \in EventIds : events[e].st = "none" /\ events[e].ver = 0
        /\ \A c \in Claims : claims[c].st = "none" /\ claims[c].events = {} /\ claims[c].ver = 0
        /\ \A b \in Batches : batches[b].st = "none" /\ batches[b].claims = {}
        /\ \A p \in Procs : procs[p].pc = "idle"
        /\ answers = {} /\ channel = "absent"
    BY DEF Init, NoEvent, NoRow, NoBatch, Idle
  <1>3. Ownership
    BY <1>2, StateNames DEF Ownership, EventsFollowClaim
  <1>4. KeysAnswer
    BY <1>2 DEF KeysAnswer, WithKey, Present
  <1>5. RulesAgree
    BY <1>2 DEF RulesAgree, ClaimHasOneSemantics, Known0
  <1>6. BatchesRefer /\ DeletedChannelIsQuiet
    BY <1>2 DEF BatchesRefer, KeptBatchKeepsClaims, DeletedChannelIsQuiet
  <1> QED
    BY <1>1, <1>3, <1>4, <1>5, <1>6 DEF IngestInv

LEMMA NextIngest == IngestInv /\ [Next]_vars => IngestInv'
  <1> SUFFICES ASSUME IngestInv, [Next]_vars PROVE IngestInv'
    OBVIOUS
  <1> QED
    BY NextKeepsTypes, NextKeepsOwnership, NextKeepsKeys, NextKeepsRules, NextKeepsBatches,
       NextKeepsQuiet DEF IngestInv

LEMMA IngestInvariant == Spec => []IngestInv
  BY InitIngest, NextIngest, PTL DEF Spec

\* Every table, call and answer keeps its type.
THEOREM TypeCorrect == Spec => []TypeOK
  <1>1. IngestInv => TypeOK
    BY DEF IngestInv
  <1> QED
    BY <1>1, IngestInvariant, PTL

\* One dedupe key, one event: for any number of emitters and committers, however their
\* lookups, transactions, crashes and repetitions interleave, and whatever retention has
\* taken since (core.ts 832-985).
THEOREM KeyHasOneEvent == Spec => []SameKeySameEvent
  <1>1. IngestInv => SameKeySameEvent
    BY DEF IngestInv, KeysAnswer, SameKeySameEvent
  <1> QED
    BY <1>1, IngestInvariant, PTL

\* scheduleClaim never reports storage_corrupt: the event of a commitment is owned or
\* finished (core.ts 990-1000).
THEOREM CommitmentsAreIntact == Spec => []ScheduleNeverCorrupt
  <1>1. IngestInv => ScheduleNeverCorrupt
    BY RequestsAssumption DEF IngestInv, KeysAnswer, ScheduleNeverCorrupt, EventIds
  <1> QED
    BY <1>1, IngestInvariant, PTL

\* An event that was let through is in exactly one claim until it is finished.
THEOREM EventHasOneOwner == Spec => []EventIsOwned
  <1>1. IngestInv => EventIsOwned
    <2> SUFFICES ASSUME TypeOK, Ownership, NEW e \in EventIds
                 PROVE  /\ events[e].st \in {"matched", "batched"} => Cardinality(OwnersOf(e)) = 1
                        /\ events[e].st \in FinishedEvents => Cardinality(OwnersOf(e)) <= 1
                        /\ events[e].st \in {"none", "suppressed"} => OwnersOf(e) = {}
      BY DEF IngestInv, EventIsOwned
    <2>1. ASSUME NEW c \in OwnersOf(e) PROVE OwnersOf(e) = {c} /\ Cardinality(OwnersOf(e)) = 1
      <3>1. c \in Claims /\ e \in claims[c].events
        BY DEF OwnersOf
      <3>2. \A d \in OwnersOf(e) : d = c
        BY <3>1 DEF OwnersOf, Ownership
      <3>3. OwnersOf(e) = {c}
        BY <3>2
      <3> QED
        BY <3>3, FS_Singleton
    <2>2. events[e].st \in Pending => OwnersOf(e) # {}
      <3>1. SUFFICES ASSUME events[e].st \in Pending PROVE OwnersOf(e) # {}
        OBVIOUS
      <3>2. PICK c \in Claims : e \in claims[c].events
        BY <3>1 DEF Ownership
      <3>3. claims[c].st # "pruned"
        BY <3>2 DEF Ownership
      <3> QED
        BY <3>2, <3>3 DEF OwnersOf
    <2>3. events[e].st \in {"none", "suppressed"} => OwnersOf(e) = {}
      BY StateNames DEF OwnersOf, Ownership
    <2>4. Cardinality(OwnersOf(e)) \in {0, 1}
      BY <2>1, FS_EmptySet
    <2> QED
      BY <2>1, <2>2, <2>3, <2>4 DEF Pending
  <1> QED
    BY <1>1, IngestInvariant, PTL

\* A claim and its events finish together, those included that another process merged in
\* between.
THEOREM EventsFinishWithClaim == Spec => []EventsFollowClaim
  <1>1. IngestInv => EventsFollowClaim
    BY DEF IngestInv, Ownership
  <1> QED
    BY <1>1, IngestInvariant, PTL

\* Retention leaves no batch that refers to a claim it has taken, dead letters included
\* (retention.ts 58-66).
THEOREM BatchesKeepClaims == Spec => []KeptBatchKeepsClaims
  <1>1. IngestInv => KeptBatchKeepsClaims
    BY DEF IngestInv, BatchesRefer
  <1> QED
    BY <1>1, IngestInvariant, PTL

\* A deleted channel has no claim and no batch that still waits, and gets none.
THEOREM DeletionIsFinal == Spec => []DeletedChannelIsQuiet
  <1>1. IngestInv => DeletedChannelIsQuiet
    BY DEF IngestInv
  <1> QED
    BY <1>1, IngestInvariant, PTL

\* The events of a claim were matched under the rules the claim was made under, although
\* versions are installed and disabled between a match and its transaction.
THEOREM RulesDoNotMix == Spec => []ClaimHasOneSemantics
  <1>1. IngestInv => ClaimHasOneSemantics
    BY DEF IngestInv, RulesAgree
  <1> QED
    BY <1>1, IngestInvariant, PTL

\* Installers that read before they write never replace a version (core.ts 629-677).
THEOREM VersionsStay == Spec => InstalledIsImmutable
  <1>1. IngestInv /\ [Next]_vars => [\A v \in Installed : policies'[v] = policies[v]]_policies
    BY InstallsKeepVersions DEF IngestInv
  <1> QED
    BY <1>1, IngestInvariant, PTL DEF Spec, InstalledIsImmutable
=============================================================================
