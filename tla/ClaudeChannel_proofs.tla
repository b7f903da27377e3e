------------------------ MODULE ClaudeChannel_proofs ------------------------
(***************************************************************************)
(* Proofs about ClaudeChannel, for every set of launches, sessions and     *)
(* attempts, every size of the cache and every bound.                      *)
(***************************************************************************)
EXTENDS ClaudeChannel, FiniteSetTheorems, SequenceTheorems, WellFoundedInduction, TLAPS

------------------------------------------------------------------------------
(* The strengthening for the leases.  A process opens once, so that one that *)
(* is opening has left nothing behind yet; and a token is known to the one  *)
(* launch that it was granted to.                                          *)

OpensOnce(l) ==
    /\ channel[l].session # None => channel[l].ever
    /\ ~channel[l].ever =>
          /\ pipe[l] = <<>> /\ channel[l].cache = <<>> /\ channel[l].outstanding = {}
          /\ ~Writing(l)
          /\ file[l] = None /\ hook[l].saved = None
    /\ Opening(l) => ~channel[l].ever

\* Launch l has a lease with this token, was granted one, or has saved one.
Knows(l, token) ==
    \/ channel[l].session # None /\ channel[l].session.token = token
    \/ Opening(l) /\ channel[l].busy.granted > 0 /\ channel[l].busy.granted = token
    \/ file[l] # None /\ file[l].token = token
    \/ hook[l].saved # None /\ hook[l].saved.token = token

TokensAreOwn ==
    /\ \A l \in Launches, t \in Generations : Knows(l, t) => t <= binding.gen
    /\ \A l, m \in Launches, t \in Generations : Knows(l, t) /\ Knows(m, t) => l = m

\* The lease that was just granted has not run out before its answer is handled.
GrantIsLive(l) ==
    /\ Opening(l) /\ channel[l].busy.granted > 0
    /\ channel[l].busy.granted = endpoint[channel[l].busy.session].token
    => endpoint[channel[l].busy.session].live

LeaseInv ==
    /\ TypeOK
    /\ \A l \in Launches : OpensOnce(l) /\ GrantIsLive(l)
    /\ TokensAreOwn /\ LeaseHeldIsLive

------------------------------------------------------------------------------
(* The strengthening for the deliveries.                                    *)

\* What reaches the pipe, when the write under way is counted too.
Handed(l) == IF Writing(l) THEN Append(pipe[l], channel[l].busy.nonce) ELSE pipe[l]

\* The process can still take deliveries, or is writing the last one.
Working(l) == Writing(l) \/ (channel[l].up /\ channel[l].mcp # "broken")

\* Between two equal members lie as many others as the cache holds.
Spaced(s) ==
    \A i, j \in DOMAIN s :
       i < j /\ s[i] = s[j] => Cardinality({s[k] : k \in (i+1)..(j-1)}) >= MaxCache

Distinct(s) == \A i, j \in DOMAIN s : s[i] = s[j] => i = j

\* The cache is the end of what was handed to the pipe.
IsTail(c, s) ==
    /\ Distinct(c) /\ Len(c) <= Len(s) /\ Len(c) <= MaxCache
    /\ Len(s) > Len(c) => Len(c) = MaxCache
    /\ \A i \in 1..Len(c) : c[i] = s[Len(s) - Len(c) + i]

CacheOf(l) ==
    /\ Spaced(Handed(l))
    /\ Working(l) => IsTail(channel[l].cache, Handed(l))
    /\ ToSet(channel[l].cache) \subseteq ToSet(Handed(l))

\* A nonce is outstanding for what was written, or is being written, here.
OutstandingOf(l) ==
    \A n \in channel[l].outstanding :
        /\ attempt[n] # None /\ attempt[n].launch = l
        /\ n \in ToSet(Handed(l))

DeliveryInv ==
    /\ \A l \in Launches : CacheOf(l) /\ OutstandingOf(l)
    /\ \A n \in attested : attempt[n] # None
    /\ EvidenceIsEarned

------------------------------------------------------------------------------
(* Types.                                                                   *)

LEMMA HookSteps ==
    ASSUME TypeOK, NEW l \in Launches, NEW pc \in {"refused", "late", "done"}
    PROVE  /\ [hook EXCEPT ![l].pc = pc] \in [Launches -> Hook]
           /\ [hook EXCEPT ![l].pc = pc, ![l].saved = None] \in [Launches -> Hook]
  <1>1. hook \in [Launches -> Hook]
    BY DEF TypeOK
  <1>2. [hook[l] EXCEPT !.pc = pc] \in Hook /\ [hook[l] EXCEPT !.pc = pc, !.saved = None] \in Hook
    BY <1>1 DEF Hook
  <1> QED
    BY <1>1, <1>2

LEMMA Constants ==
    /\ MaxGen \in Nat /\ MaxCache \in Nat /\ MaxCache > 0
    /\ Interactive \subseteq Launches /\ Copies \in [Attempts -> Nat]
    /\ None \notin [launch: Launches, gen: Nat, copies: Nat]
    /\ None \notin [op: {"write"}, nonce: Attempts]
BY BoundsAssumption

LEMMA SessionsOfLaunch ==
    ASSUME NEW l \in Launches, NEW s \in SessionsOf[l]
    PROVE  s \in Sessions
BY DEF Sessions

LEMMA ProcessRows ==
    /\ Fresh \in Process
    /\ \A c \in Process : Ended(c) \in Process /\ Fenced(c) \in Process
    /\ \A c \in Process : c.session # None => Lease(c) \in Saved
  <1>1. Fresh \in Process /\ \A c \in Process : Ended(c) \in Process
    BY EmptySeq DEF Fresh, Ended, Process
  <1>2. \A c \in Process : Fenced(c) \in Process
    BY DEF Fenced, Process
  <1>3. \A c \in Process : c.session # None => Lease(c) \in Saved
    BY DEF Lease, Process, Served, Saved
  <1> QED
    BY <1>1, <1>2, <1>3

LEMMA InitTypes == Init => TypeOK
  <1> SUFFICES ASSUME Init PROVE TypeOK
    OBVIOUS
  <1>1. 0 \in Generations
    BY Constants DEF Generations
  <1>2. <<>> \in Seq(Attempts)
    OBVIOUS
  <1> QED
    BY <1>1, <1>2, ProcessRows DEF Init, TypeOK, Hook

\* A lease of the right type that is closed or renewed leaves a row of the right type.
LEMMA LiveTypes ==
    ASSUME TypeOK, NEW lease \in Saved, NEW on \in BOOLEAN
    PROVE  Live(lease, on) \in [Sessions -> [token: Generations, live: BOOLEAN]]
  <1>1. lease.session \in Sessions
    BY DEF Saved
  <1> QED
    BY <1>1 DEF TypeOK, Live

LEMMA CloseTypes ==
    ASSUME TypeOK, NEW l \in Launches, NEW lease \in Saved, NEW outcome, Revoked(lease, outcome)
    PROVE  /\ endpoint' \in [Sessions -> [token: Generations, live: BOOLEAN]]
           /\ Removed(l, lease) \in [Launches -> Saved \cup {None}]
  <1>1. endpoint' \in [Sessions -> [token: Generations, live: BOOLEAN]]
    BY LiveTypes DEF Revoked, TypeOK
  <1>2. Removed(l, lease) \in [Launches -> Saved \cup {None}]
    BY DEF Removed, TypeOK
  <1> QED
    BY <1>1, <1>2

LEMMA DaemonTypes ==
    ASSUME TypeOK,
           \/ \E s \in Sessions : DaemonLapse(s)
           \/ \E n \in Attempts : Dispatch(n)
           \/ \E l \in Launches : RegisterHostSession(l)
    PROVE  TypeOK'
  <1>1. ASSUME NEW s \in Sessions, DaemonLapse(s) PROVE TypeOK'
    BY <1>1 DEF DaemonLapse, TypeOK, history
  <1>2. ASSUME NEW n \in Attempts, Dispatch(n) PROVE TypeOK'
    <2> DEFINE row == [launch |-> binding.launch, gen |-> binding.gen,
                       copies |-> IF channel[binding.launch].up THEN Copies[n] ELSE 0]
    <2>1. binding.launch \in Launches /\ binding.gen \in Generations
      BY <1>2, Constants DEF Dispatch, TypeOK
    <2>2. row \in Request
      BY <2>1, Constants DEF Request
    <2>3. attempt' = [attempt EXCEPT ![n] = row]
      BY <1>2, Zenon DEF Dispatch
    <2> HIDE DEF row
    <2>4. attempt' \in [Attempts -> Request \cup {None}]
      BY <2>2, <2>3 DEF TypeOK
    <2> QED
      BY <1>2, <2>4 DEF Dispatch, TypeOK, history, daemon
  <1>3. ASSUME NEW l \in Launches, RegisterHostSession(l) PROVE TypeOK'
    <2> DEFINE s == channel[l].busy.session
    <2>1. channel[l] \in Process /\ channel[l].busy \in [op: {"open"}, session: Sessions, granted: Generations]
      BY <1>3 DEF RegisterHostSession, Opening, TypeOK, Process, Operation
    <2>2. s \in Sessions /\ binding.gen + 1 \in Generations
      BY <1>3, <2>1, Constants DEF RegisterHostSession, TypeOK, Generations
    <2>3. endpoint' \in [Sessions -> [token: Generations, live: BOOLEAN]]
      BY <1>3, <2>2 DEF RegisterHostSession, TypeOK
    <2>4. binding' \in [gen: Generations, session: Sessions \cup {None}, launch: Launches \cup {None}]
      BY <1>3, <2>2 DEF RegisterHostSession
    <2>5. [channel[l] EXCEPT !.busy.granted = binding.gen + 1] \in Process
      BY <2>1, <2>2 DEF Process, Operation
    <2>6. channel' = [channel EXCEPT ![l] = [channel[l] EXCEPT !.busy.granted = binding.gen + 1]]
      BY <1>3 DEF RegisterHostSession, TypeOK
    <2>7. channel' \in [Launches -> Process]
      BY <2>5, <2>6 DEF TypeOK
    <2> QED
      BY <1>3, <2>3, <2>4, <2>7 DEF RegisterHostSession, TypeOK, history
  <1> QED
    BY <1>1, <1>2, <1>3

\* A step that replaces the row of one process.
LEMMA ProcessSteps ==
    ASSUME TypeOK, NEW l \in Launches, NEW c \in Process, channel' = [channel EXCEPT ![l] = c]
    PROVE  channel' \in [Launches -> Process]
BY DEF TypeOK

LEMMA SessionTypes ==
    ASSUME TypeOK, NEW l \in Launches,
           SessionLapse(l) \/ SessionStart(l) \/ Opened(l) \/ OpenFailed(l)
    PROVE  TypeOK'
  <1> DEFINE c == channel[l]
  <1>0. c \in Process
    BY DEF TypeOK
  <1> HIDE DEF c
  <1>1. CASE SessionLapse(l)
    <2>1. channel' = [channel EXCEPT ![l] = [c EXCEPT !.session.fresh = FALSE]]
      BY <1>1 DEF SessionLapse, TypeOK, c
    <2>2. c.session \in Served
      BY <1>0, <1>1 DEF SessionLapse, Process, c
    <2>3. [c EXCEPT !.session.fresh = FALSE] \in Process
      BY <1>0, <2>2 DEF Process, Served
    <2> QED
      BY <1>1, <2>1, <2>3, ProcessSteps DEF SessionLapse, TypeOK, daemon, history
  <1>2. CASE SessionStart(l)
    <2> PICK s \in StartPosted(l) :
           channel' = [channel EXCEPT ![l].late = FALSE,
                         ![l].busy = [op |-> "open", session |-> s, granted |-> 0]]
      BY <1>2 DEF SessionStart
    <2> DEFINE o == [op |-> "open", session |-> s, granted |-> 0]
    <2>1. o \in Operation
      BY Constants, SessionsOfLaunch DEF StartPosted, Operation, Generations
    <2>2. channel' = [channel EXCEPT ![l] = [c EXCEPT !.late = FALSE, !.busy = o]]
      BY DEF TypeOK, c
    <2> HIDE DEF o
    <2>3. [c EXCEPT !.late = FALSE, !.busy = o] \in Process
      BY <1>0, <2>1 DEF Process
    <2> QED
      BY <1>2, <2>2, <2>3, ProcessSteps DEF SessionStart, TypeOK, daemon, history
  <1>3. CASE Opened(l)
    <2> DEFINE s == c.busy.session
               token == c.busy.granted
               serving == [c EXCEPT !.busy = None, !.ever = TRUE, !.cache = <<>>, !.outstanding = {},
                                    !.session = [id |-> s, token |-> token, fresh |-> TRUE]]
               renewing == [serving EXCEPT !.renewing = TRUE]
    <2>1. s \in Sessions /\ token \in Generations
      BY <1>0, <1>3 DEF Opened, Opening, Process, Operation, c
    <2>2. [id |-> s, token |-> token, fresh |-> TRUE] \in Served
      BY <2>1 DEF Served
    <2>3. serving \in Process
      BY <1>0, <2>2, EmptySeq DEF Process
    <2>4. renewing \in Process
      BY <2>3 DEF Process
    <2>5. \/ /\ file' = [file EXCEPT ![l] = [session |-> s, token |-> token]]
             /\ channel' = [channel EXCEPT ![l] = renewing]
          \/ /\ channel' = [channel EXCEPT ![l] = serving]
             /\ UNCHANGED file
      BY <1>3 DEF Opened, c
    <2>6. [session |-> s, token |-> token] \in Saved
      BY <2>1 DEF Saved
    <2>7. channel' \in [Launches -> Process]
      BY <2>3, <2>4, <2>5, ProcessSteps
    <2>8. file' \in [Launches -> Saved \cup {None}]
      BY <2>5, <2>6 DEF TypeOK
    <2> QED
      BY <1>3, <2>7, <2>8 DEF Opened, TypeOK, daemon, history
  <1>4. CASE OpenFailed(l)
    <2>1. channel' = [channel EXCEPT ![l] = [c EXCEPT !.busy = None]]
      BY <1>4 DEF OpenFailed, TypeOK, c
    <2>2. [c EXCEPT !.busy = None] \in Process
      BY <1>0 DEF Process
    <2> QED
      BY <1>4, <2>1, <2>2, ProcessSteps DEF OpenFailed, TypeOK, daemon, history
  <1> QED
    BY <1>1, <1>2, <1>3, <1>4

LEMMA LeaseTypes ==
    ASSUME TypeOK, NEW l \in Launches,
           \/ Renew(l) \/ SessionEnd(l) \/ EndNotCurrent(l) \/ StopLocked(l)
           \/ EndFallback(l) \/ \E s \in SessionsOf[l] : EndHook(l, s)
    PROVE  TypeOK'
  <1> DEFINE c == channel[l]
             lease == Lease(channel[l])
  <1>0. c \in Process /\ Fenced(c) \in Process
    BY ProcessRows DEF TypeOK
  <1>1. channel[l].session # None => lease \in Saved
    BY <1>0, ProcessRows
  <1> HIDE DEF c
  <1>2. CASE Renew(l)
    <2> HIDE DEF lease
    <2>0. lease \in Saved
      BY <1>1, <1>2 DEF Renew
    <2> PICK outcome \in Outcomes :
          /\ endpoint' = IF Renewable(lease) /\ outcome # "unexecuted" THEN Live(lease, TRUE) ELSE endpoint
          /\ \/ /\ RenewalConfirmed(lease, outcome)
                /\ channel' = [channel EXCEPT ![l].session.fresh = TRUE]
                /\ file' = [file EXCEPT ![l] = lease]
             \/ /\ channel' = [channel EXCEPT ![l] = Fenced(@)]
                /\ UNCHANGED file
      BY <1>2 DEF Renew, lease
    <2>1. endpoint' \in [Sessions -> [token: Generations, live: BOOLEAN]]
      BY <2>0, LiveTypes DEF TypeOK
    <2>2. [c EXCEPT !.session.fresh = TRUE] \in Process
      <3>1. c.session \in Served
        BY <1>0, <1>2 DEF Renew, Process, c
      <3> QED
        BY <1>0, <3>1 DEF Process, Served
    <2>3. \/ channel' = [channel EXCEPT ![l] = [c EXCEPT !.session.fresh = TRUE]]
          \/ channel' = [channel EXCEPT ![l] = Fenced(c)]
      BY DEF TypeOK, c
    <2>4. channel' \in [Launches -> Process]
      BY <1>0, <2>2, <2>3, ProcessSteps
    <2>5. file' \in [Launches -> Saved \cup {None}]
      BY <2>0 DEF TypeOK
    <2> QED
      BY <1>2, <2>1, <2>4, <2>5 DEF Renew, TypeOK, history
  <1>3. ASSUME NEW d \in Process, NEW outcome, CloseCurrent(l, d, outcome), channel[l].session # None
        PROVE  /\ endpoint' \in [Sessions -> [token: Generations, live: BOOLEAN]]
               /\ channel' \in [Launches -> Process]
               /\ file' \in [Launches -> Saved \cup {None}]
    <2>1. lease \in Saved
      BY <1>1, <1>3
    <2>2. /\ Revoked(lease, outcome)
          /\ channel' = [channel EXCEPT ![l] = Fenced(d)]
          /\ file' = file \/ file' = Removed(l, lease)
      BY <1>3 DEF CloseCurrent
    <2>3. Fenced(d) \in Process
      BY ProcessRows
    <2> HIDE DEF lease
    <2>4. channel' \in [Launches -> Process]
      BY <2>2, <2>3, ProcessSteps
    <2> QED
      BY <2>1, <2>2, <2>4, CloseTypes DEF TypeOK
  <1>4. CASE SessionEnd(l)
    <2>1. \E outcome \in Outcomes : CloseCurrent(l, channel[l], outcome)
      BY <1>4 DEF SessionEnd
    <2>2. channel[l].session # None
      BY <1>4 DEF SessionEnd, IsCurrent
    <2>3. hook' \in [Launches -> Hook]
      <3>1. PICK pc \in {"refused", "done"} : hook' = [hook EXCEPT ![l].pc = pc]
        BY <1>4 DEF SessionEnd
      <3> QED
        BY <3>1, HookSteps, Zenon
    <2> QED
      BY <1>0, <1>3, <1>4, <2>1, <2>2, <2>3 DEF SessionEnd, TypeOK, history, c
  <1>5. CASE EndNotCurrent(l)
    <2>1. hook' = [hook EXCEPT ![l].pc = "refused"]
      BY <1>5 DEF EndNotCurrent
    <2>2. hook' \in [Launches -> Hook]
      BY <2>1, HookSteps, Zenon
    <2> QED
      BY <1>5, <2>2 DEF EndNotCurrent, TypeOK, daemon, history
  <1>6. CASE StopLocked(l)
    <2>1. /\ [channel[l] EXCEPT !.stopping = "closed"] \in Process
          /\ [channel[l] EXCEPT !.stopping = "closed", !.renewing = FALSE] \in Process
      BY <1>0 DEF Process, c
    <2>2. CASE channel[l].session # None
      <3>1. \E outcome \in Outcomes :
               CloseCurrent(l, [channel[l] EXCEPT !.stopping = "closed"], outcome)
        BY <1>6, <2>2 DEF StopLocked
      <3> QED
        BY <1>3, <1>6, <2>1, <2>2, <3>1 DEF StopLocked, TypeOK, history
    <2>3. CASE channel[l].session = None
      <3>1. channel' = [channel EXCEPT ![l] = [channel[l] EXCEPT !.stopping = "closed", !.renewing = FALSE]]
        BY <1>6, <2>3 DEF StopLocked, TypeOK
      <3>2. channel' \in [Launches -> Process]
        BY <2>1, <3>1, ProcessSteps
      <3> QED
        BY <1>6, <2>3, <3>2 DEF StopLocked, TypeOK, history
    <2> QED
      BY <2>2, <2>3
  <1>7. CASE EndFallback(l)
    <2> DEFINE saved == hook[l].saved
    <2>1. hook' \in [Launches -> Hook]
      <3>1. PICK pc \in {"late", "done"} : hook' = [hook EXCEPT ![l].pc = pc, ![l].saved = None]
        BY <1>7 DEF EndFallback
      <3> QED
        BY <3>1, HookSteps, Zenon
    <2>2. CASE saved # None /\ saved.session = hook[l].session
      <3>1. saved \in Saved
        BY <2>2 DEF TypeOK, Hook
      <3>2. \E outcome \in Outcomes :
               /\ Revoked(saved, outcome)
               /\ file' = file \/ file' = Removed(l, saved)
        BY <1>7, <2>2 DEF EndFallback
      <3> HIDE DEF saved
      <3>3. /\ endpoint' \in [Sessions -> [token: Generations, live: BOOLEAN]]
            /\ file' \in [Launches -> Saved \cup {None}]
        BY <3>1, <3>2, CloseTypes DEF TypeOK
      <3> QED
        BY <1>7, <2>1, <3>3 DEF EndFallback, TypeOK, history
    <2>3. CASE ~(saved # None /\ saved.session = hook[l].session)
      BY <1>7, <2>1, <2>3 DEF EndFallback, TypeOK, history
    <2> QED
      BY <2>2, <2>3
  <1>8. ASSUME NEW s \in SessionsOf[l], EndHook(l, s) PROVE TypeOK'
    <2>1. [pc |-> PostHookObservation(l), session |-> s, saved |-> file[l]]
             \in Hook
      BY SessionsOfLaunch DEF PostHookObservation, TypeOK, Hook
    <2> QED
      BY <1>8, <2>1 DEF EndHook, TypeOK, daemon, history
  <1> QED
    BY <1>2, <1>4, <1>5, <1>6, <1>7, <1>8

\* Forgetting a nonce keeps the others and, when no member occurs twice, forgets it.
LEMMA SmallestIndex ==
    ASSUME NEW I \in SUBSET Nat, I # {}
    PROVE  Min(I) \in I
  <1> DEFINE R == {x \in Nat \X Nat : x[1] < x[2]}
  <1>1. PICK x \in I : \A y \in I : ~(<<y, x>> \in R)
    <2>1. IsWellFoundedOn(R, Nat)
      BY NatLessThanWellFounded DEF OpToRel
    <2> HIDE DEF R
    <2> QED
      BY <2>1, WFMin
  <1>2. ASSUME NEW y \in I PROVE x <= y
    <2>1. x \in Nat /\ y \in Nat /\ <<y, x>> \notin R
      BY <1>1
    <2>2. ~(y < x)
      BY <2>1
    <2> QED
      BY <2>1, <2>2
  <1>3. \E z \in I : \A y \in I : z =< y
    BY <1>2
  <1> QED
    BY <1>3 DEF Min

LEMMA Removal ==
    ASSUME NEW S, NEW q \in Seq(S), NEW n
    PROVE  /\ RemoveFirst(q, n) \in Seq(S)
           /\ Distinct(q) => ToSet(RemoveFirst(q, n)) \subseteq ToSet(q) \ {n}
  <1>1. CASE ~\E i \in 1..Len(q) : q[i] = n
    <2>1. RemoveFirst(q, n) = q
      BY <1>1 DEF RemoveFirst
    <2> QED
      BY <1>1, <2>1 DEF ToSet
  <1>2. CASE \E i \in 1..Len(q) : q[i] = n
    <2> DEFINE I == {i \in 1..Len(q) : q[i] = n}
               k == Min(I)
               left == SubSeq(q, 1, k - 1)
               right == SubSeq(q, k + 1, Len(q))
    <2>1. k \in 1..Len(q) /\ q[k] = n
      <3>1. I \in SUBSET Nat /\ I # {}
        BY <1>2
      <3>2. k \in I
        BY <3>1, SmallestIndex
      <3> QED
        BY <3>2
    <2>2. RemoveFirst(q, n) = left \o right
      BY <1>2 DEF RemoveFirst, RemoveAt, SelectInSeq
    <2> HIDE DEF I, k
    <2>3. \A i \in 1..Len(q) : q[i] \in S
      OBVIOUS
    <2>4. /\ left \in Seq(S) /\ Len(left) = k - 1
          /\ \A i \in 1..(k - 1) : left[i] = q[i]
      <3>1. k - 1 \in Int /\ \A i \in 1..(k - 1) : q[i] \in S
        BY <2>1, <2>3
      <3> QED
        BY <2>1, <3>1, SubSeqProperties
    <2>5. /\ right \in Seq(S) /\ Len(right) = Len(q) - k
          /\ \A i \in 1..(Len(q) - k) : right[i] = q[k + i]
      <3>1. k + 1 \in Int /\ Len(q) \in Int /\ \A i \in (k + 1)..Len(q) : q[i] \in S
        BY <2>1, <2>3
      <3>2. /\ right \in Seq(S)
            /\ Len(right) = IF k + 1 <= Len(q) THEN Len(q) - (k + 1) + 1 ELSE 0
            /\ \A i \in 1..(Len(q) - (k + 1) + 1) : right[i] = q[k + 1 + i - 1]
        BY <3>1, SubSeqProperties
      <3> QED
        BY <2>1, <3>2
    <2> HIDE DEF left, right
    <2>6. left \o right \in Seq(S)
      BY <2>4, <2>5
    <2>7. ASSUME Distinct(q), NEW x \in ToSet(left \o right) PROVE x \in ToSet(q) /\ x # n
      <3>1. PICK i \in 1..(Len(left) + Len(right)) : x = (left \o right)[i]
        BY <2>4, <2>5, <2>7 DEF ToSet
      <3>2. CASE i <= Len(left)
        <4>1. x = q[i] /\ i \in 1..Len(q) /\ i # k
          BY <2>1, <2>4, <2>5, <3>1, <3>2
        <4> QED
          BY <2>1, <2>7, <4>1 DEF Distinct, ToSet
      <3>3. CASE i > Len(left)
        <4>1. x = right[i - Len(left)] /\ i - Len(left) \in 1..(Len(q) - k)
          BY <2>1, <2>4, <2>5, <3>1, <3>3
        <4>2. x = q[k + (i - Len(left))]
          BY <2>5, <4>1
        <4>3. k + (i - Len(left)) \in 1..Len(q) /\ k + (i - Len(left)) # k
          BY <2>1, <2>4, <4>1
        <4> QED
          BY <2>1, <2>7, <4>2, <4>3 DEF Distinct, ToSet
      <3> QED
        BY <2>4, <2>5, <3>1, <3>2, <3>3
    <2> QED
      BY <2>2, <2>6, <2>7
  <1> QED
    BY <1>1, <1>2

\* What is kept is the end of the sequence.
LEMMA KeptIsEnd ==
    ASSUME NEW q \in Seq(Attempts)
    PROVE  /\ Kept(q) \in Seq(Attempts)
           /\ Len(Kept(q)) = IF Len(q) > MaxCache THEN MaxCache ELSE Len(q)
           /\ \A i \in 1..Len(Kept(q)) : Kept(q)[i] = q[Len(q) - Len(Kept(q)) + i]
  <1> DEFINE k == IF Len(q) > MaxCache THEN Len(q) - MaxCache ELSE 0
  <1>1. k \in Nat /\ k <= Len(q) /\ Len(q) - k = IF Len(q) > MaxCache THEN MaxCache ELSE Len(q)
    BY Constants
  <1>2. Kept(q) = SubSeq(q, 1 + k, Len(q))
    BY DEF Kept
  <1> HIDE DEF k
  <1>3. 1 + k \in Int /\ Len(q) \in Int /\ \A i \in (1 + k)..Len(q) : q[i] \in Attempts
    BY <1>1
  <1>4. /\ Kept(q) \in Seq(Attempts)
        /\ Len(Kept(q)) = IF 1 + k <= Len(q) THEN Len(q) - (1 + k) + 1 ELSE 0
        /\ \A i \in 1..(Len(q) - (1 + k) + 1) : Kept(q)[i] = q[(1 + k) + i - 1]
    BY <1>2, <1>3, SubSeqProperties
  <1>5. Len(Kept(q)) = Len(q) - k /\ \A i \in 1..(Len(q) - k) : Kept(q)[i] = q[k + i]
    BY <1>1, <1>4
  <1>6. Len(q) - (Len(q) - k) = k
    BY <1>1
  <1> QED
    BY <1>1, <1>4, <1>5, <1>6

\* A request that is taken, or lost, is still a request.
LEMMA TakenTypes ==
    ASSUME TypeOK
    PROVE  /\ \A n \in Attempts : attempt[n] # None =>
                 /\ attempt[n] \in Request
                 /\ [attempt[n] EXCEPT !.copies = 0] \in Request
                 /\ attempt[n].copies > 0 => [attempt[n] EXCEPT !.copies = @ - 1] \in Request
  <1> SUFFICES ASSUME NEW n \in Attempts, attempt[n] # None
               PROVE  /\ attempt[n] \in Request
                      /\ [attempt[n] EXCEPT !.copies = 0] \in Request
                      /\ attempt[n].copies > 0 => [attempt[n] EXCEPT !.copies = @ - 1] \in Request
    OBVIOUS
  <1>1. attempt[n] \in Request
    BY DEF TypeOK
  <1> QED
    BY <1>1 DEF Request

LEMMA TookTypes ==
    ASSUME TypeOK, NEW l, NEW n \in Attempts, Arrived(l, n)
    PROVE  Took(n) \in [Attempts -> Request \cup {None}]
  <1>1. attempt[n] # None /\ attempt[n].copies > 0
    BY DEF Arrived
  <1>2. Took(n) = [attempt EXCEPT ![n] = [attempt[n] EXCEPT !.copies = @ - 1]]
    BY DEF Took, TypeOK
  <1> QED
    BY <1>1, <1>2, TakenTypes DEF TypeOK

LEMMA WakeTypes ==
    ASSUME TypeOK, NEW l \in Launches, NEW n \in Attempts,
           WakeRefused(l, n) \/ WakeKnown(l, n) \/ WakeReserved(l, n)
    PROVE  TypeOK'
  <1> DEFINE c == channel[l]
  <1>0. c \in Process /\ Fenced(c) \in Process
    BY ProcessRows DEF TypeOK
  <1>1. attempt' \in [Attempts -> Request \cup {None}]
    BY TookTypes DEF WakeRefused, WakeKnown, WakeReserved
  <1> HIDE DEF c
  <1>2. CASE WakeRefused(l, n)
    <2>1. channel' = channel \/ channel' = [channel EXCEPT ![l] = Fenced(c)]
      BY <1>2 DEF WakeRefused, c
    <2>2. channel' \in [Launches -> Process]
      BY <1>0, <2>1, ProcessSteps DEF TypeOK
    <2> QED
      BY <1>1, <1>2, <2>2 DEF WakeRefused, TypeOK, daemon, history
  <1>3. CASE WakeKnown(l, n)
    BY <1>1, <1>3 DEF WakeKnown, TypeOK, daemon, history
  <1>4. CASE WakeReserved(l, n)
    <2> DEFINE kept == Kept(Append(c.cache, n))
               row == [c EXCEPT !.busy = [op |-> "write", nonce |-> n], !.cache = kept,
                                !.outstanding = (@ \cup {n}) \cap ToSet(kept)]
    <2>1. channel' = [channel EXCEPT ![l] = row]
      BY <1>4 DEF WakeReserved, TypeOK, c
    <2>2. kept \in Seq(Attempts)
      <3>1. c.cache \in Seq(Attempts)
        BY <1>0 DEF Process
      <3>2. Append(c.cache, n) \in Seq(Attempts)
        BY <3>1
      <3> QED
        BY <3>2, KeptIsEnd
    <2> HIDE DEF kept
    <2>3. row \in Process
      BY <1>0, <2>2 DEF Process, Operation
    <2> HIDE DEF row
    <2>4. channel' \in [Launches -> Process]
      BY <2>1, <2>3, ProcessSteps
    <2> QED
      BY <1>1, <1>4, <2>4 DEF WakeReserved, TypeOK, daemon, history
  <1> QED
    BY <1>2, <1>3, <1>4

LEMMA WriteTypes ==
    ASSUME TypeOK, NEW l \in Launches,
           WriteDone(l) \/ WriteFailed(l) \/ WakeEcho(l)
    PROVE  TypeOK'
  <1> DEFINE c == channel[l]
             n == channel[l].busy.nonce
  <1>0. c \in Process
    BY DEF TypeOK
  <1>1. Writing(l) => n \in Attempts
    BY <1>0 DEF Writing, Process, Operation
  <1>2. Writing(l) => Notified(l, n) \in [Launches -> Seq(Attempts)]
    <2>1. n \in Attempts => Append(pipe[l], n) \in Seq(Attempts)
      BY DEF TypeOK
    <2> QED
      BY <1>1, <2>1 DEF Notified, TypeOK
  <1> HIDE DEF c, n
  <1>3. CASE WriteDone(l)
    <2>1. channel' = [channel EXCEPT ![l] = [c EXCEPT !.busy = None]] /\ pipe' = Notified(l, n) /\ Writing(l)
      BY <1>3 DEF WriteDone, TypeOK, c, n
    <2>2. [c EXCEPT !.busy = None] \in Process
      BY <1>0 DEF Process
    <2>3. channel' \in [Launches -> Process]
      BY <2>1, <2>2, ProcessSteps
    <2> QED
      BY <1>2, <1>3, <2>1, <2>3 DEF WriteDone, TypeOK, daemon
  <1>4. CASE WriteFailed(l)
    <2> DEFINE row == [c EXCEPT !.busy = None, !.mcp = "broken", !.outstanding = @ \ {n},
                                !.cache = RemoveFirst(@, n)]
    <2>1. channel' = [channel EXCEPT ![l] = row]
      BY <1>4 DEF WriteFailed, TypeOK, c, n
    <2>2. Writing(l) /\ (pipe' = pipe \/ pipe' = Notified(l, n))
      BY <1>4 DEF WriteFailed, n
    <2>3. RemoveFirst(c.cache, n) \in Seq(Attempts)
      <3>1. c.cache \in Seq(Attempts)
        BY <1>0 DEF Process
      <3> QED
        BY <3>1, Removal
    <2>4. row \in Process
      BY <1>0, <2>3 DEF Process
    <2> HIDE DEF row
    <2>5. channel' \in [Launches -> Process]
      BY <2>1, <2>4, ProcessSteps
    <2> QED
      BY <1>2, <1>4, <2>2, <2>5 DEF WriteFailed, TypeOK, daemon
  <1>5. CASE WakeEcho(l)
    <2> PICK k \in channel[l].outstanding, outcome \in Outcomes :
          /\ attested' = attested \/ attested' = attested \cup {k}
          /\ \/ channel' = [channel EXCEPT ![l].outstanding = @ \ {k}]
             \/ channel' = channel
      BY <1>5 DEF WakeEcho
    <2>1. k \in Attempts
      BY <1>0 DEF Process, c
    <2>2. \/ channel' = [channel EXCEPT ![l] = [c EXCEPT !.outstanding = @ \ {k}]]
          \/ channel' = channel
      BY DEF TypeOK, c
    <2>3. [c EXCEPT !.outstanding = @ \ {k}] \in Process
      BY <1>0 DEF Process
    <2>4. channel' \in [Launches -> Process]
      BY <2>2, <2>3, ProcessSteps DEF TypeOK
    <2> QED
      BY <1>5, <2>1, <2>4 DEF WakeEcho, TypeOK, daemon
  <1> QED
    BY <1>3, <1>4, <1>5

LEMMA ProcessTypes ==
    ASSUME TypeOK, NEW l \in Launches,
           Initialized(l) \/ PipeBreaks(l) \/ Stop(l) \/ Exit(l)
    PROVE  TypeOK'
  <1> DEFINE c == channel[l]
  <1>0. c \in Process /\ Ended(c) \in Process
    BY ProcessRows DEF TypeOK
  <1> HIDE DEF c
  <1>1. CASE Initialized(l) \/ PipeBreaks(l)
    <2>1. \E s \in {"ready", "broken"} : channel' = [channel EXCEPT ![l] = [c EXCEPT !.mcp = s]]
      BY <1>1 DEF Initialized, PipeBreaks, TypeOK, c
    <2>2. \A s \in {"ready", "broken"} : [c EXCEPT !.mcp = s] \in Process
      BY <1>0 DEF Process
    <2>3. channel' \in [Launches -> Process]
      BY <2>1, <2>2, ProcessSteps
    <2> QED
      BY <1>1, <2>3 DEF Initialized, PipeBreaks, TypeOK, daemon, history
  <1>2. CASE Stop(l)
    <2>1. \E late \in BOOLEAN :
             channel' = [channel EXCEPT ![l] = [c EXCEPT !.stopping = "queued", !.late = late]]
      BY <1>2 DEF Stop, TypeOK, c
    <2>2. \A late \in BOOLEAN : [c EXCEPT !.stopping = "queued", !.late = late] \in Process
      BY <1>0 DEF Process
    <2>3. channel' \in [Launches -> Process]
      BY <2>1, <2>2, ProcessSteps
    <2> QED
      BY <1>2, <2>3 DEF Stop, TypeOK, daemon, history
  <1>3. CASE Exit(l)
    <2>1. channel' = [channel EXCEPT ![l] = Ended(c)]
      BY <1>3 DEF Exit, c
    <2>2. channel' \in [Launches -> Process]
      BY <1>0, <2>1, ProcessSteps
    <2>3. attempt' \in [Attempts -> Request \cup {None}]
      BY <1>3, TakenTypes DEF Exit, TypeOK
    <2> QED
      BY <1>3, <2>2, <2>3 DEF Exit, TypeOK, daemon, history
  <1> QED
    BY <1>1, <1>2, <1>3

LEMMA TypesStep == TypeOK /\ [Next]_vars => TypeOK'
  <1> SUFFICES ASSUME TypeOK, [Next]_vars PROVE TypeOK'
    OBVIOUS
  <1>1. CASE UNCHANGED vars
    BY <1>1 DEF vars, TypeOK
  <1>2. CASE \/ \E s \in Sessions : DaemonLapse(s)
             \/ \E n \in Attempts : Dispatch(n)
             \/ \E l \in Launches : RegisterHostSession(l)
    BY <1>2, DaemonTypes
  <1>3. ASSUME NEW l \in Launches, UnderLock(l) PROVE TypeOK'
    BY <1>3, SessionTypes, LeaseTypes, WakeTypes, WriteTypes DEF UnderLock
  <1>4. ASSUME NEW l \in Launches,
               \/ SessionLapse(l) \/ Initialized(l) \/ PipeBreaks(l) \/ Stop(l) \/ Exit(l)
               \/ (\E s \in SessionsOf[l] : EndHook(l, s)) \/ EndFallback(l)
        PROVE  TypeOK'
    BY <1>4, SessionTypes, LeaseTypes, ProcessTypes
  <1> QED
    BY <1>1, <1>2, <1>3, <1>4 DEF Next

LEMMA TypesInvariant == Spec => []TypeOK
BY InitTypes, TypesStep, PTL DEF Spec

\* Every row of the daemon and of the processes, and every history, keeps its type.
THEOREM TypeCorrect == Spec => []TypeOK
BY TypesInvariant

------------------------------------------------------------------------------
(* Leases.  What the step of one launch leaves to the others.               *)

\* The step is of launch l.
OnlyOf(l) ==
    \A m \in Launches \ {l} :
       /\ channel'[m] = channel[m] /\ hook'[m] = hook[m]
       /\ file'[m] = file[m] /\ pipe'[m] = pipe[m]

HeldIsLive(l) ==
    /\ channel[l].session # None
    /\ channel[l].session.fresh
    /\ channel[l].session.token = endpoint[channel[l].session.id].token
    /\ hook[l].pc = "idle"
    => endpoint[channel[l].session.id].live

\* An endpoint stays, is live, or was closed under a token that launch l knows.
EndpointMoves(l) ==
    \A s \in Sessions :
       \/ endpoint'[s] = endpoint[s] \/ endpoint'[s].live
       \/ Knows(l, endpoint[s].token) /\ endpoint'[s].token = endpoint[s].token

\* The token of a launch, and its session.
LEMMA LeaseNumbers ==
    ASSUME TypeOK
    PROVE  /\ \A s \in Sessions : endpoint[s].token \in Generations
           /\ binding.gen \in Generations
           /\ \A l \in Launches :
                 /\ channel[l] \in Process
                 /\ channel[l].session # None =>
                       /\ channel[l].session \in Served
                       /\ channel[l].session.id \in Sessions
                       /\ channel[l].session.token \in Generations
                 /\ Opening(l) =>
                       /\ channel[l].busy \in [op: {"open"}, session: Sessions, granted: Generations]
                       /\ channel[l].busy.session \in Sessions
                       /\ channel[l].busy.granted \in Generations
  <1>1. ASSUME NEW l \in Launches
        PROVE  /\ channel[l] \in Process
               /\ channel[l].session # None => channel[l].session \in Served
               /\ Opening(l) => channel[l].busy \in [op: {"open"}, session: Sessions, granted: Generations]
    BY DEF TypeOK, Process, Operation, Opening
  <1> QED
    BY <1>1 DEF TypeOK, Served

LEMMA OthersKeepLeases ==
    ASSUME LeaseInv, NEW l \in Launches, NEW m \in Launches \ {l},
           OnlyOf(l), EndpointMoves(l)
    PROVE  /\ OpensOnce(m)' /\ GrantIsLive(m)' /\ HeldIsLive(m)'
           /\ \A t : Knows(m, t)' <=> Knows(m, t)
  <1>0. /\ channel'[m] = channel[m] /\ hook'[m] = hook[m]
        /\ file'[m] = file[m] /\ pipe'[m] = pipe[m]
    BY DEF OnlyOf
  <1>1. OpensOnce(m) /\ GrantIsLive(m) /\ HeldIsLive(m) /\ TypeOK
    BY DEF LeaseInv, LeaseHeldIsLive, HeldIsLive
  <1>2. OpensOnce(m)'
    BY <1>0, <1>1 DEF OpensOnce, Opening, Writing
  <1>3. \A t : Knows(m, t)' <=> Knows(m, t)
    BY <1>0 DEF Knows, Opening
  <1>4. \A t \in Generations : Knows(l, t) => ~Knows(m, t)
    BY DEF LeaseInv, TokensAreOwn
  <1>5. GrantIsLive(m)'
    <2> SUFFICES ASSUME Opening(m), channel[m].busy.granted > 0,
                        channel[m].busy.granted = endpoint'[channel[m].busy.session].token
                 PROVE  endpoint'[channel[m].busy.session].live
      BY <1>0 DEF GrantIsLive, Opening
    <2> DEFINE s == channel[m].busy.session
    <2>1. s \in Sessions /\ channel[m].busy.granted \in Generations
      BY <1>1, LeaseNumbers
    <2>2. Knows(m, channel[m].busy.granted)
      BY DEF Knows
    <2>3. ~(Knows(l, endpoint[s].token) /\ endpoint'[s].token = endpoint[s].token)
      BY <1>4, <2>1, <2>2
    <2>4. endpoint'[s] = endpoint[s] \/ endpoint'[s].live
      BY <2>1, <2>3 DEF EndpointMoves
    <2> QED
      BY <1>1, <2>4 DEF GrantIsLive
  <1>6. HeldIsLive(m)'
    <2> SUFFICES ASSUME channel[m].session # None, channel[m].session.fresh, hook[m].pc = "idle",
                        channel[m].session.token = endpoint'[channel[m].session.id].token
                 PROVE  endpoint'[channel[m].session.id].live
      BY <1>0 DEF HeldIsLive
    <2> DEFINE s == channel[m].session.id
    <2>1. s \in Sessions /\ channel[m].session.token \in Generations
      BY <1>1, LeaseNumbers
    <2>2. Knows(m, channel[m].session.token)
      BY DEF Knows
    <2>3. ~(Knows(l, endpoint[s].token) /\ endpoint'[s].token = endpoint[s].token)
      BY <1>4, <2>1, <2>2
    <2>4. endpoint'[s] = endpoint[s] \/ endpoint'[s].live
      BY <2>1, <2>3 DEF EndpointMoves
    <2> QED
      BY <1>1, <2>4 DEF HeldIsLive
  <1> QED
    BY <1>2, <1>3, <1>5, <1>6

\* A step of one launch keeps the invariant when it keeps its own part, and what
\* the launch learns is at most the token of a new generation.
LEMMA LeaseStep ==
    ASSUME LeaseInv, TypeOK', NEW l \in Launches, OnlyOf(l), EndpointMoves(l),
           binding.gen <= binding'.gen,
           \A t \in Generations :
              Knows(l, t)' => Knows(l, t) \/ (binding.gen < t /\ t <= binding'.gen),
           OpensOnce(l)', GrantIsLive(l)', HeldIsLive(l)'
    PROVE  LeaseInv'
  <1>1. \A m \in Launches : OpensOnce(m)' /\ GrantIsLive(m)' /\ HeldIsLive(m)'
    BY OthersKeepLeases
  <1>2. \A m \in Launches \ {l} : \A t : Knows(m, t)' <=> Knows(m, t)
    BY OthersKeepLeases
  <1>3. /\ binding.gen \in Nat /\ binding'.gen \in Nat /\ Generations \subseteq Nat
        /\ \A k \in Launches, t \in Generations : Knows(k, t) => t <= binding.gen
        /\ \A k, m \in Launches, t \in Generations : Knows(k, t) /\ Knows(m, t) => k = m
    BY Constants DEF LeaseInv, TokensAreOwn, TypeOK, Generations
  <1>4. \A k \in Launches, t \in Generations : Knows(k, t)' => t <= binding'.gen
    BY <1>2, <1>3
  <1>5. \A k, m \in Launches, t \in Generations : Knows(k, t)' /\ Knows(m, t)' => k = m
    <2> SUFFICES ASSUME NEW k \in Launches, NEW m \in Launches, NEW t \in Generations,
                        Knows(k, t)', Knows(m, t)', k # m
                 PROVE  FALSE
      OBVIOUS
    <2>1. t \in Nat
      BY <1>3
    <2>2. \A j \in Launches \ {l} : Knows(j, t)' => Knows(j, t) /\ t <= binding.gen
      BY <1>2, <1>3
    <2>3. Knows(l, t)' => Knows(l, t) \/ binding.gen < t
      OBVIOUS
    <2>4. Knows(k, t) \/ (k = l /\ binding.gen < t)
      BY <2>2, <2>3
    <2>5. Knows(m, t) \/ (m = l /\ binding.gen < t)
      BY <2>2, <2>3
    <2>6. ~(t <= binding.gen /\ binding.gen < t)
      BY <1>3, <2>1
    <2> QED
      BY <1>3, <2>2, <2>4, <2>5, <2>6
  <1>6. TokensAreOwn'
    BY <1>4, <1>5 DEF TokensAreOwn
  <1>7. LeaseHeldIsLive'
    BY <1>1 DEF LeaseHeldIsLive, HeldIsLive
  <1> QED
    BY <1>1, <1>6, <1>7 DEF LeaseInv

\* A step that touches neither sessions nor leases.
LEMMA QuietLeaseStep ==
    ASSUME LeaseInv, TypeOK', NEW l \in Launches, OnlyOf(l),
           UNCHANGED <<endpoint, binding, file, hook>>,
           channel'[l].session = channel[l].session,
           Opening(l)' => Opening(l) /\ channel'[l].busy = channel[l].busy,
           OpensOnce(l)'
    PROVE  LeaseInv'
  <1>1. EndpointMoves(l)
    BY DEF EndpointMoves
  <1>2. \A t : Knows(l, t)' => Knows(l, t)
    BY DEF Knows
  <1>3. GrantIsLive(l) /\ HeldIsLive(l)
    BY DEF LeaseInv, LeaseHeldIsLive, HeldIsLive
  <1>4. GrantIsLive(l)' /\ HeldIsLive(l)'
    BY <1>3 DEF GrantIsLive, HeldIsLive
  <1>5. binding.gen <= binding'.gen
    BY Constants DEF LeaseInv, TypeOK, Generations
  <1> QED
    BY <1>1, <1>2, <1>4, <1>5, LeaseStep

LEMMA OwnPart ==
    ASSUME LeaseInv, NEW l \in Launches
    PROVE  TypeOK /\ OpensOnce(l) /\ GrantIsLive(l) /\ HeldIsLive(l)
BY DEF LeaseInv, LeaseHeldIsLive, HeldIsLive

LEMMA DeliveryLeases ==
    ASSUME LeaseInv, TypeOK', NEW l \in Launches,
           \/ \E n \in Attempts : WakeKnown(l, n) \/ WakeReserved(l, n)
           \/ WriteDone(l) \/ WriteFailed(l) \/ WakeEcho(l)
           \/ Initialized(l) \/ PipeBreaks(l) \/ Stop(l)
    PROVE  LeaseInv'
  <1>0. TypeOK /\ OpensOnce(l)
    BY OwnPart
  <1>1. ASSUME NEW n \in Attempts, WakeKnown(l, n) PROVE LeaseInv'
    <2>1. OnlyOf(l) /\ UNCHANGED <<endpoint, binding, file, hook, channel, pipe>>
      BY <1>1 DEF WakeKnown, OnlyOf, daemon, history
    <2>2. OpensOnce(l)'
      BY <1>0, <2>1 DEF OpensOnce, Opening, Writing
    <2> QED
      BY <2>1, <2>2, QuietLeaseStep DEF Opening
  <1>2. ASSUME NEW n \in Attempts, WakeReserved(l, n) PROVE LeaseInv'
    <2>1. OnlyOf(l) /\ UNCHANGED <<endpoint, binding, file, hook, pipe>>
      BY <1>2 DEF WakeReserved, OnlyOf, daemon, history, TypeOK
    <2>2. channel[l].session # None /\ channel[l].ever
      BY <1>0, <1>2 DEF WakeReserved, Accepts, OpensOnce
    <2>3. /\ channel'[l].session = channel[l].session /\ channel'[l].ever
          /\ channel'[l].busy.op = "write"
      BY <1>0, <1>2, <2>2 DEF WakeReserved, TypeOK, Process
    <2>4. OpensOnce(l)'
      BY <2>3 DEF OpensOnce, Opening
    <2> QED
      BY <2>1, <2>3, <2>4, QuietLeaseStep DEF Opening
  <1>3. CASE WriteDone(l) \/ WriteFailed(l)
    <2>1. OnlyOf(l) /\ UNCHANGED <<endpoint, binding, file, hook>>
      BY <1>0, <1>3 DEF WriteDone, WriteFailed, OnlyOf, daemon, Notified, TypeOK
    <2>2. Writing(l) /\ channel[l].ever
      BY <1>0, <1>3 DEF WriteDone, WriteFailed, OpensOnce
    <2>3. /\ channel'[l].session = channel[l].session /\ channel'[l].ever
          /\ channel'[l].busy = None
      BY <1>0, <1>3, <2>2 DEF WriteDone, WriteFailed, TypeOK, Process
    <2>4. OpensOnce(l)'
      BY <2>3 DEF OpensOnce, Opening
    <2> QED
      BY <2>1, <2>3, <2>4, QuietLeaseStep DEF Opening
  <1>4. CASE WakeEcho(l)
    <2>1. OnlyOf(l) /\ UNCHANGED <<endpoint, binding, file, hook>>
      BY <1>0, <1>4 DEF WakeEcho, OnlyOf, daemon, TypeOK
    <2>2. channel[l].session # None /\ channel[l].ever
      BY <1>0, <1>4 DEF WakeEcho, OpensOnce
    <2>3. /\ channel'[l].session = channel[l].session /\ channel'[l].ever
          /\ channel'[l].busy = None
      BY <1>0, <1>4, <2>2 DEF WakeEcho, Unlocked, TypeOK, Process
    <2>4. OpensOnce(l)'
      BY <2>3 DEF OpensOnce, Opening
    <2> QED
      BY <2>1, <2>3, <2>4, QuietLeaseStep DEF Opening
  <1>5. CASE Initialized(l) \/ PipeBreaks(l) \/ Stop(l)
    <2>1. OnlyOf(l) /\ UNCHANGED <<endpoint, binding, file, hook, pipe>>
      BY <1>0, <1>5 DEF Initialized, PipeBreaks, Stop, OnlyOf, daemon, history, TypeOK
    <2>2. /\ channel'[l].session = channel[l].session /\ channel'[l].ever = channel[l].ever
          /\ channel'[l].busy = channel[l].busy /\ channel'[l].cache = channel[l].cache
          /\ channel'[l].outstanding = channel[l].outstanding
      BY <1>0, <1>5 DEF Initialized, PipeBreaks, Stop, TypeOK, Process
    <2>3. OpensOnce(l)'
      BY <1>0, <2>1, <2>2 DEF OpensOnce, Opening, Writing
    <2> QED
      BY <2>1, <2>2, <2>3, QuietLeaseStep DEF Opening
  <1> QED
    BY <1>1, <1>2, <1>3, <1>4, <1>5

\* A process that gives its session up and keeps nothing but that it had one.
LEMMA FencedFields ==
    ASSUME NEW c \in Process
    PROVE  /\ Fenced(c).session = None /\ Fenced(c).ever = c.ever /\ Fenced(c).busy = c.busy
           /\ Fenced(c).cache = c.cache /\ Fenced(c).outstanding = {}
           /\ Fenced(c).up = c.up /\ Fenced(c).mcp = c.mcp
           /\ Ended(c).session = None /\ Ended(c).ever = c.ever /\ Ended(c).busy = None
           /\ Ended(c).cache = <<>> /\ Ended(c).outstanding = {} /\ Ended(c).up = FALSE
BY DEF Fenced, Ended, Fresh, Process

LEMMA SessionLeases ==
    ASSUME LeaseInv, TypeOK', NEW l \in Launches,
           \/ SessionLapse(l) \/ SessionStart(l) \/ OpenFailed(l) \/ Exit(l)
           \/ \E n \in Attempts : WakeRefused(l, n)
    PROVE  LeaseInv'
  <1>0. /\ TypeOK /\ OpensOnce(l) /\ GrantIsLive(l) /\ HeldIsLive(l)
        /\ channel[l] \in Process
    BY OwnPart DEF TypeOK
  <1>1. CASE SessionLapse(l)
    <2>1. OnlyOf(l) /\ UNCHANGED <<endpoint, binding, file, hook, pipe>>
      BY <1>0, <1>1 DEF SessionLapse, OnlyOf, daemon, history, TypeOK
    <2>2. /\ channel[l].session # None /\ channel[l].session \in Served
          /\ channel' = [channel EXCEPT ![l].session.fresh = FALSE]
      BY <1>0, <1>1, LeaseNumbers DEF SessionLapse
    <2>3. /\ channel'[l].session.token = channel[l].session.token
          /\ channel'[l].session.fresh = FALSE
          /\ channel'[l].ever = channel[l].ever
          /\ channel'[l].busy = channel[l].busy /\ channel'[l].cache = channel[l].cache
          /\ channel'[l].outstanding = channel[l].outstanding
      BY <1>0, <2>2 DEF TypeOK, Process, Served
    <2>4. EndpointMoves(l) /\ binding.gen <= binding'.gen
      BY <1>0, <2>1, Constants DEF EndpointMoves, TypeOK, Generations
    <2>5. \A t : Knows(l, t)' => Knows(l, t)
      BY <2>1, <2>2, <2>3 DEF Knows, Opening
    <2>6. OpensOnce(l)' /\ GrantIsLive(l)' /\ HeldIsLive(l)'
      BY <1>0, <2>1, <2>2, <2>3 DEF OpensOnce, GrantIsLive, HeldIsLive, Opening, Writing
    <2> QED
      BY <2>1, <2>4, <2>5, <2>6, LeaseStep
  <1>2. CASE SessionStart(l)
    <2>1. OnlyOf(l) /\ UNCHANGED <<endpoint, binding, file, hook, pipe>>
      BY <1>0, <1>2 DEF SessionStart, OnlyOf, daemon, history, TypeOK
    <2>2. /\ channel'[l].session = channel[l].session /\ channel'[l].ever = channel[l].ever
          /\ channel'[l].busy.op = "open" /\ channel'[l].busy.granted = 0
          /\ channel'[l].cache = channel[l].cache
          /\ channel'[l].outstanding = channel[l].outstanding
      <3> PICK s \in StartPosted(l) :
             channel' = [channel EXCEPT ![l].late = FALSE,
                           ![l].busy = [op |-> "open", session |-> s, granted |-> 0]]
        BY <1>2 DEF SessionStart
      <3>1. channel'[l] = [channel[l] EXCEPT !.late = FALSE,
                              !.busy = [op |-> "open", session |-> s, granted |-> 0]]
        BY <1>0 DEF TypeOK
      <3> DEFINE o == [op |-> "open", session |-> s, granted |-> 0]
                 d == [channel[l] EXCEPT !.late = FALSE, !.busy = o]
      <3>2. o.op = "open" /\ o.granted = 0
        OBVIOUS
      <3>3. channel'[l] = d
        BY <3>1
      <3> HIDE DEF o
      <3>4. /\ d.session = channel[l].session /\ d.ever = channel[l].ever /\ d.busy = o
            /\ d.cache = channel[l].cache /\ d.outstanding = channel[l].outstanding
        BY <1>0 DEF Process
      <3> HIDE DEF d
      <3> QED
        BY <3>2, <3>3, <3>4
    <2>3. ~channel[l].ever
      BY <1>2 DEF SessionStart
    <2>4. EndpointMoves(l) /\ binding.gen <= binding'.gen
      BY <1>0, <2>1, Constants DEF EndpointMoves, TypeOK, Generations
    <2>5. \A t : Knows(l, t)' => Knows(l, t)
      BY <2>1, <2>2 DEF Knows
    <2>6. OpensOnce(l)' /\ GrantIsLive(l)' /\ HeldIsLive(l)'
      BY <1>0, <2>1, <2>2, <2>3 DEF OpensOnce, GrantIsLive, HeldIsLive, Writing
    <2> QED
      BY <2>1, <2>4, <2>5, <2>6, LeaseStep
  <1>3. CASE OpenFailed(l)
    <2>1. OnlyOf(l) /\ UNCHANGED <<endpoint, binding, file, hook, pipe>>
      BY <1>0, <1>3 DEF OpenFailed, OnlyOf, daemon, history, TypeOK
    <2>2. /\ channel'[l].session = channel[l].session /\ channel'[l].ever = channel[l].ever
          /\ channel'[l].busy = None
          /\ channel'[l].cache = channel[l].cache
          /\ channel'[l].outstanding = channel[l].outstanding
      BY <1>0, <1>3 DEF OpenFailed, TypeOK, Process
    <2>3. OpensOnce(l)'
      BY <1>0, <2>1, <2>2 DEF OpensOnce, Opening, Writing
    <2> QED
      BY <2>1, <2>2, <2>3, QuietLeaseStep DEF Opening
  <1>4. CASE Exit(l)
    <2>1. OnlyOf(l) /\ UNCHANGED <<endpoint, binding, file, hook, pipe>>
      BY <1>0, <1>4 DEF Exit, OnlyOf, daemon, history, TypeOK
    <2>2. channel'[l] = Ended(channel[l])
      BY <1>0, <1>4 DEF Exit, TypeOK
    <2>6. /\ channel'[l].session = None /\ channel'[l].ever = channel[l].ever
          /\ channel'[l].busy = None /\ channel'[l].cache = <<>> /\ channel'[l].outstanding = {}
      BY <1>0, <2>2, FencedFields
    <2>3. EndpointMoves(l) /\ binding.gen <= binding'.gen
      BY <1>0, <2>1, Constants DEF EndpointMoves, TypeOK, Generations
    <2>4. \A t : Knows(l, t)' => Knows(l, t)
      BY <1>0, <2>1, <2>2, FencedFields DEF Knows, Opening
    <2>5. OpensOnce(l)' /\ GrantIsLive(l)' /\ HeldIsLive(l)'
      BY <1>0, <2>1, <2>6 DEF OpensOnce, GrantIsLive, HeldIsLive, Opening, Writing
    <2> QED
      BY <2>1, <2>3, <2>4, <2>5, LeaseStep
  <1>5. ASSUME NEW n \in Attempts, WakeRefused(l, n) PROVE LeaseInv'
    <2>1. OnlyOf(l) /\ UNCHANGED <<endpoint, binding, file, hook, pipe>>
      BY <1>0, <1>5 DEF WakeRefused, OnlyOf, daemon, history, TypeOK
    <2>2. channel'[l] = channel[l] \/ channel'[l] = Fenced(channel[l])
      BY <1>0, <1>5 DEF WakeRefused, TypeOK
    <2>3. EndpointMoves(l) /\ binding.gen <= binding'.gen
      BY <1>0, <2>1, Constants DEF EndpointMoves, TypeOK, Generations
    <2>4. \A t : Knows(l, t)' => Knows(l, t)
      BY <1>0, <2>1, <2>2, FencedFields DEF Knows, Opening
    <2>5. OpensOnce(l)' /\ GrantIsLive(l)' /\ HeldIsLive(l)'
      <3>1. CASE channel'[l] = channel[l]
        BY <1>0, <2>1, <3>1 DEF OpensOnce, GrantIsLive, HeldIsLive, Opening, Writing
      <3>2. CASE channel'[l] = Fenced(channel[l])
        <4>1. /\ channel'[l].session = None /\ channel'[l].ever = channel[l].ever
              /\ channel'[l].busy = channel[l].busy /\ channel'[l].cache = channel[l].cache
              /\ channel'[l].outstanding = {}
          BY <1>0, <3>2, FencedFields
        <4> QED
          BY <1>0, <2>1, <4>1 DEF OpensOnce, GrantIsLive, HeldIsLive, Opening, Writing
      <3> QED
        BY <2>2, <3>1, <3>2
    <2> QED
      BY <2>1, <2>3, <2>4, <2>5, LeaseStep
  <1> QED
    BY <1>1, <1>2, <1>3, <1>4, <1>5

LEMMA DaemonLeases ==
    ASSUME LeaseInv, TypeOK',
           (\E s \in Sessions : DaemonLapse(s)) \/ (\E n \in Attempts : Dispatch(n))
    PROVE  LeaseInv'
  <1>0. TypeOK
    BY DEF LeaseInv
  <1>1. UNCHANGED <<binding, channel, hook, file, pipe>>
    BY DEF DaemonLapse, Dispatch, daemon, history
  <1>2. \A m \in Launches : \A t : Knows(m, t)' <=> Knows(m, t)
    BY <1>1 DEF Knows, Opening
  <1>3. TokensAreOwn'
    BY <1>1, <1>2 DEF LeaseInv, TokensAreOwn
  <1>4. \A m \in Launches : OpensOnce(m)'
    BY <1>1 DEF LeaseInv, OpensOnce, Opening, Writing
  <1>5. ASSUME NEW m \in Launches PROVE GrantIsLive(m)' /\ HeldIsLive(m)'
    <2>1. GrantIsLive(m) /\ HeldIsLive(m)
      BY OwnPart
    <2>2. CASE UNCHANGED endpoint
      BY <1>1, <2>1, <2>2 DEF GrantIsLive, HeldIsLive, Opening
    <2>3. ASSUME NEW s \in Sessions, DaemonLapse(s) PROVE GrantIsLive(m)' /\ HeldIsLive(m)'
      <3>1. \A r \in Sessions : /\ endpoint'[r].token = endpoint[r].token
                                /\ r # s => endpoint'[r] = endpoint[r]
        BY <1>0, <2>3 DEF DaemonLapse, TypeOK
      <3>2. ~HeldFresh(s)
        BY <2>3 DEF DaemonLapse
      <3>3. /\ channel[m].session # None => channel[m].session.id \in Sessions
            /\ Opening(m) => channel[m].busy.session \in Sessions
        BY <1>0, LeaseNumbers
      <3>4. /\ ~(/\ channel[m].session # None /\ channel[m].session.id = s
                 /\ channel[m].session.token = endpoint[s].token /\ channel[m].session.fresh)
            /\ ~(/\ Opening(m) /\ channel[m].busy.session = s
                 /\ channel[m].busy.granted = endpoint[s].token)
        BY <3>2 DEF HeldFresh, IsCurrent
      <3>5. GrantIsLive(m)'
        BY <1>1, <2>1, <3>1, <3>3, <3>4 DEF GrantIsLive, Opening
      <3>6. HeldIsLive(m)'
        BY <1>1, <2>1, <3>1, <3>3, <3>4 DEF HeldIsLive
      <3> QED
        BY <3>5, <3>6
    <2> QED
      BY <2>2, <2>3 DEF Dispatch, daemon
  <1>6. LeaseHeldIsLive'
    BY <1>5 DEF LeaseHeldIsLive, HeldIsLive
  <1> QED
    BY <1>3, <1>4, <1>5, <1>6 DEF LeaseInv

\* What a lease by whose token the daemon is called may change there.
LEMMA CallMoves ==
    ASSUME TypeOK, NEW l \in Launches, NEW lease \in Saved, Knows(l, lease.token),
           NEW on \in BOOLEAN, Renewable(lease),
           endpoint' = endpoint \/ endpoint' = Live(lease, on)
    PROVE  EndpointMoves(l)
  <1>1. lease.session \in Sessions /\ endpoint[lease.session].token = lease.token
    BY DEF Saved, Renewable
  <1>2. ASSUME endpoint' = Live(lease, on), NEW s \in Sessions
        PROVE  \/ endpoint'[s] = endpoint[s]
               \/ Knows(l, endpoint[s].token) /\ endpoint'[s].token = endpoint[s].token
    <2>1. endpoint'[s] = IF s = lease.session THEN [endpoint[s] EXCEPT !.live = on] ELSE endpoint[s]
      BY <1>1, <1>2 DEF Live, TypeOK
    <2>2. endpoint[s] \in [token: Generations, live: BOOLEAN]
      BY DEF TypeOK
    <2> QED
      BY <1>1, <2>1, <2>2
  <1> QED
    BY <1>2 DEF EndpointMoves

LEMMA RevokedMoves ==
    ASSUME TypeOK, NEW l \in Launches, NEW lease \in Saved, Knows(l, lease.token),
           NEW outcome, Revoked(lease, outcome)
    PROVE  EndpointMoves(l)
  <1>1. endpoint' = endpoint \/ (Renewable(lease) /\ endpoint' = Live(lease, FALSE))
    BY DEF Revoked, Authorized, Renewable
  <1>2. CASE endpoint' = endpoint
    BY <1>2 DEF EndpointMoves
  <1> QED
    BY <1>1, <1>2, CallMoves

LEMMA OpenLeases ==
    ASSUME LeaseInv, TypeOK', NEW l \in Launches, RegisterHostSession(l) \/ Opened(l)
    PROVE  LeaseInv'
  <1>0. /\ TypeOK /\ OpensOnce(l) /\ GrantIsLive(l) /\ HeldIsLive(l) /\ channel[l] \in Process
        /\ binding.gen \in Nat /\ Generations \subseteq Nat
    BY OwnPart, Constants DEF TypeOK, Generations
  <1>1. /\ Opening(l) /\ ~channel[l].ever /\ channel[l].session = None
        /\ channel[l].busy \in [op: {"open"}, session: Sessions, granted: Generations]
        /\ pipe[l] = <<>> /\ file[l] = None /\ hook[l].saved = None
        /\ channel[l].cache = <<>> /\ channel[l].outstanding = {}
    BY <1>0, LeaseNumbers DEF RegisterHostSession, Opened, OpensOnce
  <1> DEFINE s == channel[l].busy.session
             token == channel[l].busy.granted
  <1>2. s \in Sessions /\ token \in Generations
    BY <1>1
  <1>3. CASE RegisterHostSession(l)
    <2>1. OnlyOf(l) /\ UNCHANGED <<file, hook, pipe>>
      BY <1>0, <1>3 DEF RegisterHostSession, OnlyOf, history, TypeOK
    <2>2. channel' = [channel EXCEPT ![l].busy.granted = binding.gen + 1]
      BY <1>3 DEF RegisterHostSession
    <2>3. /\ channel'[l].session = None /\ ~channel'[l].ever
          /\ channel'[l].busy.op = "open" /\ channel'[l].busy.granted = binding.gen + 1
          /\ channel'[l].busy.session = s
          /\ channel'[l].cache = <<>> /\ channel'[l].outstanding = {}
      BY <1>0, <1>1, <2>2 DEF TypeOK, Process
    <2>4. /\ endpoint' = [endpoint EXCEPT ![s] = [token |-> binding.gen + 1, live |-> TRUE]]
          /\ binding'.gen = binding.gen + 1
      BY <1>3 DEF RegisterHostSession
    <2>5. EndpointMoves(l)
      BY <1>0, <2>4 DEF EndpointMoves, TypeOK
    <2>6. \A t \in Generations :
             Knows(l, t)' => Knows(l, t) \/ (binding.gen < t /\ t <= binding'.gen)
      BY <1>0, <1>1, <2>1, <2>3, <2>4 DEF Knows
    <2>7. OpensOnce(l)'
      BY <1>1, <2>1, <2>3 DEF OpensOnce, Writing
    <2>8. GrantIsLive(l)'
      BY <1>0, <1>2, <2>3, <2>4 DEF GrantIsLive, TypeOK
    <2>9. HeldIsLive(l)'
      BY <2>3 DEF HeldIsLive
    <2>10. binding.gen <= binding'.gen
      BY <1>0, <2>4
    <2> QED
      BY <2>1, <2>5, <2>6, <2>7, <2>8, <2>9, <2>10, LeaseStep
  <1>4. CASE Opened(l)
    <2> DEFINE serving == [channel[l] EXCEPT
                   !.busy = None, !.ever = TRUE, !.cache = <<>>, !.outstanding = {},
                   !.session = [id |-> s, token |-> token, fresh |-> TRUE]]
               renewing == [serving EXCEPT !.renewing = TRUE]
    <2>1. \/ /\ file' = [file EXCEPT ![l] = [session |-> s, token |-> token]]
             /\ channel' = [channel EXCEPT ![l] = renewing]
          \/ /\ channel' = [channel EXCEPT ![l] = serving]
             /\ UNCHANGED file
      BY <1>4 DEF Opened
    <2>2. UNCHANGED <<endpoint, binding, hook, pipe>> /\ token > 0
      BY <1>4 DEF Opened, daemon, history
    <2>3. \A c \in {serving, renewing} :
             c.session = [id |-> s, token |-> token, fresh |-> TRUE] /\ c.ever /\ c.busy = None
      BY <1>0 DEF Process
    <2> HIDE DEF serving, renewing
    <2>4. OnlyOf(l)
      BY <1>0, <2>1, <2>2 DEF OnlyOf, TypeOK
    <2>5. channel'[l] \in {serving, renewing}
      BY <1>0, <2>1 DEF TypeOK
    <2>6. /\ channel'[l].session = [id |-> s, token |-> token, fresh |-> TRUE]
          /\ channel'[l].ever /\ channel'[l].busy = None
      BY <2>3, <2>5
    <2>7. file'[l] = None \/ file'[l].token = token
      BY <1>0, <1>1, <2>1 DEF TypeOK
    <2>8. EndpointMoves(l) /\ binding.gen <= binding'.gen
      BY <1>0, <2>2 DEF EndpointMoves
    <2>9. \A t \in Generations : Knows(l, t)' => Knows(l, t)
      <3> SUFFICES ASSUME NEW t \in Generations, Knows(l, t)' PROVE t = token
        BY <1>1, <2>2 DEF Knows
      <3>1. hook'[l].saved = None
        BY <1>1, <2>2
      <3> QED
        BY <2>6, <2>7, <3>1 DEF Knows, Opening
    <2>10. OpensOnce(l)' /\ GrantIsLive(l)'
      BY <2>6 DEF OpensOnce, GrantIsLive, Opening
    <2>11. HeldIsLive(l)'
      BY <1>0, <1>1, <2>2, <2>6 DEF HeldIsLive, GrantIsLive
    <2> QED
      BY <2>4, <2>8, <2>9, <2>10, <2>11, LeaseStep
  <1> QED
    BY <1>3, <1>4

\* A session that is given up, with the close of its lease.
LEMMA CloseLeases ==
    ASSUME LeaseInv, TypeOK', NEW l \in Launches, NEW c \in Process, NEW outcome,
           CloseCurrent(l, c, outcome), channel[l].session # None,
           c.ever = channel[l].ever, c.busy = None, OnlyOf(l), UNCHANGED <<binding, pipe>>,
           hook'[l].saved = hook[l].saved
    PROVE  LeaseInv'
  <1> DEFINE lease == Lease(channel[l])
  <1>0. /\ TypeOK /\ OpensOnce(l) /\ channel[l] \in Process /\ channel[l].ever
        /\ binding.gen \in Nat
    BY OwnPart, Constants DEF TypeOK, Generations, OpensOnce
  <1>1. lease \in Saved /\ Knows(l, lease.token)
    BY <1>0, ProcessRows DEF Lease, Knows
  <1>2. channel'[l] = Fenced(c)
    BY <1>0 DEF CloseCurrent, TypeOK
  <1>3. channel'[l].session = None /\ channel'[l].busy = None /\ channel'[l].ever
    <2>1. Fenced(c).session = None /\ Fenced(c).busy = c.busy /\ Fenced(c).ever = c.ever
      BY FencedFields
    <2>2. c.ever
      BY <1>0
    <2> QED
      BY <1>2, <2>1, <2>2
  <1>4. Revoked(lease, outcome) /\ (file' = file \/ file' = Removed(l, lease))
    BY DEF CloseCurrent
  <1> HIDE DEF lease
  <1>5. file'[l] = file[l] \/ file'[l] = None
    BY <1>0, <1>4 DEF Removed, TypeOK
  <1>6. EndpointMoves(l)
    BY <1>0, <1>1, <1>4, RevokedMoves
  <1>7. \A t \in Generations : Knows(l, t)' => Knows(l, t)
    BY <1>3, <1>5 DEF Knows, Opening
  <1>8. OpensOnce(l)' /\ GrantIsLive(l)' /\ HeldIsLive(l)'
    BY <1>3 DEF OpensOnce, GrantIsLive, HeldIsLive, Opening
  <1>9. binding.gen <= binding'.gen
    BY <1>0
  <1> QED
    BY <1>6, <1>7, <1>8, <1>9, LeaseStep

LEMMA RenewalLeases ==
    ASSUME LeaseInv, TypeOK', NEW l \in Launches, Renew(l)
    PROVE  LeaseInv'
  <1> DEFINE lease == Lease(channel[l])
  <1>0. /\ TypeOK /\ OpensOnce(l) /\ HeldIsLive(l) /\ channel[l] \in Process
        /\ binding.gen \in Nat
    BY OwnPart, Constants DEF TypeOK, Generations
  <1>1. /\ channel[l].session # None /\ channel[l].busy = None /\ channel[l].ever
        /\ channel[l].session \in Served
    BY <1>0, LeaseNumbers DEF Renew, Unlocked, OpensOnce
  <1>2. lease \in Saved /\ Knows(l, lease.token)
    BY <1>0, <1>1, ProcessRows DEF Lease, Knows
  <1>3. lease.session = channel[l].session.id /\ lease.token = channel[l].session.token
    BY DEF Lease
  <1> HIDE DEF lease
  <1>4. UNCHANGED <<binding, hook, pipe>> /\ OnlyOf(l)
    BY <1>0 DEF Renew, history, OnlyOf, TypeOK, lease
  <1>5. PICK outcome \in Outcomes :
          /\ endpoint' = IF Renewable(lease) /\ outcome # "unexecuted" THEN Live(lease, TRUE) ELSE endpoint
          /\ \/ /\ RenewalConfirmed(lease, outcome)
                /\ channel' = [channel EXCEPT ![l].session.fresh = TRUE]
                /\ file' = [file EXCEPT ![l] = lease]
             \/ /\ channel' = [channel EXCEPT ![l] = Fenced(@)]
                /\ UNCHANGED file
    BY DEF Renew, lease
  <1>6. EndpointMoves(l) /\ binding.gen <= binding'.gen
    <2>1. CASE endpoint' = endpoint
      BY <1>0, <1>4, <2>1 DEF EndpointMoves
    <2>2. CASE Renewable(lease) /\ endpoint' = Live(lease, TRUE)
      <3>1. EndpointMoves(l)
        BY <1>0, <1>2, <2>2, CallMoves, Zenon
      <3> QED
        BY <1>0, <1>4, <3>1
    <2> QED
      BY <1>5, <2>1, <2>2
  <1>7. CASE RenewalConfirmed(lease, outcome) /\ channel' = [channel EXCEPT ![l].session.fresh = TRUE]
             /\ file' = [file EXCEPT ![l] = lease]
    <2>1. /\ channel'[l].session.token = lease.token /\ channel'[l].session.id = lease.session
          /\ channel'[l].busy = None /\ channel'[l].ever
      BY <1>0, <1>1, <1>3, <1>7 DEF TypeOK, Process, Served
    <2>2. file'[l] = lease
      BY <1>0, <1>7 DEF TypeOK
    <2>3. \A t \in Generations : Knows(l, t)' => Knows(l, t)
      BY <1>2, <1>4, <2>1, <2>2 DEF Knows, Opening
    <2>4. OpensOnce(l)' /\ GrantIsLive(l)'
      BY <2>1 DEF OpensOnce, GrantIsLive, Opening
    <2>5. endpoint' = Live(lease, TRUE)
      BY <1>5, <1>7 DEF RenewalConfirmed
    <2>6. endpoint'[lease.session].live
      BY <1>0, <1>2, <2>5 DEF Live, TypeOK, Saved
    <2>7. HeldIsLive(l)'
      BY <2>1, <2>6 DEF HeldIsLive
    <2> QED
      BY <1>4, <1>6, <2>3, <2>4, <2>7, LeaseStep
  <1>8. CASE channel' = [channel EXCEPT ![l] = Fenced(channel[l])] /\ UNCHANGED file
    <2>1. channel'[l] = Fenced(channel[l])
      BY <1>0, <1>8 DEF TypeOK
    <2>2. /\ Fenced(channel[l]).session = None /\ Fenced(channel[l]).busy = channel[l].busy
          /\ Fenced(channel[l]).ever = channel[l].ever
      BY <1>0, FencedFields
    <2>3. channel'[l].session = None /\ channel'[l].busy = None /\ channel'[l].ever
      BY <1>1, <2>1, <2>2
    <2>4. \A t \in Generations : Knows(l, t)' => Knows(l, t)
      BY <1>4, <1>8, <2>3 DEF Knows, Opening
    <2>5. OpensOnce(l)' /\ GrantIsLive(l)' /\ HeldIsLive(l)'
      BY <2>3 DEF OpensOnce, GrantIsLive, HeldIsLive, Opening
    <2> QED
      BY <1>4, <1>6, <2>4, <2>5, LeaseStep
  <1> QED
    BY <1>5, <1>7, <1>8

LEMMA EndLeases ==
    ASSUME LeaseInv, TypeOK', NEW l \in Launches,
           \/ SessionEnd(l) \/ EndNotCurrent(l) \/ StopLocked(l) \/ EndFallback(l)
           \/ \E s \in SessionsOf[l] : EndHook(l, s)
    PROVE  LeaseInv'
  <1>0. /\ TypeOK /\ OpensOnce(l) /\ GrantIsLive(l) /\ HeldIsLive(l) /\ channel[l] \in Process
        /\ binding.gen \in Nat /\ hook[l] \in Hook
    BY OwnPart, Constants DEF TypeOK, Generations
  <1>1. CASE SessionEnd(l)
    <2>1. /\ channel[l].session # None /\ channel[l].busy = None
          /\ \E outcome \in Outcomes : CloseCurrent(l, channel[l], outcome)
      BY <1>1 DEF SessionEnd, IsCurrent, Unlocked
    <2>2. \E pc \in {"refused", "done"} : hook' = [hook EXCEPT ![l].pc = pc]
      BY <1>1 DEF SessionEnd
    <2>3. hook'[l].saved = hook[l].saved /\ \A m \in Launches \ {l} : hook'[m] = hook[m]
      BY <1>0, <2>2 DEF TypeOK, Hook
    <2>4. UNCHANGED <<binding, pipe>>
      BY <1>1 DEF SessionEnd, history
    <2>5. OnlyOf(l)
      BY <1>0, <2>1, <2>3, <2>4 DEF OnlyOf, CloseCurrent, Removed, TypeOK
    <2> QED
      BY <1>0, <2>1, <2>3, <2>4, <2>5, CloseLeases
  <1>2. CASE StopLocked(l)
    <2>1. /\ UNCHANGED <<binding, pipe, hook>> /\ channel[l].busy = None
      BY <1>2 DEF StopLocked, history, Unlocked
    <2>2. CASE channel[l].session # None
      <3> DEFINE c == [channel[l] EXCEPT !.stopping = "closed"]
      <3>1. \E outcome \in Outcomes : CloseCurrent(l, c, outcome)
        BY <1>2, <2>2 DEF StopLocked
      <3>2. c \in Process /\ c.ever = channel[l].ever /\ c.busy = None
        BY <1>0, <2>1 DEF Process
      <3> HIDE DEF c
      <3>3. OnlyOf(l)
        BY <1>0, <2>1, <3>1 DEF OnlyOf, CloseCurrent, Removed, TypeOK
      <3> QED
        BY <2>1, <2>2, <3>1, <3>2, <3>3, CloseLeases
    <2>3. CASE channel[l].session = None
      <3>1. /\ channel' = [channel EXCEPT ![l].stopping = "closed", ![l].renewing = FALSE]
            /\ UNCHANGED <<endpoint, file>>
        BY <1>2, <2>3 DEF StopLocked
      <3>2. /\ channel'[l].session = channel[l].session /\ channel'[l].ever = channel[l].ever
            /\ channel'[l].busy = channel[l].busy /\ channel'[l].cache = channel[l].cache
            /\ channel'[l].outstanding = channel[l].outstanding
        BY <1>0, <3>1 DEF TypeOK, Process
      <3>3. OnlyOf(l)
        BY <1>0, <2>1, <3>1 DEF OnlyOf, TypeOK
      <3>4. OpensOnce(l)'
        BY <1>0, <2>1, <3>1, <3>2 DEF OpensOnce, Opening, Writing
      <3> QED
        BY <2>1, <3>1, <3>2, <3>3, <3>4, QuietLeaseStep DEF Opening
    <2> QED
      BY <2>2, <2>3
  <1>3. CASE EndNotCurrent(l)
    <2>1. hook' = [hook EXCEPT ![l].pc = "refused"] /\ hook[l].pc = "posted"
          /\ UNCHANGED <<endpoint, binding, channel, file, pipe>>
      BY <1>3 DEF EndNotCurrent, daemon, history
    <2>2. /\ hook'[l].saved = hook[l].saved /\ hook'[l].pc = "refused"
          /\ \A m \in Launches \ {l} : hook'[m] = hook[m]
      BY <1>0, <2>1 DEF TypeOK, Hook
    <2>3. OnlyOf(l) /\ EndpointMoves(l) /\ binding.gen <= binding'.gen
      BY <1>0, <2>1, <2>2 DEF OnlyOf, EndpointMoves
    <2>4. \A t : Knows(l, t)' => Knows(l, t)
      BY <2>1, <2>2 DEF Knows, Opening
    <2>5. OpensOnce(l)' /\ GrantIsLive(l)' /\ HeldIsLive(l)'
      BY <1>0, <2>1, <2>2 DEF OpensOnce, GrantIsLive, HeldIsLive, Opening, Writing
    <2> QED
      BY <2>3, <2>4, <2>5, LeaseStep
  <1>4. CASE EndFallback(l)
    <2> DEFINE saved == hook[l].saved
    <2>1. UNCHANGED <<binding, channel, pipe>> /\ hook[l].pc \in {"posted", "refused"}
      BY <1>4 DEF EndFallback, history
    <2>2. \E pc \in {"late", "done"} : hook' = [hook EXCEPT ![l].pc = pc, ![l].saved = None]
      BY <1>4 DEF EndFallback
    <2>3. /\ hook'[l].saved = None /\ hook'[l].pc # "idle"
          /\ \A m \in Launches \ {l} : hook'[m] = hook[m]
      BY <1>0, <2>2 DEF TypeOK, Hook
    <2>4. \/ UNCHANGED <<endpoint, file>>
          \/ /\ saved # None
             /\ \E outcome \in Outcomes :
                   /\ Revoked(saved, outcome)
                   /\ file' = file \/ file' = Removed(l, saved)
      BY <1>4 DEF EndFallback
    <2>5. saved # None => saved \in Saved /\ Knows(l, saved.token)
      BY <1>0 DEF Hook, Knows
    <2>6. saved # None => channel[l].ever
      BY <1>0 DEF OpensOnce
    <2> HIDE DEF saved
    <2>7. /\ \A m \in Launches \ {l} : file'[m] = file[m]
          /\ file'[l] = file[l] \/ file'[l] = None
      BY <1>0, <2>4 DEF Removed, TypeOK
    <2>8. EndpointMoves(l)
      BY <1>0, <2>4, <2>5, RevokedMoves DEF EndpointMoves
    <2>9. OnlyOf(l) /\ binding.gen <= binding'.gen
      BY <1>0, <2>1, <2>3, <2>7 DEF OnlyOf
    <2>10. \A t : Knows(l, t)' => Knows(l, t)
      BY <2>1, <2>3, <2>7 DEF Knows, Opening
    <2>11. OpensOnce(l)'
      BY <1>0, <2>1, <2>3, <2>7 DEF OpensOnce, Opening, Writing
    <2>12. HeldIsLive(l)'
      BY <2>3 DEF HeldIsLive
    <2>13. GrantIsLive(l)'
      <3>1. CASE UNCHANGED endpoint
        BY <1>0, <2>1, <3>1 DEF GrantIsLive, Opening
      <3>2. CASE channel[l].ever
        BY <1>0, <2>1, <3>2 DEF GrantIsLive, OpensOnce, Opening
      <3> QED
        BY <2>4, <2>6, <3>1, <3>2
    <2> QED
      BY <2>8, <2>9, <2>10, <2>11, <2>12, <2>13, LeaseStep
  <1>5. ASSUME NEW s \in SessionsOf[l], EndHook(l, s) PROVE LeaseInv'
    <2>1. UNCHANGED <<endpoint, binding, channel, file, pipe>>
      BY <1>5 DEF EndHook, daemon, history
    <2>2. /\ hook'[l].saved = file[l] /\ hook'[l].pc # "idle"
          /\ \A m \in Launches \ {l} : hook'[m] = hook[m]
      BY <1>0, <1>5 DEF EndHook, PostHookObservation, TypeOK
    <2>3. OnlyOf(l) /\ EndpointMoves(l) /\ binding.gen <= binding'.gen
      BY <1>0, <2>1, <2>2 DEF OnlyOf, EndpointMoves
    <2>4. \A t : Knows(l, t)' => Knows(l, t)
      BY <2>1, <2>2 DEF Knows, Opening
    <2>5. OpensOnce(l)' /\ GrantIsLive(l)' /\ HeldIsLive(l)'
      BY <1>0, <2>1, <2>2 DEF OpensOnce, GrantIsLive, HeldIsLive, Opening, Writing
    <2> QED
      BY <2>3, <2>4, <2>5, LeaseStep
  <1> QED
    BY <1>1, <1>2, <1>3, <1>4, <1>5

LEMMA LeasesInit == Init => LeaseInv
  <1> SUFFICES ASSUME Init PROVE LeaseInv
    OBVIOUS
  <1>1. TypeOK
    BY InitTypes
  <1>2. ASSUME NEW l \in Launches
        PROVE  /\ channel[l].session = None /\ channel[l].cache = <<>> /\ channel[l].outstanding = {}
               /\ channel[l].busy = None /\ pipe[l] = <<>>
               /\ file[l] = None /\ hook[l].saved = None
    BY DEF Init, Fresh
  <1>3. \A l \in Launches : OpensOnce(l) /\ GrantIsLive(l) /\ HeldIsLive(l)
    BY <1>2 DEF OpensOnce, GrantIsLive, HeldIsLive, Opening, Writing
  <1>4. \A l \in Launches : \A t : ~Knows(l, t)
    BY <1>2 DEF Knows, Opening
  <1> QED
    BY <1>1, <1>3, <1>4 DEF LeaseInv, TokensAreOwn, LeaseHeldIsLive, HeldIsLive

LEMMA LeasesStep == LeaseInv /\ [Next]_vars => LeaseInv'
  <1> SUFFICES ASSUME LeaseInv, [Next]_vars PROVE LeaseInv'
    OBVIOUS
  <1>0. TypeOK'
    BY TypesStep DEF LeaseInv
  <1>1. CASE UNCHANGED vars
    <2>1. UNCHANGED <<endpoint, binding, channel, hook, file, pipe>>
      BY <1>1 DEF vars
    <2>2. TokensAreOwn'
      BY <2>1 DEF LeaseInv, TokensAreOwn, Knows, Opening
    <2>3. \A l \in Launches : OpensOnce(l)' /\ GrantIsLive(l)'
      BY <2>1 DEF LeaseInv, OpensOnce, GrantIsLive, Opening, Writing
    <2>4. LeaseHeldIsLive'
      BY <2>1 DEF LeaseInv, LeaseHeldIsLive
    <2> QED
      BY <1>0, <2>2, <2>3, <2>4 DEF LeaseInv
  <1>2. CASE (\E s \in Sessions : DaemonLapse(s)) \/ (\E n \in Attempts : Dispatch(n))
    BY <1>0, <1>2, DaemonLeases
  <1>3. ASSUME NEW l \in Launches, RegisterHostSession(l) PROVE LeaseInv'
    BY <1>0, <1>3, OpenLeases
  <1>4. ASSUME NEW l \in Launches, UnderLock(l) PROVE LeaseInv'
    BY <1>0, <1>4, OpenLeases, SessionLeases, RenewalLeases, EndLeases, DeliveryLeases
       DEF UnderLock
  <1>5. ASSUME NEW l \in Launches,
               \/ SessionLapse(l) \/ Initialized(l) \/ PipeBreaks(l) \/ Stop(l) \/ Exit(l)
               \/ (\E s \in SessionsOf[l] : EndHook(l, s)) \/ EndFallback(l)
        PROVE  LeaseInv'
    BY <1>0, <1>5, SessionLeases, EndLeases, DeliveryLeases
  <1> QED
    BY <1>1, <1>2, <1>3, <1>4, <1>5 DEF Next

LEMMA LeasesInvariant == Spec => []LeaseInv
BY LeasesInit, LeasesStep, PTL DEF Spec

\* A session that holds the current token of an endpoint, has not seen its lease run
\* out and was not ended by its own hook has a live endpoint.
THEOREM HeldLeaseIsLive == Spec => []LeaseHeldIsLive
<1>1. LeaseInv => LeaseHeldIsLive
  BY DEF LeaseInv
<1> QED
  BY <1>1, LeasesInvariant, PTL

\* The channel of a launch that has served a session and lost it is not bound to that
\* launch again: an open needs a launch that has not served one.
THEOREM FencedStaysFenced == Spec => NeverReclaims
<1>1. LeaseInv /\ [Next]_vars =>
        [\A l \in Launches : channel[l].ever /\ binding.launch # l => binding'.launch # l]_vars
  <2> SUFFICES ASSUME LeaseInv, Next,
                      NEW l \in Launches, channel[l].ever, binding.launch # l
               PROVE  binding'.launch # l
    OBVIOUS
  <2>1. CASE \E m \in Launches : RegisterHostSession(m)
    <3> PICK m \in Launches : RegisterHostSession(m)
      BY <2>1
    <3>1. m # l /\ binding'.launch = m
      BY DEF RegisterHostSession, LeaseInv, OpensOnce
    <3> QED
      BY <3>1
  <2>2. CASE UNCHANGED binding
    BY <2>2
  <2>3. UNCHANGED binding \/ \E m \in Launches : RegisterHostSession(m)
    <3>1. ASSUME NEW m \in Launches, UnderLock(m) PROVE UNCHANGED binding
      BY <3>1 DEF UnderLock, SessionStart, Opened, OpenFailed, Renew, SessionEnd, EndNotCurrent,
                  WakeEcho, WakeRefused, WakeKnown, WakeReserved, WriteDone, WriteFailed,
                  StopLocked, daemon
    <3>2. ASSUME NEW m \in Launches,
                 \/ SessionLapse(m) \/ Initialized(m) \/ PipeBreaks(m) \/ Stop(m) \/ Exit(m)
                 \/ (\E s \in SessionsOf[m] : EndHook(m, s)) \/ EndFallback(m)
          PROVE  UNCHANGED binding
      BY <3>2 DEF SessionLapse, Initialized, PipeBreaks, Stop, Exit, EndHook, EndFallback, daemon
    <3> QED
      BY <3>1, <3>2 DEF Next, DaemonLapse, Dispatch, daemon
  <2> QED
    BY <2>1, <2>2, <2>3
<1> QED
  BY <1>1, LeasesInvariant, PTL DEF Spec, NeverReclaims

------------------------------------------------------------------------------
(* Deliveries.  First the sequences.                                        *)

\* A set that holds all members of a sequence without repetition has as many.
LEMMA DistinctMembers ==
    ASSUME NEW S, NEW c \in Seq(S), Distinct(c), NEW T, IsFiniteSet(T),
           \A i \in 1..Len(c) : c[i] \in T
    PROVE  Cardinality(T) >= Len(c)
  <1>1. Len(c) \in Nat /\ DOMAIN c = 1..Len(c)
    OBVIOUS
  <1> DEFINE f == [i \in 1..Len(c) |-> c[i]]
  <1>2. f \in Injection(1..Len(c), T)
    BY <1>1 DEF Injection, IsInjective, Distinct
  <1>3. Cardinality(1..Len(c)) <= Cardinality(T)
    BY <1>2, FS_Injection
  <1>4. Cardinality(1..Len(c)) = Len(c)
    <2>1. Cardinality(1..Len(c)) = IF 1 > Len(c) THEN 0 ELSE Len(c) - 1 + 1
      BY <1>1, FS_Interval
    <2> QED
      BY <1>1, <2>1
  <1>5. Cardinality(T) \in Nat
    BY FS_CardinalityType
  <1> QED
    BY <1>1, <1>3, <1>4, <1>5

\* The members between two positions are finitely many.
LEMMA BetweenIsFinite ==
    ASSUME NEW s, NEW i \in Int, NEW j \in Int
    PROVE  IsFiniteSet({s[k] : k \in i..j})
  <1> DEFINE f == [k \in i..j |-> s[k]]
             T == {s[k] : k \in i..j}
  <1>1. IsFiniteSet(i..j)
    BY FS_Interval
  <1>2. f \in Surjection(i..j, T)
    BY DEF Surjection
  <1> QED
    BY <1>1, <1>2, FS_Surjection

LEMMA SpacedPrefix ==
    ASSUME NEW s \in Seq(Attempts), NEW n \in Attempts, Spaced(Append(s, n))
    PROVE  Spaced(s)
  <1> SUFFICES ASSUME NEW i \in DOMAIN s, NEW j \in DOMAIN s, i < j, s[i] = s[j]
               PROVE  Cardinality({s[k] : k \in (i+1)..(j-1)}) >= MaxCache
    BY DEF Spaced
  <1> DEFINE a == Append(s, n)
  <1>1. /\ i \in 1..Len(s) /\ j \in 1..Len(s) /\ Len(s) \in Nat
        /\ a \in Seq(Attempts) /\ Len(a) = Len(s) + 1 /\ DOMAIN a = 1..Len(a)
        /\ \A k \in 1..Len(s) : a[k] = s[k]
    OBVIOUS
  <1>2. Cardinality({a[k] : k \in (i+1)..(j-1)}) >= MaxCache
    BY <1>1 DEF Spaced
  <1>3. {a[k] : k \in (i+1)..(j-1)} = {s[k] : k \in (i+1)..(j-1)}
    BY <1>1
  <1> QED
    BY <1>2, <1>3

\* What the cache has forgotten may be written again: all that the cache holds was
\* written since.
LEMMA SpacedAppend ==
    ASSUME NEW s \in Seq(Attempts), NEW n \in Attempts, NEW c \in Seq(Attempts),
           Spaced(s), IsTail(c, s), n \notin ToSet(c)
    PROVE  Spaced(Append(s, n))
  <1> DEFINE a == Append(s, n)
  <1> SUFFICES ASSUME NEW i \in DOMAIN a, NEW j \in DOMAIN a, i < j, a[i] = a[j]
               PROVE  Cardinality({a[k] : k \in (i+1)..(j-1)}) >= MaxCache
    BY DEF Spaced
  <1>1. /\ i \in 1..(Len(s) + 1) /\ j \in 1..(Len(s) + 1) /\ Len(s) \in Nat /\ Len(c) \in Nat
        /\ \A k \in 1..Len(s) : a[k] = s[k]
        /\ a[Len(s) + 1] = n /\ DOMAIN s = 1..Len(s) /\ DOMAIN c = 1..Len(c)
    OBVIOUS
  <1>2. CASE j <= Len(s)
    <2>1. i \in DOMAIN s /\ j \in DOMAIN s /\ s[i] = s[j]
      BY <1>1, <1>2
    <2>2. Cardinality({s[k] : k \in (i+1)..(j-1)}) >= MaxCache
      BY <2>1 DEF Spaced
    <2>3. {a[k] : k \in (i+1)..(j-1)} = {s[k] : k \in (i+1)..(j-1)}
      BY <1>1, <1>2
    <2> QED
      BY <2>2, <2>3
  <1>3. CASE j = Len(s) + 1
    <2> DEFINE T == {a[k] : k \in (i+1)..(j-1)}
    <2>1. s[i] = n /\ i \in 1..Len(s)
      BY <1>1, <1>3
    <2>2. /\ Distinct(c) /\ Len(c) <= Len(s) /\ (Len(s) > Len(c) => Len(c) = MaxCache)
          /\ \A k \in 1..Len(c) : c[k] = s[Len(s) - Len(c) + k]
      BY DEF IsTail
    <2>3. i <= Len(s) - Len(c)
      <3> SUFFICES ASSUME i > Len(s) - Len(c) PROVE FALSE
        BY <1>1, <2>1
      <3>1. i - (Len(s) - Len(c)) \in 1..Len(c)
        BY <1>1, <2>1, <2>2
      <3>2. Len(s) - Len(c) + (i - (Len(s) - Len(c))) = i
        BY <1>1, <2>1
      <3>3. c[i - (Len(s) - Len(c))] = n
        BY <2>1, <2>2, <3>1, <3>2
      <3> QED
        BY <1>1, <3>1, <3>3 DEF ToSet
    <2>4. Len(c) = MaxCache
      BY <1>1, <2>1, <2>2, <2>3
    <2>5. ASSUME NEW k \in 1..Len(c) PROVE c[k] \in T
      <3>1. Len(s) - Len(c) + k \in (i+1)..(j-1) /\ Len(s) - Len(c) + k \in 1..Len(s)
        BY <1>1, <1>3, <2>2, <2>3
      <3>2. c[k] = a[Len(s) - Len(c) + k]
        BY <1>1, <2>2, <3>1
      <3> QED
        BY <3>1, <3>2
    <2>6. IsFiniteSet(T)
      <3>1. i + 1 \in Int /\ j - 1 \in Int
        BY <1>1
      <3> HIDE DEF a
      <3> QED
        BY <3>1, BetweenIsFinite
    <2> HIDE DEF T
    <2>7. Cardinality(T) >= Len(c)
      BY <2>2, <2>5, <2>6, DistinctMembers
    <2> QED
      BY <2>4, <2>7 DEF T
  <1>4. j <= Len(s) \/ j = Len(s) + 1
    BY <1>1
  <1> QED
    BY <1>2, <1>3, <1>4

\* The cache stays the end of what was handed over when a delivery is reserved.
LEMMA TailAppend ==
    ASSUME NEW s \in Seq(Attempts), NEW n \in Attempts, NEW c \in Seq(Attempts),
           IsTail(c, s), n \notin ToSet(c)
    PROVE  IsTail(Kept(Append(c, n)), Append(s, n))
  <1> DEFINE a == Append(s, n)
             q == Append(c, n)
             r == Kept(q)
  <1>1. /\ Len(s) \in Nat /\ Len(c) \in Nat /\ DOMAIN c = 1..Len(c)
        /\ a \in Seq(Attempts) /\ q \in Seq(Attempts)
        /\ Len(a) = Len(s) + 1 /\ Len(q) = Len(c) + 1
        /\ \A k \in 1..Len(s) : a[k] = s[k]
        /\ \A k \in 1..Len(c) : q[k] = c[k]
        /\ a[Len(s) + 1] = n /\ q[Len(c) + 1] = n
    OBVIOUS
  <1>2. /\ Distinct(c) /\ Len(c) <= Len(s) /\ Len(c) <= MaxCache
        /\ Len(s) > Len(c) => Len(c) = MaxCache
        /\ \A k \in 1..Len(c) : c[k] = s[Len(s) - Len(c) + k]
    BY DEF IsTail
  <1>3. \A i, j \in 1..Len(q) : q[i] = q[j] => i = j
    <2> SUFFICES ASSUME NEW i \in 1..Len(q), NEW j \in 1..Len(q), q[i] = q[j] PROVE i = j
      OBVIOUS
    <2>1. \A k \in 1..Len(c) : c[k] # n
      BY <1>1 DEF ToSet
    <2>2. CASE i \in 1..Len(c) /\ j \in 1..Len(c)
      BY <1>1, <1>2, <2>2 DEF Distinct
    <2>3. CASE i = Len(c) + 1 \/ j = Len(c) + 1
      BY <1>1, <2>1, <2>3
    <2> QED
      BY <1>1, <2>2, <2>3
  <1>4. /\ r \in Seq(Attempts)
        /\ Len(r) = IF Len(q) > MaxCache THEN MaxCache ELSE Len(q)
        /\ \A i \in 1..Len(r) : r[i] = q[Len(q) - Len(r) + i]
    BY <1>1, KeptIsEnd
  <1> HIDE DEF r, q, a
  <1>5. MaxCache \in Nat /\ MaxCache > 0
    BY Constants
  <1>6. Len(r) \in Nat /\ Len(r) <= Len(q) /\ Len(r) <= MaxCache /\ DOMAIN r = 1..Len(r)
    BY <1>1, <1>4, <1>5
  <1>7. Distinct(r)
    <2> SUFFICES ASSUME NEW i \in 1..Len(r), NEW j \in 1..Len(r), r[i] = r[j] PROVE i = j
      BY <1>6 DEF Distinct
    <2>1. /\ Len(q) - Len(r) + i \in 1..Len(q) /\ Len(q) - Len(r) + j \in 1..Len(q)
      BY <1>1, <1>6
    <2>2. Len(q) - Len(r) + i = Len(q) - Len(r) + j
      BY <1>3, <1>4, <2>1
    <2> QED
      BY <1>1, <1>6, <2>2
  <1>8. Len(r) <= Len(a) /\ (Len(a) > Len(r) => Len(r) = MaxCache)
    <2>1. /\ Len(c) \in Nat /\ Len(s) \in Nat /\ Len(a) = Len(s) + 1 /\ Len(q) = Len(c) + 1
          /\ Len(c) <= Len(s) /\ (Len(s) > Len(c) => Len(c) = MaxCache)
      BY <1>1, <1>2
    <2>2. CASE Len(q) > MaxCache
      <3>1. Len(r) = MaxCache
        BY <1>4, <2>2
      <3> QED
        BY <1>5, <1>6, <2>1, <3>1
    <2>3. CASE ~(Len(q) > MaxCache)
      <3>1. Len(r) = Len(q)
        BY <1>4, <2>3
      <3> QED
        BY <1>5, <2>1, <2>3, <3>1
    <2> QED
      BY <2>2, <2>3
  <1>9. ASSUME NEW i \in 1..Len(r) PROVE r[i] = a[Len(a) - Len(r) + i]
    <2> DEFINE p == Len(q) - Len(r) + i
    <2>1. p \in 1..Len(q) /\ r[i] = q[p] /\ Len(a) - Len(r) + i = Len(a) - Len(q) + p
      <3>1. Len(q) \in Nat /\ Len(a) \in Nat /\ Len(r) \in Nat /\ Len(r) <= Len(q)
        BY <1>1, <1>6
      <3>2. p \in 1..Len(q) /\ Len(a) - Len(r) + i = Len(a) - Len(q) + p
        BY <3>1
      <3> QED
        BY <1>4, <3>2
    <2> HIDE DEF p
    <2>2. CASE p = Len(q)
      BY <1>1, <2>1, <2>2
    <2>3. CASE p \in 1..Len(c)
      <3>1. q[p] = s[Len(s) - Len(c) + p] /\ Len(s) - Len(c) + p \in 1..Len(s)
        BY <1>1, <1>2, <2>3
      <3>2. Len(a) - Len(q) + p = Len(s) - Len(c) + p
        BY <1>1, <2>1
      <3> QED
        BY <1>1, <2>1, <3>1, <3>2
    <2> QED
      BY <1>1, <2>1, <2>2, <2>3
  <1> QED
    BY <1>6, <1>7, <1>8, <1>9 DEF IsTail, a, q, r

------------------------------------------------------------------------------
(* A request that was sent stays one, of the launch that it was sent to.    *)

AttemptsStay ==
    \A n \in Attempts : attempt[n] # None =>
        attempt'[n] # None /\ attempt'[n].launch = attempt[n].launch

LEMMA RequestsAreSent == Request \cap {None} = {}
BY Constants DEF Request, Generations

LEMMA RequestsStay ==
    ASSUME TypeOK, [Next]_vars
    PROVE  AttemptsStay
  <1>1. CASE UNCHANGED attempt
    BY <1>1 DEF AttemptsStay
  <1>2. ASSUME NEW n \in Attempts, Dispatch(n) PROVE AttemptsStay
    BY <1>2 DEF Dispatch, AttemptsStay, TypeOK
  <1>3. ASSUME NEW l \in Launches, NEW n \in Attempts, Arrived(l, n), attempt' = Took(n)
        PROVE  AttemptsStay
    <2>1. attempt[n] # None /\ attempt[n].copies > 0
      BY <1>3 DEF Arrived
    <2>2. /\ attempt[n] \in Request /\ [attempt[n] EXCEPT !.copies = @ - 1] \in Request
      BY <2>1, TakenTypes
    <2>3. [attempt[n] EXCEPT !.copies = @ - 1].launch = attempt[n].launch
      BY <2>2 DEF Request
    <2>4. attempt' = [attempt EXCEPT ![n] = [attempt[n] EXCEPT !.copies = @ - 1]]
      BY <1>3 DEF Took, TypeOK
    <2>5. attempt'[n] = [attempt[n] EXCEPT !.copies = @ - 1]
      BY <2>4 DEF TypeOK
    <2>6. \A m \in Attempts \ {n} : attempt'[m] = attempt[m]
      BY <2>4 DEF TypeOK
    <2> QED
      BY <2>2, <2>3, <2>5, <2>6, RequestsAreSent DEF AttemptsStay
  <1>4. ASSUME NEW l \in Launches, Exit(l) PROVE AttemptsStay
    <2> SUFFICES ASSUME NEW n \in Attempts, attempt[n] # None
                 PROVE  attempt'[n] # None /\ attempt'[n].launch = attempt[n].launch
      BY DEF AttemptsStay
    <2>1. attempt[n] \in Request /\ [attempt[n] EXCEPT !.copies = 0] \in Request
      BY TakenTypes
    <2>2. [attempt[n] EXCEPT !.copies = 0].launch = attempt[n].launch
      BY <2>1 DEF Request
    <2>3. attempt'[n] = attempt[n] \/ attempt'[n] = [attempt[n] EXCEPT !.copies = 0]
      BY <1>4 DEF Exit
    <2> QED
      BY <2>1, <2>2, <2>3, RequestsAreSent
  <1>5. \/ UNCHANGED attempt \/ (\E n \in Attempts : Dispatch(n)) \/ (\E l \in Launches : Exit(l))
        \/ \E l \in Launches, n \in Attempts : Arrived(l, n) /\ attempt' = Took(n)
    <2>1. ASSUME NEW l \in Launches, UnderLock(l)
          PROVE  UNCHANGED attempt \/ \E n \in Attempts : Arrived(l, n) /\ attempt' = Took(n)
      BY <2>1 DEF UnderLock, SessionStart, Opened, OpenFailed, Renew, SessionEnd, EndNotCurrent,
                  WakeEcho, WakeRefused, WakeKnown, WakeReserved, WriteDone, WriteFailed,
                  StopLocked
    <2>2. ASSUME NEW l \in Launches,
                 \/ RegisterHostSession(l)
                 \/ SessionLapse(l) \/ Initialized(l) \/ PipeBreaks(l) \/ Stop(l)
                 \/ (\E s \in SessionsOf[l] : EndHook(l, s)) \/ EndFallback(l)
          PROVE  UNCHANGED attempt
      BY <2>2 DEF RegisterHostSession, SessionLapse, Initialized, PipeBreaks, Stop, EndHook,
                  EndFallback
    <2> QED
      BY <2>1, <2>2 DEF Next, DaemonLapse, vars
  <1> QED
    BY <1>1, <1>2, <1>3, <1>4, <1>5

\* The step is of launch l, as far as deliveries are concerned.
OthersDeliver(l) ==
    \A m \in Launches \ {l} : channel'[m] = channel[m] /\ pipe'[m] = pipe[m]

\* A process that has handed over what it had, and remembers it as before.
LEMMA DeliveriesStay ==
    ASSUME TypeOK, NEW m \in Launches, CacheOf(m), OutstandingOf(m), AttemptsStay,
           Handed(m)' = Handed(m), channel'[m].cache = channel[m].cache,
           channel'[m].outstanding \subseteq channel[m].outstanding,
           Working(m)' => Working(m)
    PROVE  CacheOf(m)' /\ OutstandingOf(m)'
  <1>1. channel[m].outstanding \subseteq Attempts
    BY DEF TypeOK, Process
  <1>2. CacheOf(m)'
    BY DEF CacheOf
  <1>3. OutstandingOf(m)'
    BY <1>1 DEF OutstandingOf, AttemptsStay
  <1> QED
    BY <1>2, <1>3

LEMMA DeliveryStep ==
    ASSUME DeliveryInv, TypeOK, NEW l \in Launches, OthersDeliver(l), AttemptsStay,
           CacheOf(l)', OutstandingOf(l)', ToSet(pipe[l]) \subseteq ToSet(pipe'[l]),
           \A n \in attested' : \/ n \in attested
                                \/ attempt'[n] # None /\ n \in ToSet(pipe'[attempt'[n].launch])
    PROVE  DeliveryInv'
  <1>1. ASSUME NEW m \in Launches \ {l} PROVE CacheOf(m)' /\ OutstandingOf(m)'
    <2>1. channel'[m] = channel[m] /\ pipe'[m] = pipe[m]
      BY DEF OthersDeliver
    <2>2. Handed(m)' = Handed(m) /\ (Working(m)' => Working(m))
      BY <2>1 DEF Handed, Working, Writing
    <2> QED
      BY <2>1, <2>2, DeliveriesStay DEF DeliveryInv
  <1>2. \A m \in Launches : ToSet(pipe[m]) \subseteq ToSet(pipe'[m])
    BY DEF OthersDeliver
  <1>3. ASSUME NEW n \in attested'
        PROVE  attempt'[n] # None /\ n \in ToSet(pipe'[attempt'[n].launch])
    <2>1. CASE n \in attested
      <3>1. n \in Attempts /\ attempt[n] # None /\ n \in ToSet(pipe[attempt[n].launch])
        BY <2>1 DEF DeliveryInv, EvidenceIsEarned, TypeOK
      <3>2. attempt'[n] # None /\ attempt'[n].launch = attempt[n].launch
        BY <3>1 DEF AttemptsStay
      <3>3. attempt[n].launch \in Launches
        BY <3>1, TakenTypes DEF Request
      <3> QED
        BY <1>2, <3>1, <3>2, <3>3
    <2> QED
      BY <2>1
  <1> QED
    BY <1>1, <1>3 DEF DeliveryInv, EvidenceIsEarned

LEMMA PipeGrowsNot ==
    ASSUME NEW l, pipe'[l] = pipe[l]
    PROVE  ToSet(pipe[l]) \subseteq ToSet(pipe'[l])
OBVIOUS

\* A step without a delivery.
LEMMA CalmStep ==
    ASSUME DeliveryInv, TypeOK, NEW l \in Launches, OthersDeliver(l), AttemptsStay,
           pipe'[l] = pipe[l], attested' = attested,
           channel'[l].cache = channel[l].cache,
           channel'[l].outstanding \subseteq channel[l].outstanding,
           channel'[l].up = channel[l].up,
           channel[l].mcp = "broken" => channel'[l].mcp = "broken",
           channel'[l].busy = channel[l].busy \/ (~Writing(l) /\ ~Writing(l)')
    PROVE  DeliveryInv'
  <1>1. (Writing(l)' <=> Writing(l)) /\ (Writing(l) => channel'[l].busy = channel[l].busy)
    BY DEF Writing
  <1>2. Handed(l)' = Handed(l)
    BY <1>1 DEF Handed
  <1>3. Working(l)' => Working(l)
    BY <1>1 DEF Working
  <1>4. CacheOf(l) /\ OutstandingOf(l)
    BY DEF DeliveryInv
  <1>5. CacheOf(l)' /\ OutstandingOf(l)'
    BY <1>2, <1>3, <1>4, DeliveriesStay
  <1> QED
    BY <1>5, DeliveryStep, PipeGrowsNot

LEMMA IdleDeliveries ==
    ASSUME DeliveryInv, TypeOK, AttemptsStay, UNCHANGED <<channel, pipe, attested>>
    PROVE  DeliveryInv'
  <1>1. ASSUME NEW m \in Launches PROVE CacheOf(m)' /\ OutstandingOf(m)'
    <2>1. Handed(m)' = Handed(m) /\ (Working(m)' => Working(m))
      BY DEF Handed, Working, Writing
    <2> QED
      BY <2>1, DeliveriesStay DEF DeliveryInv
  <1>2. ASSUME NEW n \in attested PROVE attempt'[n] # None /\ n \in ToSet(pipe'[attempt'[n].launch])
    BY <1>2 DEF AttemptsStay, DeliveryInv, EvidenceIsEarned, TypeOK
  <1> QED
    BY <1>1, <1>2 DEF DeliveryInv, EvidenceIsEarned

LEMMA CalmDeliveries ==
    ASSUME DeliveryInv, LeaseInv, AttemptsStay, NEW l \in Launches,
           \/ RegisterHostSession(l) \/ SessionStart(l) \/ OpenFailed(l) \/ SessionLapse(l)
           \/ Renew(l) \/ SessionEnd(l) \/ StopLocked(l)
           \/ Initialized(l) \/ PipeBreaks(l) \/ Stop(l)
           \/ \E n \in Attempts : WakeRefused(l, n)
    PROVE  DeliveryInv'
  <1> DEFINE c == channel[l]
  <1>0. TypeOK /\ c \in Process /\ Fenced(c) \in Process
    BY ProcessRows DEF LeaseInv, TypeOK
  <1>1. pipe' = pipe /\ attested' = attested
    BY DEF RegisterHostSession, SessionStart, OpenFailed, SessionLapse, Renew, SessionEnd,
           StopLocked, Initialized, PipeBreaks, Stop, WakeRefused, history
  <1>2. ASSUME NEW d, channel' = [channel EXCEPT ![l] = d], d.cache = c.cache,
               d.outstanding \subseteq c.outstanding, d.up = c.up,
               c.mcp = "broken" => d.mcp = "broken",
               d.busy # c.busy => ~Writing(l) /\ (d.busy = None \/ d.busy.op = "open")
        PROVE  DeliveryInv'
    <2>1. channel'[l] = d /\ OthersDeliver(l)
      BY <1>0, <1>1, <1>2 DEF TypeOK, OthersDeliver
    <2>2. channel'[l].busy = channel[l].busy \/ (~Writing(l) /\ ~Writing(l)')
      <3>1. CASE d.busy = c.busy
        BY <2>1, <3>1
      <3>2. CASE d.busy # c.busy
        <4>1. ~Writing(l) /\ (d.busy = None \/ d.busy.op = "open")
          BY <1>2, <3>2
        <4> QED
          BY <2>1, <4>1 DEF Writing
      <3> QED
        BY <3>1, <3>2
    <2> QED
      BY <1>0, <1>1, <1>2, <2>1, <2>2, CalmStep
  <1>3. ASSUME channel' = [channel EXCEPT ![l] = Fenced(c)] PROVE DeliveryInv'
    <2>1. /\ Fenced(c).busy = c.busy /\ Fenced(c).cache = c.cache /\ Fenced(c).outstanding = {}
          /\ Fenced(c).up = c.up /\ Fenced(c).mcp = c.mcp
      BY <1>0, FencedFields
    <2> HIDE DEF c
    <2>2. /\ Fenced(c).outstanding \subseteq c.outstanding
          /\ c.mcp = "broken" => Fenced(c).mcp = "broken"
      BY <2>1
    <2> QED
      BY <1>2, <1>3, <2>1, <2>2, Zenon
  <1>4. CASE RegisterHostSession(l)
    <2>1. channel' = [channel EXCEPT ![l] = [c EXCEPT !.busy.granted = binding.gen + 1]]
      BY <1>0, <1>4 DEF RegisterHostSession, TypeOK
    <2>2. c.busy \in [op: {"open"}, session: Sessions, granted: Generations] /\ ~Writing(l)
      BY <1>0, <1>4, LeaseNumbers DEF RegisterHostSession, Writing
    <2> DEFINE d == [c EXCEPT !.busy.granted = binding.gen + 1]
    <2>3. /\ d.cache = c.cache /\ d.outstanding = c.outstanding /\ d.up = c.up
          /\ d.mcp = c.mcp /\ d.busy.op = "open"
      BY <1>0, <2>2 DEF Process
    <2> HIDE DEF c, d
    <2> QED
      BY <1>2, <2>1, <2>2, <2>3 DEF d
  <1>5. CASE SessionStart(l)
    <2> PICK s \in StartPosted(l) :
           channel' = [channel EXCEPT ![l].late = FALSE,
                         ![l].busy = [op |-> "open", session |-> s, granted |-> 0]]
      BY <1>5 DEF SessionStart
    <2> DEFINE o == [op |-> "open", session |-> s, granted |-> 0]
               d == [c EXCEPT !.late = FALSE, !.busy = o]
    <2>1. channel' = [channel EXCEPT ![l] = d] /\ o.op = "open"
      BY <1>0 DEF TypeOK
    <2>2. ~Writing(l)
      BY <1>5 DEF SessionStart, Unlocked, Writing
    <2> HIDE DEF o
    <2>3. /\ d.cache = c.cache /\ d.outstanding = c.outstanding /\ d.up = c.up
          /\ d.mcp = c.mcp /\ d.busy = o
      BY <1>0 DEF Process
    <2> HIDE DEF c, d
    <2> QED
      BY <1>2, <2>1, <2>2, <2>3
  <1>6. CASE OpenFailed(l)
    <2> DEFINE d == [c EXCEPT !.busy = None]
    <2>1. channel' = [channel EXCEPT ![l] = d] /\ ~Writing(l)
      BY <1>0, <1>6, LeaseNumbers DEF OpenFailed, Writing, TypeOK
    <2>2. /\ d.cache = c.cache /\ d.outstanding = c.outstanding /\ d.up = c.up
          /\ d.mcp = c.mcp /\ d.busy = None
      BY <1>0 DEF Process
    <2> HIDE DEF c, d
    <2> QED
      BY <1>2, <2>1, <2>2
  <1>7. CASE SessionLapse(l)
    <2> DEFINE d == [c EXCEPT !.session.fresh = FALSE]
    <2>1. channel' = [channel EXCEPT ![l] = d]
      BY <1>0, <1>7 DEF SessionLapse, TypeOK
    <2>2. /\ d.cache = c.cache /\ d.outstanding = c.outstanding /\ d.up = c.up
          /\ d.mcp = c.mcp /\ d.busy = c.busy
      BY <1>0 DEF Process
    <2> HIDE DEF c, d
    <2>3. d.outstanding \subseteq c.outstanding /\ (c.mcp = "broken" => d.mcp = "broken")
      BY <2>2
    <2> QED
      BY <1>2, <2>1, <2>2, <2>3, Zenon
  <1>8. CASE Renew(l)
    <2> DEFINE d == [c EXCEPT !.session.fresh = TRUE]
    <2>1. channel' = [channel EXCEPT ![l] = d] \/ channel' = [channel EXCEPT ![l] = Fenced(c)]
      BY <1>0, <1>8 DEF Renew, TypeOK
    <2>2. /\ d.cache = c.cache /\ d.outstanding = c.outstanding /\ d.up = c.up
          /\ d.mcp = c.mcp /\ d.busy = c.busy
      BY <1>0 DEF Process
    <2> HIDE DEF c, d
    <2>3. d.outstanding \subseteq c.outstanding /\ (c.mcp = "broken" => d.mcp = "broken")
      BY <2>2
    <2> QED
      BY <1>2, <1>3, <2>1, <2>2, <2>3, Zenon
  <1>9. CASE SessionEnd(l) \/ StopLocked(l)
    <2>1. CASE SessionEnd(l)
      <3>1. channel' = [channel EXCEPT ![l] = Fenced(c)]
        BY <2>1 DEF SessionEnd, CloseCurrent
      <3> QED
        BY <1>3, <3>1
    <2>2. CASE StopLocked(l)
      <3> DEFINE b == [c EXCEPT !.stopping = "closed"]
                 d == [c EXCEPT !.stopping = "closed", !.renewing = FALSE]
      <3>1. \/ channel' = [channel EXCEPT ![l] = Fenced(b)]
            \/ channel' = [channel EXCEPT ![l] = d]
        BY <1>0, <2>2 DEF StopLocked, CloseCurrent, TypeOK
      <3>2. b \in Process
        BY <1>0 DEF Process
      <3>3. /\ b.cache = c.cache /\ b.outstanding = c.outstanding /\ b.up = c.up
            /\ b.mcp = c.mcp /\ b.busy = c.busy
            /\ d.cache = c.cache /\ d.outstanding = c.outstanding /\ d.up = c.up
            /\ d.mcp = c.mcp /\ d.busy = c.busy
        BY <1>0 DEF Process
      <3> HIDE DEF c, b, d
      <3>4. /\ Fenced(b).busy = b.busy /\ Fenced(b).cache = b.cache /\ Fenced(b).outstanding = {}
            /\ Fenced(b).up = b.up /\ Fenced(b).mcp = b.mcp
        BY <3>2, FencedFields
      <3>5. /\ Fenced(b).busy = c.busy /\ Fenced(b).cache = c.cache /\ Fenced(b).up = c.up
            /\ Fenced(b).outstanding \subseteq c.outstanding
            /\ c.mcp = "broken" => Fenced(b).mcp = "broken"
            /\ d.outstanding \subseteq c.outstanding
            /\ c.mcp = "broken" => d.mcp = "broken"
        BY <3>3, <3>4
      <3> QED
        BY <1>2, <3>1, <3>3, <3>5, Zenon
    <2> QED
      BY <1>9, <2>1, <2>2
  <1>10. CASE Initialized(l) \/ PipeBreaks(l)
    <2>1. PICK s : /\ channel' = [channel EXCEPT ![l].mcp = s]
                   /\ c.mcp = "broken" => s = "broken"
      BY <1>10 DEF Initialized, PipeBreaks
    <2> DEFINE d == [c EXCEPT !.mcp = s]
    <2>2. channel' = [channel EXCEPT ![l] = d]
      BY <1>0, <2>1 DEF TypeOK
    <2>3. /\ d.cache = c.cache /\ d.outstanding = c.outstanding /\ d.up = c.up
          /\ d.mcp = s /\ d.busy = c.busy
      BY <1>0 DEF Process
    <2> HIDE DEF c, d
    <2>4. d.outstanding \subseteq c.outstanding /\ (c.mcp = "broken" => d.mcp = "broken")
      BY <2>1, <2>3
    <2> QED
      BY <1>2, <2>2, <2>3, <2>4, Zenon
  <1>11. CASE Stop(l)
    <2>1. PICK late : channel' = [channel EXCEPT ![l].stopping = "queued", ![l].late = late]
      BY <1>11 DEF Stop
    <2> DEFINE d == [c EXCEPT !.stopping = "queued", !.late = late]
    <2>2. channel' = [channel EXCEPT ![l] = d]
      BY <1>0, <2>1 DEF TypeOK
    <2>3. /\ d.cache = c.cache /\ d.outstanding = c.outstanding /\ d.up = c.up
          /\ d.mcp = c.mcp /\ d.busy = c.busy
      BY <1>0 DEF Process
    <2> HIDE DEF c, d
    <2>4. d.outstanding \subseteq c.outstanding /\ (c.mcp = "broken" => d.mcp = "broken")
      BY <2>3
    <2> QED
      BY <1>2, <2>2, <2>3, <2>4, Zenon
  <1>12. CASE \E n \in Attempts : WakeRefused(l, n)
    <2>1. channel' = channel \/ channel' = [channel EXCEPT ![l] = Fenced(c)]
      BY <1>12 DEF WakeRefused
    <2> QED
      BY <1>0, <1>1, <1>3, <2>1, IdleDeliveries
  <1> QED
    BY <1>4, <1>5, <1>6, <1>7, <1>8, <1>9, <1>10, <1>11, <1>12

LEMMA AppendMembers ==
    ASSUME NEW s \in Seq(Attempts), NEW n \in Attempts
    PROVE  Append(s, n) \in Seq(Attempts) /\ ToSet(Append(s, n)) = ToSet(s) \cup {n}
  <1>1. /\ Len(s) \in Nat /\ DOMAIN s = 1..Len(s)
        /\ Append(s, n) \in Seq(Attempts) /\ DOMAIN Append(s, n) = 1..(Len(s) + 1)
        /\ \A i \in 1..Len(s) : Append(s, n)[i] = s[i]
        /\ Append(s, n)[Len(s) + 1] = n
    OBVIOUS
  <1>2. 1..(Len(s) + 1) = 1..Len(s) \cup {Len(s) + 1}
    BY <1>1
  <1> QED
    BY <1>1, <1>2 DEF ToSet

\* A delivery is reserved: what the cache forgets then is the oldest, and what it did
\* not remember may be written.
LEMMA WakeDeliveries ==
    ASSUME DeliveryInv, LeaseInv, AttemptsStay, NEW l \in Launches, NEW n \in Attempts,
           WakeReserved(l, n)
    PROVE  DeliveryInv'
  <1> DEFINE q == Append(channel[l].cache, n)
             c == channel'[l]
  <1>0. TypeOK /\ channel[l] \in Process /\ channel[l].cache \in Seq(Attempts)
        /\ pipe[l] \in Seq(Attempts)
    BY DEF LeaseInv, TypeOK, Process
  <1>1. /\ channel[l].up /\ channel[l].busy = None /\ ~Writing(l)
        /\ channel[l].mcp = "ready" /\ n \notin ToSet(channel[l].cache)
        /\ attempt[n] # None /\ attempt[n].launch = l
    BY DEF WakeReserved, Arrived, Accepts, Unlocked, Writing
  <1>2. pipe' = pipe /\ attested' = attested
    BY DEF WakeReserved, history
  <1>3. OthersDeliver(l)
    BY <1>0, <1>2 DEF WakeReserved, OthersDeliver, TypeOK
  <1>4. /\ c.busy = [op |-> "write", nonce |-> n] /\ c.cache = Kept(q)
        /\ c.outstanding = (channel[l].outstanding \cup {n}) \cap ToSet(Kept(q))
        /\ c.up /\ c.mcp = "ready"
    BY <1>0, <1>1 DEF WakeReserved, TypeOK, Process
  <1>5. c.busy # None
    BY <1>4, Constants
  <1>6. Writing(l)' /\ Handed(l)' = Append(pipe[l], n) /\ Handed(l) = pipe[l]
    BY <1>1, <1>2, <1>4, <1>5 DEF Writing, Handed
  <1>7. CacheOf(l) /\ OutstandingOf(l) /\ Working(l)
    BY <1>1 DEF DeliveryInv, Working
  <1>8. Spaced(pipe[l]) /\ IsTail(channel[l].cache, pipe[l])
        /\ ToSet(channel[l].cache) \subseteq ToSet(pipe[l])
    BY <1>6, <1>7 DEF CacheOf
  <1>9. Spaced(Append(pipe[l], n)) /\ IsTail(Kept(q), Append(pipe[l], n))
    BY <1>0, <1>1, <1>8, SpacedAppend, TailAppend
  <1>10. /\ q \in Seq(Attempts) /\ Append(pipe[l], n) \in Seq(Attempts)
         /\ ToSet(Kept(q)) \subseteq ToSet(q)
         /\ ToSet(q) = ToSet(channel[l].cache) \cup {n}
         /\ ToSet(Append(pipe[l], n)) = ToSet(pipe[l]) \cup {n}
    <2>1. \A s \in Seq(Attempts) : /\ Append(s, n) \in Seq(Attempts)
                                   /\ ToSet(Append(s, n)) = ToSet(s) \cup {n}
      BY AppendMembers
    <2>2. q \in Seq(Attempts)
      BY <1>0, <2>1
    <2> DEFINE r == Kept(q)
    <2>3. /\ r \in Seq(Attempts) /\ Len(r) = IF Len(q) > MaxCache THEN MaxCache ELSE Len(q)
          /\ \A i \in 1..Len(r) : r[i] = q[Len(q) - Len(r) + i]
      BY <2>2, KeptIsEnd
    <2>4. ToSet(r) \subseteq ToSet(q)
      <3> HIDE DEF q, r
      <3>1. \A i \in 1..Len(r) : Len(q) - Len(r) + i \in 1..Len(q)
        BY <2>2, <2>3, Constants
      <3> QED
        BY <2>2, <2>3, <3>1 DEF ToSet
    <2> QED
      BY <1>0, <2>1, <2>2, <2>4
  <1> HIDE DEF q, c
  <1>11. CacheOf(l)'
    <2>1. ToSet(c.cache) \subseteq ToSet(Append(pipe[l], n))
      BY <1>4, <1>8, <1>10
    <2> QED
      BY <1>4, <1>6, <1>9, <2>1 DEF CacheOf, c
  <1>12. OutstandingOf(l)'
    <2> SUFFICES ASSUME NEW m \in c.outstanding
                 PROVE  /\ attempt'[m] # None /\ attempt'[m].launch = l
                        /\ m \in ToSet(Append(pipe[l], n))
      BY <1>6 DEF OutstandingOf, c
    <2>1. m \in channel[l].outstanding \/ m = n
      BY <1>4
    <2>2. attempt[m] # None /\ attempt[m].launch = l /\ m \in Attempts
      BY <1>0, <1>1, <1>7, <2>1 DEF OutstandingOf, Process
    <2>3. m \in ToSet(Append(pipe[l], n))
      BY <1>4, <1>8, <1>10
    <2> QED
      BY <2>2, <2>3 DEF AttemptsStay
  <1> QED
    BY <1>0, <1>2, <1>3, <1>11, <1>12, DeliveryStep, PipeGrowsNot

LEMMA WriteDeliveries ==
    ASSUME DeliveryInv, LeaseInv, AttemptsStay, NEW l \in Launches,
           WriteDone(l) \/ WriteFailed(l)
    PROVE  DeliveryInv'
  <1> DEFINE c == channel'[l]
             n == channel[l].busy.nonce
  <1>0. TypeOK /\ channel[l] \in Process /\ channel[l].cache \in Seq(Attempts)
        /\ pipe[l] \in Seq(Attempts)
    BY DEF LeaseInv, TypeOK, Process
  <1>1. /\ Writing(l) /\ n \in Attempts /\ attested' = attested
        /\ Handed(l) = Append(pipe[l], n)
    BY <1>0 DEF WriteDone, WriteFailed, Writing, Handed, Process, Operation
  <1>2. CacheOf(l) /\ OutstandingOf(l)
    BY DEF DeliveryInv
  <1>3. /\ Append(pipe[l], n) \in Seq(Attempts)
        /\ ToSet(Append(pipe[l], n)) = ToSet(pipe[l]) \cup {n}
    BY <1>0, <1>1, AppendMembers
  <1>4. c.busy = None /\ OthersDeliver(l)
    BY <1>0 DEF WriteDone, WriteFailed, OthersDeliver, Notified, TypeOK, Process
  <1>5. ~Writing(l)' /\ Handed(l)' = pipe'[l]
    BY <1>4 DEF Writing, Handed
  <1>6. pipe'[l] = pipe[l] \/ pipe'[l] = Append(pipe[l], n)
    BY <1>0 DEF WriteDone, WriteFailed, Notified, TypeOK
  <1>7. CASE WriteDone(l)
    <2>1. pipe'[l] = Append(pipe[l], n)
      BY <1>0, <1>7 DEF WriteDone, Notified, TypeOK
    <2>2. /\ c.cache = channel[l].cache /\ c.outstanding = channel[l].outstanding
          /\ c.up = channel[l].up /\ c.mcp = channel[l].mcp
      BY <1>0, <1>7 DEF WriteDone, TypeOK, Process
    <2>3. Handed(l)' = Handed(l) /\ (Working(l)' => Working(l))
      BY <1>1, <1>5, <2>1, <2>2 DEF Working
    <2>4. CacheOf(l)' /\ OutstandingOf(l)'
      BY <1>0, <1>2, <2>2, <2>3, DeliveriesStay
    <2>5. ToSet(pipe[l]) \subseteq ToSet(pipe'[l])
      BY <1>3, <2>1
    <2> HIDE DEF c, n
    <2> QED
      BY <1>0, <1>1, <1>4, <2>4, <2>5, DeliveryStep
  <1>8. CASE WriteFailed(l)
    <2>1. /\ c.cache = RemoveFirst(channel[l].cache, n)
          /\ c.outstanding = channel[l].outstanding \ {n} /\ c.mcp = "broken"
      BY <1>0, <1>8 DEF WriteFailed, TypeOK, Process
    <2> HIDE DEF c
    <2>2. ~Working(l)'
      BY <1>5, <2>1 DEF Working, c
    <2>3. Spaced(pipe'[l])
      <3>1. Spaced(Append(pipe[l], n))
        BY <1>1, <1>2 DEF CacheOf
      <3>2. Spaced(pipe[l])
        BY <1>0, <1>1, <3>1, SpacedPrefix
      <3> QED
        BY <1>6, <3>1, <3>2
    <2>4. ToSet(pipe[l]) \subseteq ToSet(pipe'[l])
      BY <1>3, <1>6
    <2>5. CacheOf(l)'
      <3>1. CASE Working(l)
        <4>1. Distinct(channel[l].cache)
          BY <1>2, <3>1 DEF CacheOf, IsTail
        <4>2. ToSet(c.cache) \subseteq ToSet(channel[l].cache) \ {n}
          BY <1>0, <2>1, <4>1, Removal
        <4>3. ToSet(c.cache) \subseteq ToSet(pipe'[l])
          BY <1>1, <1>2, <1>3, <2>4, <4>2 DEF CacheOf
        <4> QED
          BY <1>5, <2>2, <2>3, <4>3 DEF CacheOf, c
      <3>2. Working(l)
        BY <1>1 DEF Working
      <3> QED
        BY <3>1, <3>2
    <2>6. OutstandingOf(l)'
      <3> SUFFICES ASSUME NEW m \in c.outstanding
                   PROVE  /\ attempt'[m] # None /\ attempt'[m].launch = l /\ m \in ToSet(pipe'[l])
        BY <1>5 DEF OutstandingOf, c
      <3>1. m \in channel[l].outstanding /\ m # n /\ m \in Attempts
        BY <1>0, <2>1 DEF Process
      <3>2. attempt[m] # None /\ attempt[m].launch = l /\ m \in ToSet(Append(pipe[l], n))
        BY <1>1, <1>2, <3>1 DEF OutstandingOf
      <3>3. m \in ToSet(pipe'[l])
        BY <1>3, <2>4, <3>1, <3>2
      <3> QED
        BY <3>1, <3>2, <3>3 DEF AttemptsStay
    <2> QED
      BY <1>0, <1>1, <1>4, <2>4, <2>5, <2>6, DeliveryStep
  <1> QED
    BY <1>7, <1>8

\* The daemon accepts the echo of a nonce that is outstanding here, so that it was written.
LEMMA EchoDeliveries ==
    ASSUME DeliveryInv, LeaseInv, AttemptsStay, NEW l \in Launches, WakeEcho(l)
    PROVE  DeliveryInv'
  <1>0. TypeOK /\ channel[l] \in Process
    BY DEF LeaseInv, TypeOK
  <1>1. ~Writing(l) /\ channel[l].busy = None /\ pipe' = pipe
    BY DEF WakeEcho, Unlocked, Writing
  <1>2. PICK n \in channel[l].outstanding :
           /\ attested' = attested \/ attested' = attested \cup {n}
           /\ channel' = channel \/ channel' = [channel EXCEPT ![l].outstanding = @ \ {n}]
    BY DEF WakeEcho
  <1>3. /\ channel'[l].cache = channel[l].cache /\ channel'[l].busy = None
        /\ channel'[l].outstanding \subseteq channel[l].outstanding
        /\ channel'[l].up = channel[l].up /\ channel'[l].mcp = channel[l].mcp
    BY <1>0, <1>1, <1>2 DEF TypeOK, Process
  <1>4. OthersDeliver(l)
    BY <1>0, <1>1, <1>2 DEF OthersDeliver, TypeOK
  <1>5. Handed(l)' = Handed(l) /\ Handed(l) = pipe[l] /\ (Working(l)' => Working(l))
    BY <1>1, <1>3 DEF Handed, Working, Writing
  <1>6. CacheOf(l) /\ OutstandingOf(l)
    BY DEF DeliveryInv
  <1>7. CacheOf(l)' /\ OutstandingOf(l)'
    BY <1>0, <1>3, <1>5, <1>6, DeliveriesStay
  <1>8. attempt'[n] # None /\ attempt'[n].launch = l /\ n \in ToSet(pipe[l])
    <2>1. attempt[n] # None /\ attempt[n].launch = l /\ n \in ToSet(pipe[l]) /\ n \in Attempts
      BY <1>0, <1>5, <1>6 DEF OutstandingOf, Process
    <2> QED
      BY <2>1 DEF AttemptsStay
  <1>9. \A k \in attested' : \/ k \in attested
                             \/ attempt'[k] # None /\ k \in ToSet(pipe'[attempt'[k].launch])
    BY <1>1, <1>2, <1>8
  <1> QED
    BY <1>0, <1>1, <1>4, <1>7, <1>9, DeliveryStep, PipeGrowsNot

LEMMA NothingHanded ==
    /\ Spaced(<<>>) /\ IsTail(<<>>, <<>>) /\ ToSet(<<>>) = {}
  <1>1. DOMAIN <<>> = {} /\ Len(<<>>) = 0
    OBVIOUS
  <1>2. Spaced(<<>>)
    BY <1>1 DEF Spaced
  <1>3. IsTail(<<>>, <<>>)
    BY <1>1, Constants DEF IsTail, Distinct
  <1> QED
    BY <1>1, <1>2, <1>3 DEF ToSet

LEMMA OpenDeliveries ==
    ASSUME DeliveryInv, LeaseInv, AttemptsStay, NEW l \in Launches, Opened(l) \/ Exit(l)
    PROVE  DeliveryInv'
  <1>0. TypeOK /\ channel[l] \in Process /\ OpensOnce(l) /\ pipe[l] \in Seq(Attempts)
    BY DEF LeaseInv, TypeOK
  <1>1. pipe' = pipe /\ attested' = attested
    BY DEF Opened, Exit, history
  <1>2. channel'[l].cache = <<>> /\ channel'[l].outstanding = {} /\ channel'[l].busy = None
    <2>1. CASE Opened(l)
      <3> DEFINE serving == [channel[l] EXCEPT
                   !.busy = None, !.ever = TRUE, !.cache = <<>>, !.outstanding = {},
                   !.session = [id |-> channel[l].busy.session,
                                token |-> channel[l].busy.granted, fresh |-> TRUE]]
                 renewing == [serving EXCEPT !.renewing = TRUE]
      <3>1. channel'[l] = renewing \/ channel'[l] = serving
        BY <1>0, <2>1 DEF Opened, TypeOK
      <3>2. \A d \in {serving, renewing} : d.cache = <<>> /\ d.outstanding = {} /\ d.busy = None
        BY <1>0 DEF Process
      <3> HIDE DEF serving, renewing
      <3> QED
        BY <3>1, <3>2
    <2>2. CASE Exit(l)
      <3>1. channel'[l] = Ended(channel[l])
        BY <1>0, <2>2 DEF Exit, TypeOK
      <3> QED
        BY <1>0, <3>1, FencedFields
    <2> QED
      BY <2>1, <2>2
  <1>3. OthersDeliver(l)
    BY <1>0, <1>1 DEF Opened, Exit, OthersDeliver, TypeOK
  <1>4. Handed(l)' = pipe[l] /\ ~Writing(l)'
    BY <1>1, <1>2 DEF Handed, Writing
  <1>5. Spaced(pipe[l])
    <2>1. Spaced(Handed(l))
      BY DEF DeliveryInv, CacheOf
    <2>2. Writing(l) => channel[l].busy.nonce \in Attempts
      BY <1>0 DEF Writing, Process, Operation
    <2> QED
      BY <1>0, <2>1, <2>2, SpacedPrefix DEF Handed
  <1>6. Working(l)' => pipe[l] = <<>>
    <2>1. CASE Opened(l)
      BY <1>0, <2>1 DEF Opened, OpensOnce
    <2>2. CASE Exit(l)
      <3>1. channel'[l] = Ended(channel[l])
        BY <1>0, <2>2 DEF Exit, TypeOK
      <3>2. channel'[l].up = FALSE
        BY <1>0, <3>1, FencedFields
      <3> QED
        BY <1>4, <3>2 DEF Working
    <2> QED
      BY <2>1, <2>2
  <1>7. CacheOf(l)'
    BY <1>2, <1>4, <1>5, <1>6, NothingHanded DEF CacheOf
  <1>8. OutstandingOf(l)'
    BY <1>2 DEF OutstandingOf
  <1> QED
    BY <1>0, <1>1, <1>3, <1>7, <1>8, DeliveryStep, PipeGrowsNot

LEMMA DeliveriesInit == Init => DeliveryInv
  <1> SUFFICES ASSUME Init PROVE DeliveryInv
    OBVIOUS
  <1>1. ASSUME NEW l \in Launches
        PROVE  /\ channel[l].cache = <<>> /\ channel[l].outstanding = {}
               /\ channel[l].busy = None /\ pipe[l] = <<>>
    BY DEF Init, Fresh
  <1>2. \A l \in Launches : Handed(l) = <<>>
    BY <1>1 DEF Handed, Writing
  <1>3. \A l \in Launches : CacheOf(l) /\ OutstandingOf(l)
    BY <1>1, <1>2, NothingHanded DEF CacheOf, OutstandingOf
  <1> QED
    BY <1>3 DEF DeliveryInv, EvidenceIsEarned, Init

LEMMA DeliveriesStep == LeaseInv /\ DeliveryInv /\ [Next]_vars => DeliveryInv'
  <1> SUFFICES ASSUME LeaseInv, DeliveryInv, [Next]_vars PROVE DeliveryInv'
    OBVIOUS
  <1>0. TypeOK /\ AttemptsStay
    BY RequestsStay DEF LeaseInv
  <1>1. CASE UNCHANGED <<channel, pipe, attested>>
    BY <1>0, <1>1, IdleDeliveries
  <1>2. CASE UNCHANGED vars \/ (\E s \in Sessions : DaemonLapse(s)) \/ (\E n \in Attempts : Dispatch(n))
    BY <1>1, <1>2 DEF vars, DaemonLapse, Dispatch, history
  <1>3. ASSUME NEW l \in Launches, RegisterHostSession(l) PROVE DeliveryInv'
    BY <1>0, <1>3, CalmDeliveries
  <1>4. ASSUME NEW l \in Launches, UnderLock(l) PROVE DeliveryInv'
    <2>1. CASE EndNotCurrent(l) \/ \E n \in Attempts : WakeKnown(l, n)
      BY <1>1, <2>1 DEF EndNotCurrent, WakeKnown, history
    <2> QED
      BY <1>0, <1>4, <2>1, CalmDeliveries, WakeDeliveries, WriteDeliveries, EchoDeliveries,
         OpenDeliveries DEF UnderLock
  <1>5. ASSUME NEW l \in Launches,
               \/ SessionLapse(l) \/ Initialized(l) \/ PipeBreaks(l) \/ Stop(l) \/ Exit(l)
               \/ (\E s \in SessionsOf[l] : EndHook(l, s)) \/ EndFallback(l)
        PROVE  DeliveryInv'
    <2>1. CASE (\E s \in SessionsOf[l] : EndHook(l, s)) \/ EndFallback(l)
      BY <1>1, <2>1 DEF EndHook, EndFallback, history
    <2> QED
      BY <1>0, <1>5, <2>1, CalmDeliveries, OpenDeliveries
  <1> QED
    BY <1>2, <1>3, <1>4, <1>5 DEF Next

LEMMA DeliveriesInvariant == Spec => []DeliveryInv
BY DeliveriesInit, DeliveriesStep, LeasesInvariant, PTL DEF Spec

\* An attempt is written to its session once as long as the cache remembers it, and
\* what is remembered, so that it is answered without a write, was written.
THEOREM WrittenOnce == Spec => []DeliveredOnce
<1>1. LeaseInv /\ DeliveryInv => DeliveredOnce
  <2> SUFFICES ASSUME LeaseInv, DeliveryInv, NEW l \in Launches
               PROVE  /\ Spaced(pipe[l])
                      /\ ~Writing(l) => ToSet(channel[l].cache) \subseteq ToSet(pipe[l])
    BY DEF DeliveredOnce, Spaced
  <2>1. CacheOf(l) /\ TypeOK /\ pipe[l] \in Seq(Attempts)
    BY DEF DeliveryInv, LeaseInv, TypeOK
  <2>2. Writing(l) => channel[l].busy.nonce \in Attempts
    BY <2>1 DEF Writing, TypeOK, Process, Operation
  <2>3. Spaced(pipe[l])
    BY <2>1, <2>2, SpacedPrefix DEF CacheOf, Handed
  <2> QED
    BY <2>1, <2>3 DEF CacheOf, Handed
<1> QED
  BY <1>1, LeasesInvariant, DeliveriesInvariant, PTL

\* The daemon is told of an echo only by a session to which that nonce was written.
THEOREM EchoIsEarned == Spec => []EvidenceIsEarned
<1>1. DeliveryInv => EvidenceIsEarned
  BY DEF DeliveryInv
<1> QED
  BY <1>1, DeliveriesInvariant, PTL
==============================================================================
