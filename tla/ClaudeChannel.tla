---------------------------- MODULE ClaudeChannel ----------------------------
(***************************************************************************)
(* The Claude CLI host adapter: every launch runs a channel subprocess     *)
(* (channel.mjs) that registers the session with the daemon, renews its    *)
(* lease, writes wake notifications to the session's pipe and reports what *)
(* the session's hooks observe; a hook process (hook.mjs) brings it the    *)
(* hooks, and at SessionEnd closes the saved lease itself when the channel *)
(* does not.                                                               *)
(*                                                                         *)
(* The launches share one attention channel.  One may resume the session   *)
(* id of another, so that they compete for one endpoint row as well.       *)
(* Every open takes the channel over: it increments the generation and     *)
(* rotates the token of the endpoint, so that the generation of an open    *)
(* names its token too.                                                    *)
(*                                                                         *)
(* Everything that changes a session runs under its lock.  The daemon      *)
(* executes calls in the order in which they reach it, so that a call made *)
(* under the lock is one step with three outcomes: executed and answered,  *)
(* executed with the answer lost (the client's deadline passes first), not *)
(* executed.  An open and a write keep the lock over several steps, since  *)
(* stops, takeovers and requests in the meantime matter to them.  Requests *)
(* with a wrong token or a malformed body are left out, and a channel that *)
(* ended is not started again within its launch.                           *)
(* What the hooks report of human prompts and of turns that stop changes   *)
(* nothing here: it is an input of AttentionChannels.                      *)
(***************************************************************************)
EXTENDS Naturals, FiniteSets, Sequences, SequencesExt

CONSTANTS
    Launches,    \* channel processes, one per wakebridge-claude launch
    SessionsOf,  \* the session ids that the hooks of a launch carry
    Interactive, \* bound: the launches that get wakes, a SessionEnd hook and an orderly stop
    Attempts,    \* delivery attempts; each has a nonce of its own
    Copies,      \* copies of each delivery request that may reach the channel
    MaxCache,    \* max_delivery_cache
    MaxGen,      \* bound: registrations
    None

ASSUME BoundsAssumption ==
    /\ Copies \in [Attempts -> Nat]
    /\ MaxCache \in Nat \ {0}
    /\ MaxGen \in Nat
    /\ Interactive \subseteq Launches
    \* None is no attempt, no request that was sent and no write under way.
    /\ None \notin Attempts
    /\ None \notin [launch: Launches, gen: Nat, copies: Nat]
    /\ None \notin [op: {"write"}, nonce: Attempts]

VARIABLES
    endpoint,  \* daemon: the token and the lease of each session's endpoint
    binding,   \* daemon: generation of the channel, the session and launch it is bound to
    attempt,   \* the delivery requests that the daemon has sent
    channel,   \* what each channel process keeps
    hook,      \* the SessionEnd hook process of each launch
    file,      \* session.json in the state directory of each launch
    pipe,      \* history: the notifications that reached each session, in order
    attested   \* history: nonces the daemon accepted as echoed

vars == <<endpoint, binding, attempt, channel, hook, file, pipe, attested>>
daemon == <<endpoint, binding>>
history == <<pipe, attested>>

Sessions == UNION {SessionsOf[l] : l \in Launches}

-----------------------------------------------------------------------------
(* The channel process.  busy is the operation that keeps the session lock. *)
(* A request that was admitted before the process stopped may get the lock *)
(* afterwards: late says that such a SessionStart is still to come.        *)

Fresh == [up |-> TRUE, session |-> None, ever |-> FALSE, cache |-> <<>>,
          outstanding |-> {}, renewing |-> FALSE, mcp |-> "starting",
          stopping |-> "no", late |-> FALSE, busy |-> None]

\* A process that ended; only that it once held a lease is remembered.
Ended(c) == [Fresh EXCEPT !.up = FALSE, !.ever = c.ever]

Fenced(c) == [c EXCEPT !.session = None, !.outstanding = {}, !.renewing = FALSE]

Lease(c) == [session |-> c.session.id, token |-> c.session.token]

\* The lock is free.
Unlocked(l) == channel[l].up /\ channel[l].busy = None

\* The operations that keep the lock.
Opening(l) == channel[l].busy # None /\ channel[l].busy.op = "open"
Writing(l) == channel[l].busy # None /\ channel[l].busy.op = "write"

\* The server takes requests until the process stops (503).
Admits(l) == channel[l].up /\ channel[l].stopping = "no"

\* The hook is of the session that the channel serves.
IsCurrent(l, s) == channel[l].session # None /\ channel[l].session.id = s

Init ==
    /\ endpoint = [s \in Sessions |-> [token |-> 0, live |-> FALSE]]
    /\ binding = [gen |-> 0, session |-> None, launch |-> None]
    /\ attempt = [n \in Attempts |-> None]
    /\ channel = [l \in Launches |-> Fresh]
    /\ hook = [l \in Launches |-> [pc |-> "idle", session |-> None, saved |-> None]]
    /\ file = [l \in Launches |-> None]
    /\ pipe = [l \in Launches |-> <<>>]
    /\ attested = {}

-----------------------------------------------------------------------------
(* The daemon. *)

Outcomes == {"answered", "unanswered", "unexecuted"}

\* Mutant: the daemon closes by endpoint, whichever token the call brings.
AuthorizedByEndpoint(lease) == endpoint[lease.session].live

\* endpointAuthorized: the lease is the endpoint's own and has not run out.
Authorized(lease) ==
    /\ endpoint[lease.session].token = lease.token
    /\ endpoint[lease.session].live

\* The lease is that of the binding as well.
IsBound(lease) ==
    /\ Authorized(lease)
    /\ binding.session = lease.session /\ binding.gen = lease.token

\* renewEndpoint asks for the token only: a lease that ran out is live again.
Renewable(lease) == endpoint[lease.session].token = lease.token

\* consumeWakeEcho: the nonce was sent under this binding and was not consumed.
\* One that expired meanwhile, that a close discarded or whose attempt was
\* superseded is refused, which the channel cannot tell from a call that failed.
EchoMatches(lease, n) ==
    /\ IsBound(lease)
    /\ attempt[n] # None /\ attempt[n].gen = lease.token
    /\ n \notin attested

Live(lease, on) == [endpoint EXCEPT ![lease.session].live = on]

\* A close by the lease token, and what its caller is told.
Revoked(lease, outcome) ==
    endpoint' = IF Authorized(lease) /\ outcome # "unexecuted" THEN Live(lease, FALSE) ELSE endpoint

Confirmed(lease, outcome) == Authorized(lease) /\ outcome = "answered"

\* The answer to a renewal brings the end of the new lease.
RenewalConfirmed(lease, outcome) == Renewable(lease) /\ outcome = "answered"

\* registerHostSession for an open that a channel waits for: a new token, a
\* new lease and the next generation in one transaction.
RegisterHostSession(l) ==
    /\ Opening(l) /\ channel[l].busy.granted = 0
    /\ binding.gen < MaxGen
    /\ LET s == channel[l].busy.session IN
       /\ endpoint' = [endpoint EXCEPT ![s] = [token |-> binding.gen + 1, live |-> TRUE]]
       /\ binding' = [gen |-> binding.gen + 1, session |-> s, launch |-> l]
    /\ channel' = [channel EXCEPT ![l].busy.granted = binding.gen + 1]
    /\ UNCHANGED <<attempt, hook, file, history>>

\* A lease runs out.  A session keeps the time of the last answer, so that it
\* sees the lapse no later than the daemon does; and the answer to an open is
\* handled before the lease it brings runs out.
HeldFresh(s) ==
    \E l \in Launches :
        \/ IsCurrent(l, s) /\ channel[l].session.token = endpoint[s].token /\ channel[l].session.fresh
        \/ /\ Opening(l) /\ channel[l].busy.session = s
           /\ channel[l].busy.granted = endpoint[s].token

DaemonLapse(s) ==
    /\ endpoint[s].live /\ ~HeldFresh(s)
    /\ endpoint' = [endpoint EXCEPT ![s].live = FALSE]
    /\ UNCHANGED <<binding, attempt, channel, hook, file, history>>

SessionLapse(l) ==
    /\ channel[l].session # None /\ channel[l].session.fresh
    /\ channel' = [channel EXCEPT ![l].session.fresh = FALSE]
    /\ UNCHANGED <<daemon, attempt, hook, file, history>>

\* LocalHttpHostAdapter.dispatch: the attempt goes to the route of the bound
\* endpoint, and fails when no process listens there.  Bound: the attempts are
\* of one generation, which may end before they arrive.
Dispatch(n) ==
    /\ attempt[n] = None
    /\ binding.launch \in Interactive /\ endpoint[binding.session].live
    /\ \A m \in Attempts : attempt[m] # None => attempt[m].gen = binding.gen
    /\ attempt' = [attempt EXCEPT ![n] = [launch |-> binding.launch, gen |-> binding.gen,
                                          copies |-> IF channel[binding.launch].up
                                                     THEN Copies[n] ELSE 0]]
    /\ UNCHANGED <<daemon, channel, hook, file, history>>

-----------------------------------------------------------------------------
(* SessionStart. *)

\* The hook process posts a SessionStart again and again until it is answered
\* or its deadline passes, so that each may come at any moment and repeatedly.
StartPosted(l) ==
    {s \in SessionsOf[l] : channel[l].stopping = "no" \/ channel[l].late}

\* Mutant: a SessionStart without the fence of _everRegistered.
SessionStartUnfenced(l) ==
    /\ Unlocked(l)
    /\ channel[l].session = None
    /\ \E s \in StartPosted(l) :
          channel' = [channel EXCEPT ![l].late = FALSE,
                         ![l].busy = [op |-> "open", session |-> s, granted |-> 0]]
    /\ UNCHANGED <<daemon, attempt, hook, file, history>>

\* A SessionStart of a session that is served already changes nothing; a
\* process that was fenced refuses it (409); any other begins an open.
SessionStart(l) ==
    /\ Unlocked(l)
    /\ ~channel[l].ever
    /\ \E s \in StartPosted(l) :
          channel' = [channel EXCEPT ![l].late = FALSE,
                         ![l].busy = [op |-> "open", session |-> s, granted |-> 0]]
    /\ UNCHANGED <<daemon, attempt, hook, file, history>>

\* client.open returned.  The state file is written before the renewals are
\* started: when that write fails the session is served without them.
Opened(l) ==
    /\ Opening(l) /\ channel[l].busy.granted > 0
    /\ LET s == channel[l].busy.session
           token == channel[l].busy.granted
           serving == [channel[l] EXCEPT
               !.busy = None, !.ever = TRUE, !.cache = <<>>, !.outstanding = {},
               !.session = [id |-> s, token |-> token, fresh |-> TRUE]] IN
       \/ /\ file' = [file EXCEPT ![l] = [session |-> s, token |-> token]]
          /\ channel' = [channel EXCEPT ![l] = [serving EXCEPT !.renewing = TRUE]]
       \/ /\ channel' = [channel EXCEPT ![l] = serving]
          /\ UNCHANGED file
    /\ UNCHANGED <<daemon, attempt, hook, history>>

\* The open failed, or its answer is lost or late.
OpenFailed(l) ==
    /\ Opening(l)
    /\ channel' = [channel EXCEPT ![l].busy = None]
    /\ UNCHANGED <<daemon, attempt, hook, file, history>>

-----------------------------------------------------------------------------
(* Renewal and the end of a session. *)

\* A renewal that fails, or whose state cannot be saved, fences the process.
Renew(l) ==
    /\ Unlocked(l) /\ channel[l].renewing
    /\ channel[l].session # None /\ channel[l].stopping = "no"
    /\ LET lease == Lease(channel[l]) IN
       \E outcome \in Outcomes :
          /\ endpoint' = IF Renewable(lease) /\ outcome # "unexecuted" THEN Live(lease, TRUE) ELSE endpoint
          /\ \/ /\ RenewalConfirmed(lease, outcome)
                /\ channel' = [channel EXCEPT ![l].session.fresh = TRUE]
                /\ file' = [file EXCEPT ![l] = lease]
             \/ /\ channel' = [channel EXCEPT ![l] = Fenced(@)]
                /\ UNCHANGED file
    /\ UNCHANGED <<binding, attempt, hook, history>>

\* removeMatchingState
Removed(l, lease) == IF file[l] = lease THEN [file EXCEPT ![l] = None] ELSE file

\* _closeCurrentSession: the session is given up before the daemon is asked,
\* the state file only once the daemon confirmed.
CloseCurrent(l, c, outcome) ==
    LET lease == Lease(channel[l]) IN
    /\ Revoked(lease, outcome)
    /\ channel' = [channel EXCEPT ![l] = Fenced(c)]
    /\ file' = IF Confirmed(lease, outcome) THEN Removed(l, lease) ELSE file

\* SessionEnd, for which the hook may not wait any more.  It is answered with
\* an error when the close was not confirmed.
SessionEnd(l) ==
    /\ Unlocked(l)
    /\ hook[l].pc \in {"posted", "late"}
    /\ IsCurrent(l, hook[l].session)
    /\ \E outcome \in Outcomes :
          LET closed == Confirmed(Lease(channel[l]), outcome) IN
          /\ CloseCurrent(l, channel[l], outcome)
          /\ hook' = [hook EXCEPT ![l].pc = IF @ = "posted" /\ ~closed THEN "refused" ELSE "done"]
    /\ UNCHANGED <<binding, attempt, history>>

\* A SessionEnd of a session that the channel does not serve: 409.
EndNotCurrent(l) ==
    /\ Unlocked(l)
    /\ hook[l].pc = "posted" /\ ~IsCurrent(l, hook[l].session)
    /\ hook' = [hook EXCEPT ![l].pc = "refused"]
    /\ UNCHANGED <<daemon, attempt, channel, file, history>>

-----------------------------------------------------------------------------
(* Deliveries. *)

\* A prompt whose channel tag has an outstanding nonce is the echo of a wake;
\* a tagged prompt with any other nonce is ignored.
WakeEcho(l) ==
    /\ Unlocked(l) /\ channel[l].session # None
    /\ \E n \in channel[l].outstanding, outcome \in Outcomes :
          LET ok == EchoMatches(Lease(channel[l]), n) IN
          /\ attested' = IF ok /\ outcome # "unexecuted" THEN attested \cup {n} ELSE attested
          /\ channel' = IF ok /\ outcome = "answered"
                        THEN [channel EXCEPT ![l].outstanding = @ \ {n}] ELSE channel
    /\ UNCHANGED <<daemon, attempt, hook, file, pipe>>

\* A copy of the request of attempt n reaches the channel and has the lock.
Arrived(l, n) ==
    /\ Unlocked(l)
    /\ attempt[n] # None /\ attempt[n].launch = l /\ attempt[n].copies > 0

Took(n) == [attempt EXCEPT ![n].copies = @ - 1]

\* The handshake is over, the session is usable, the wake is of its generation.
Accepts(l, n) ==
    LET c == channel[l] IN
    /\ c.mcp = "ready"
    /\ c.session # None /\ c.session.fresh
    /\ attempt[n].gen = c.session.token

\* Not ready (425) or another generation (409); a lapse that is seen on the
\* way fences the process.
WakeRefused(l, n) ==
    /\ Arrived(l, n) /\ ~Accepts(l, n)
    /\ attempt' = Took(n)
    /\ LET c == channel[l] IN
       channel' = IF c.mcp = "ready" /\ c.session # None /\ ~c.session.fresh
                  THEN [channel EXCEPT ![l] = Fenced(c)] ELSE channel
    /\ UNCHANGED <<daemon, hook, file, history>>

\* _reserveDelivery refuses an attempt it remembers: 202 without a write.
WakeKnown(l, n) ==
    /\ Arrived(l, n) /\ Accepts(l, n)
    /\ n \in ToSet(channel[l].cache)
    /\ attempt' = Took(n)
    /\ UNCHANGED <<daemon, channel, hook, file, history>>

\* The oldest entries leave the cache when it is over its limit; their nonces
\* are not outstanding any more.
Kept(cache) == SubSeq(cache, 1 + (IF Len(cache) > MaxCache THEN Len(cache) - MaxCache ELSE 0), Len(cache))

\* The notification of attempt n, which carries its nonce, is in the session's pipe.
Notified(l, n) == [pipe EXCEPT ![l] = Append(@, n)]

\* Mutant: a reservation that does not look at the attempts it remembers.
WakeReservedAgain(l, n) ==
    /\ Arrived(l, n) /\ Accepts(l, n)
    /\ attempt' = Took(n)
    /\ LET kept == Kept(Append(channel[l].cache, n)) IN
       channel' = [channel EXCEPT ![l].busy = [op |-> "write", nonce |-> n],
                      ![l].cache = kept, ![l].outstanding = (@ \cup {n}) \cap ToSet(kept)]
    /\ UNCHANGED <<daemon, hook, file, history>>

\* The attempt is reserved and its notification handed to the pipe.
WakeReserved(l, n) ==
    /\ Arrived(l, n) /\ Accepts(l, n)
    /\ n \notin ToSet(channel[l].cache)
    /\ attempt' = Took(n)
    /\ LET kept == Kept(Append(channel[l].cache, n)) IN
       channel' = [channel EXCEPT ![l].busy = [op |-> "write", nonce |-> n],
                      ![l].cache = kept, ![l].outstanding = (@ \cup {n}) \cap ToSet(kept)]
    /\ UNCHANGED <<daemon, hook, file, history>>

\* The stream took the notification: 202.
WriteDone(l) ==
    /\ Writing(l)
    /\ pipe' = Notified(l, channel[l].busy.nonce)
    /\ channel' = [channel EXCEPT ![l].busy = None]
    /\ UNCHANGED <<daemon, attempt, hook, file, attested>>

\* Mutant: a failed write releases the reservation but not its nonce.
WriteFailedStillOutstanding(l) ==
    /\ Writing(l)
    /\ LET n == channel[l].busy.nonce IN
       /\ channel' = [channel EXCEPT ![l].busy = None, ![l].mcp = "broken",
                         ![l].cache = RemoveFirst(@, n)]
       /\ pipe' \in {pipe, Notified(l, n)}
    /\ UNCHANGED <<daemon, attempt, hook, file, attested>>

\* The write failed or timed out: 503, the reservation is undone and the pipe
\* is never used again.  What was handed to the stream may reach the session.
WriteFailed(l) ==
    /\ Writing(l)
    /\ LET n == channel[l].busy.nonce IN
       /\ channel' = [channel EXCEPT ![l].busy = None, ![l].mcp = "broken",
                         ![l].outstanding = @ \ {n},
                         ![l].cache = RemoveFirst(@, n)]
       /\ pipe' \in {pipe, Notified(l, n)}
    /\ UNCHANGED <<daemon, attempt, hook, file, attested>>

\* The response to initialize was written and notifications/initialized came,
\* in either order.  The MCP traffic is not under the lock.
Initialized(l) ==
    /\ l \in Interactive
    /\ channel[l].up /\ channel[l].mcp = "starting"
    /\ channel' = [channel EXCEPT ![l].mcp = "ready"]
    /\ UNCHANGED <<daemon, attempt, hook, file, history>>

\* The write of a response fails; before the handshake is over that is like a
\* handshake that never ends.
PipeBreaks(l) ==
    /\ channel[l].up /\ channel[l].mcp = "ready"
    /\ channel' = [channel EXCEPT ![l].mcp = "broken"]
    /\ UNCHANGED <<daemon, attempt, hook, file, history>>

-----------------------------------------------------------------------------
(* The process stops. *)

\* A signal, or the end of its standard input.
StopRequested(l) == channel[l].up /\ l \in Interactive

\* close(): from now on requests are refused; a second close changes nothing.
Stop(l) ==
    /\ StopRequested(l) /\ channel[l].stopping = "no"
    /\ \E late \in {FALSE, ~channel[l].ever} :
          channel' = [channel EXCEPT ![l].stopping = "queued", ![l].late = late]
    /\ UNCHANGED <<daemon, attempt, hook, file, history>>

\* The lease is closed under the lock, before or after a SessionStart that
\* was admitted earlier.
StopLocked(l) ==
    /\ Unlocked(l) /\ channel[l].stopping = "queued"
    /\ IF channel[l].session # None
       THEN \E outcome \in Outcomes :
               CloseCurrent(l, [channel[l] EXCEPT !.stopping = "closed"], outcome)
       ELSE /\ channel' = [channel EXCEPT ![l].stopping = "closed", ![l].renewing = FALSE]
            /\ UNCHANGED <<endpoint, file>>
    /\ UNCHANGED <<binding, attempt, hook, history>>

\* The server has answered its last request; or the process is killed.  What was
\* on its way to it is lost.
Exit(l) ==
    /\ channel[l].up
    /\ channel[l].stopping = "closed" => channel[l].busy = None /\ ~channel[l].late
    /\ channel' = [channel EXCEPT ![l] = Ended(@)]
    /\ attempt' = [n \in Attempts |->
          IF attempt[n] # None /\ attempt[n].launch = l THEN [attempt[n] EXCEPT !.copies = 0]
          ELSE attempt[n]]
    /\ UNCHANGED <<daemon, hook, file, history>>

-----------------------------------------------------------------------------
(* The SessionEnd hook reads the saved state and asks the channel. *)

\* The post is under way, or was refused at once.
PostHookObservation(l) == IF Admits(l) THEN "posted" ELSE "refused"

EndHook(l, s) ==
    /\ l \in Interactive
    /\ hook[l].pc = "idle"
    /\ hook' = [hook EXCEPT ![l] = [pc |-> PostHookObservation(l),
                                    session |-> s, saved |-> file[l]]]
    /\ UNCHANGED <<daemon, attempt, channel, file, history>>

\* Refused, failed or out of time: the exact lease that was read is closed,
\* if it is of the session that ended.
EndFallback(l) ==
    /\ hook[l].pc \in {"posted", "refused"}
    /\ LET saved == hook[l].saved IN
       IF saved # None /\ saved.session = hook[l].session
       THEN \E outcome \in Outcomes :
               /\ Revoked(saved, outcome)
               /\ file' = IF Confirmed(saved, outcome) THEN Removed(l, saved) ELSE file
       ELSE UNCHANGED <<endpoint, file>>
    /\ hook' = [hook EXCEPT ![l].pc = IF @ = "posted" THEN "late" ELSE "done", ![l].saved = None]
    /\ UNCHANGED <<binding, attempt, channel, history>>

-----------------------------------------------------------------------------
UnderLock(l) ==
    \/ SessionStart(l) \/ Opened(l) \/ OpenFailed(l)
    \/ Renew(l) \/ SessionEnd(l) \/ EndNotCurrent(l)
    \/ WakeEcho(l)
    \/ \E n \in Attempts : WakeRefused(l, n) \/ WakeKnown(l, n) \/ WakeReserved(l, n)
    \/ WriteDone(l) \/ WriteFailed(l) \/ StopLocked(l)

Next ==
    \/ \E s \in Sessions : DaemonLapse(s)
    \/ \E n \in Attempts : Dispatch(n)
    \/ \E l \in Launches :
          \/ RegisterHostSession(l) \/ SessionLapse(l)
          \/ UnderLock(l)
          \/ Initialized(l) \/ PipeBreaks(l) \/ Stop(l) \/ Exit(l)
          \/ \E s \in SessionsOf[l] : EndHook(l, s)
          \/ EndFallback(l)

Spec == Init /\ [][Next]_vars

-----------------------------------------------------------------------------
(* Properties. *)

Generations == 0..MaxGen
Saved       == [session: Sessions, token: Generations]
Served      == [id: Sessions, token: Generations, fresh: BOOLEAN]
Operation   == [op: {"open"}, session: Sessions, granted: Generations]
                  \cup [op: {"write"}, nonce: Attempts]
Request     == [launch: Launches, gen: Generations, copies: Nat]
Process     == [up: BOOLEAN, session: Served \cup {None}, ever: BOOLEAN, cache: Seq(Attempts),
                outstanding: SUBSET Attempts, renewing: BOOLEAN,
                mcp: {"starting", "ready", "broken"}, stopping: {"no", "queued", "closed"},
                late: BOOLEAN, busy: Operation \cup {None}]
Hook        == [pc: {"idle", "posted", "refused", "late", "done"},
                session: Sessions \cup {None}, saved: Saved \cup {None}]

TypeOK ==
    /\ endpoint \in [Sessions -> [token: Generations, live: BOOLEAN]]
    /\ binding \in [gen: Generations, session: Sessions \cup {None}, launch: Launches \cup {None}]
    /\ attempt \in [Attempts -> Request \cup {None}]
    /\ channel \in [Launches -> Process]
    /\ hook \in [Launches -> Hook]
    /\ file \in [Launches -> Saved \cup {None}]
    /\ pipe \in [Launches -> Seq(Attempts)]
    /\ attested \subseteq Attempts

\* A launch that has served a session never takes the attention channel back
\* from a launch that took it over, however its SessionStart hooks repeat and
\* whichever of its answers are lost.
NeverReclaims ==
    [][\A l \in Launches :
          channel[l].ever /\ binding.launch # l => binding'.launch # l]_vars

\* While a session holds an endpoint's current token, has not seen its lease
\* run out and was not ended by its own hook, the endpoint is live: no stale
\* SessionEnd and no stopping process of another launch revokes it.
LeaseHeldIsLive ==
    \A l \in Launches :
        /\ channel[l].session # None
        /\ channel[l].session.fresh
        /\ channel[l].session.token = endpoint[channel[l].session.id].token
        /\ hook[l].pc = "idle"
        => endpoint[channel[l].session.id].live

\* Between two notifications of one attempt lie at least as many of other
\* attempts as the cache holds; and an attempt that is remembered, so that its
\* next copy is answered 202 without a write, has been written.
DeliveredOnce ==
    \A l \in Launches :
        /\ \A i, j \in DOMAIN pipe[l] :
              i < j /\ pipe[l][i] = pipe[l][j]
              => Cardinality({pipe[l][k] : k \in (i+1)..(j-1)}) >= MaxCache
        /\ ~Writing(l) => ToSet(channel[l].cache) \subseteq ToSet(pipe[l])

\* The daemon is told of an echo only by a session to which a notification
\* with that nonce was written.
EvidenceIsEarned ==
    \A n \in attested : n \in ToSet(pipe[attempt[n].launch])

=============================================================================
