---------------------------- MODULE HostSessions ----------------------------
(***************************************************************************)
(* The host-session routes of the daemon (src/src/daemon.ts) over the      *)
(* endpoint leases, bindings and presence rows of the core                 *)
(* (src/src/core.ts), as called by HostSessionClient                       *)
(* (src/src/transport-sdk.ts).                                             *)
(*                                                                         *)
(* A host opens a session: an endpoint with a lease token, bound to some   *)
(* channels.  It renews, closes and reports presence with that token, or,  *)
(* having lost it, renews and closes with its bootstrap credential and the *)
(* generation of one channel.  Several processes may act for one session.  *)
(* Requests travel for a while, and the answer to an open may be lost.     *)
(*                                                                         *)
(* A handler runs to its end without another one between its steps, since  *)
(* every database call of the daemon is synchronous; but the owner's       *)
(* command line is another process and may act between the reads of a      *)
(* handler and its transaction.                                            *)
(*                                                                         *)
(* Abstractions: a token is its number in the history of the endpoint;     *)
(* time is a choice (Lapse), so a call finds a lease live or not; routes,  *)
(* capabilities, the channel limit and the watches are left out (the last  *)
(* two are in AttentionChannels); an owner's request to the daemon is one  *)
(* of the owner's steps.                                                   *)
(***************************************************************************)
EXTENDS Integers, FiniteSets

CONSTANTS
    Channels, Endpoints,
    Hosts,          \* processes that act for a session
    SessionOf,      \* the endpoint of the session of a host
    Serves,         \* the channels a host opens its session for
    Wild,           \* hosts whose credential is for "*"
    Scope,          \* the channels of the credential of the others
    None,
    MaxToken,       \* bound on the tokens of each endpoint
    MaxGen, MaxRequests   \* bounds

ASSUME HostsAssumption ==
    /\ Wild \subseteq Hosts
    /\ SessionOf \in [Hosts -> Endpoints]
    /\ Serves \in [Hosts -> (SUBSET Channels) \ {{}}]
    /\ Scope \in [Hosts -> SUBSET Channels]
    /\ \A h \in Hosts \ Wild : Serves[h] \subseteq Scope[h]
    /\ None \notin Channels \cup Endpoints
    /\ MaxToken \in [Endpoints -> Nat \ {0}]
    /\ \A n \in {MaxGen, MaxRequests} : n \in Nat \ {0}

VARIABLES
    status,     \* attention_channels: "absent", "active" or "deleted"
    endpoints,  \* endpoints: the token in force (0: no row), and the lease
    bindings,   \* bindings: endpoint and generation, and the token of that time
    presence,   \* presence_leases: endpoint and generation
    opened,     \* the token that the last open of each endpoint gave out
    held,       \* what each host holds of its session
    requests,   \* requests on their way
    handling,   \* the request in the daemon's handler, and what it has read
    owner       \* the owner's takeover between its read and its transaction

vars == <<status, endpoints, bindings, presence, opened, held, requests, handling, owner>>
rows == <<status, endpoints, bindings, presence>>

------------------------------------------------------------------------------
Tokens == {0} \cup UNION {1..MaxToken[e] : e \in Endpoints}
Gens   == 0..MaxGen

\* A lease that ran out and one that was closed are alike to the code.
Leases == {"none", "live", "lapsed", "closed"}

Unbound == [ep |-> None, gen |-> 0, at |-> 0]
NoRow   == [ep |-> None, gen |-> 0]
NoLease == [tok |-> 0, gens |-> [c \in Channels |-> 0]]
Idle    == [op |-> "idle"]

TokenOps     == {"renew", "close"}
BootstrapOps == {"boundRenew", "boundClose"}

\* Requests of HostSessionClient, and of a host that only knows its binding.
Request ==
    [op: {"open"}, host: Hosts]
    \cup [op: TokenOps, host: Hosts, tok: Tokens]
    \cup [op: {"presence"}, host: Hosts, tok: Tokens, ch: Channels, gen: Gens]
    \cup [op: BootstrapOps, host: Hosts, ch: Channels, gen: Gens]

TypeOK ==
    /\ status \in [Channels -> {"absent", "active", "deleted"}]
    /\ endpoints \in [Endpoints -> [tok: Tokens, lease: Leases]]
    /\ bindings \in [Channels -> [ep: Endpoints \cup {None}, gen: Gens, at: Tokens]]
    /\ presence \in [Channels -> [ep: Endpoints \cup {None}, gen: Gens]]
    /\ opened \in [Endpoints -> Tokens]
    /\ held \in [Hosts -> [tok: Tokens, gens: [Channels -> Gens]]]
    /\ requests \subseteq Request
    /\ handling \in {Idle} \cup [op: {"handle"}, req: Request, gens: [Channels -> Gens],
                                 scope: SUBSET Channels]
    /\ owner \in {Idle} \cup [op: {"takeover"}, ch: Channels, ep: Endpoints, gen: Gens]

Init ==
    /\ status = [c \in Channels |-> "absent"]
    /\ endpoints = [e \in Endpoints |-> [tok |-> 0, lease |-> "none"]]
    /\ bindings = [c \in Channels |-> Unbound]
    /\ presence = [c \in Channels |-> NoRow]
    /\ opened = [e \in Endpoints |-> 0]
    /\ held = [h \in Hosts |-> NoLease]
    /\ requests = {}
    /\ handling = Idle
    /\ owner = Idle

Active        == {c \in Channels : status[c] = "active"}
BoundTo(e)    == {c \in Channels : bindings[c].ep = e}
IsLive(e)     == endpoints[e].lease = "live"
Authorized(e, tok)  == tok # 0 /\ endpoints[e].tok = tok /\ IsLive(e)
IsBinding(c, e, gen) == bindings[c].ep = e /\ bindings[c].gen = gen
Generations   == [c \in Channels |-> bindings[c].gen]

\* endpointRegistrationWrite: a new token and a lease from now on.
Registered(e) == [endpoints EXCEPT ![e] = [tok |-> @.tok + 1, lease |-> "live"]]
Register(chans) == status' = [c \in Channels |-> IF c \in chans THEN "active" ELSE status[c]]

\* bindingTakeoverStatements: each channel at its next generation, without presence.
Bind(chans, e, tok) ==
    /\ \A c \in chans : bindings[c].gen < MaxGen
    /\ bindings' = [c \in Channels |-> IF c \in chans
                      THEN [ep |-> e, gen |-> bindings[c].gen + 1, at |-> tok] ELSE bindings[c]]
    /\ presence' = [c \in Channels |-> IF c \in chans THEN NoRow ELSE presence[c]]

------------------------------------------------------------------------------
(* Hosts.                                                                   *)

Send(r) ==
    /\ Cardinality(requests) < MaxRequests
    /\ requests' = requests \cup {r}
    /\ UNCHANGED <<rows, opened, held, handling, owner>>

Open(h) == Send([op |-> "open", host |-> h])

\* renew, close and renewPresence with the lease handle of the last open it heard of.
UseToken(h) ==
    /\ held[h].tok # 0
    /\ \/ \E op \in TokenOps : Send([op |-> op, host |-> h, tok |-> held[h].tok])
       \/ \E c \in Serves[h] : Send([op |-> "presence", host |-> h, tok |-> held[h].tok,
                                     ch |-> c, gen |-> held[h].gens[c]])

\* A host that kept its generations only.
UseBootstrap(h) ==
    /\ held[h].tok # 0
    /\ \E op \in BootstrapOps : \E c \in Serves[h] :
           Send([op |-> op, host |-> h, ch |-> c, gen |-> held[h].gens[c]])

\* A request that never arrives.
Lose(r) ==
    /\ requests' = requests \ {r}
    /\ UNCHANGED <<rows, opened, held, handling, owner>>

------------------------------------------------------------------------------
(* The daemon's handlers.                                                   *)

\* requireActiveHostChannels asks it of a wildcard credential only.
MayName(h, chans) == h \in Wild => chans \subseteq Active

\* hostChannelScope, for a wildcard the channels of this moment.
ScopeOf(h) == IF h \in Wild THEN Active ELSE Scope[h]

\* What a handler checks before its transaction.  A renewal has no such check.
Admitted(r) ==
    LET e == SessionOf[r.host] IN
    CASE r.op = "open"         -> MayName(r.host, Serves[r.host])
      [] r.op = "renew"        -> TRUE
      [] r.op = "close"        -> Authorized(e, r.tok)
      [] r.op = "presence"     -> /\ status[r.ch] # "deleted"
                                  /\ Authorized(e, r.tok) /\ IsBinding(r.ch, e, r.gen)
      [] r.op \in BootstrapOps -> endpoints[e].tok # 0 /\ MayName(r.host, {r.ch})

\* A handler begins and reads; a request that is not admitted is answered.
Handle(r) ==
    /\ handling = Idle
    /\ requests' = requests \ {r}
    /\ handling' = IF Admitted(r)
                   THEN [op |-> "handle", req |-> r,
                         gens |-> IF r.op = "open" THEN Generations ELSE NoLease.gens,
                         scope |-> IF r.op \in BootstrapOps THEN ScopeOf(r.host) ELSE {}]
                   ELSE Idle
    /\ UNCHANGED <<rows, opened, held, owner>>

\* The transaction of a handler for a request of one of ops.
Commits(ops) ==
    /\ handling # Idle /\ handling.req.op \in ops
    /\ handling' = Idle
    /\ UNCHANGED <<requests, owner>>

\* Mutant: whether all channels of the session are named is left to the reads.
CommitOpenUnguarded ==
    LET h == handling.req.host
        e == SessionOf[h]
        fresh == endpoints[e].tok + 1
    IN  /\ Commits({"open"}) /\ fresh <= MaxToken[e]
        /\ IF /\ \A c \in Serves[h] : status[c] # "deleted"
              /\ \A c \in Serves[h] : bindings[c].gen = handling.gens[c]
           THEN /\ Register(Serves[h]) /\ endpoints' = Registered(e)
                /\ Bind(Serves[h], e, fresh)
                /\ opened' = [opened EXCEPT ![e] = fresh]
                /\ held' \in {held, [held EXCEPT ![h] = [tok |-> fresh,
                                 gens |-> [c \in Channels |->
                                     IF c \in Serves[h] THEN bindings'[c].gen ELSE 0]]]}
           ELSE UNCHANGED <<rows, opened, held>>

\* registerHostSession: all channels that the endpoint serves now must be among those
\* named, and none may have moved since.  The host may not hear of it.
CommitOpen ==
    LET h == handling.req.host
        e == SessionOf[h]
        fresh == endpoints[e].tok + 1
    IN  /\ Commits({"open"}) /\ fresh <= MaxToken[e]
        /\ IF /\ \A c \in Serves[h] : status[c] # "deleted"
              /\ BoundTo(e) \subseteq Serves[h]
              /\ \A c \in Serves[h] : bindings[c].gen = handling.gens[c]
           THEN /\ Register(Serves[h]) /\ endpoints' = Registered(e)
                /\ Bind(Serves[h], e, fresh)
                /\ opened' = [opened EXCEPT ![e] = fresh]
                /\ held' \in {held, [held EXCEPT ![h] = [tok |-> fresh,
                                 gens |-> [c \in Channels |->
                                     IF c \in Serves[h] THEN bindings'[c].gen ELSE 0]]]}
           ELSE UNCHANGED <<rows, opened, held>>

\* renewEndpoint, one statement: it asks for the token, not for a lease that is live.
CommitRenew ==
    LET e == SessionOf[handling.req.host] IN
    /\ Commits({"renew"})
    /\ endpoints' = IF endpoints[e].tok = handling.req.tok
                    THEN [endpoints EXCEPT ![e].lease = "live"] ELSE endpoints
    /\ UNCHANGED <<status, bindings, presence, opened, held>>

\* Mutant: presence stays when the session is closed.
RevokeLeaseOnly(e) ==
    /\ endpoints' = [endpoints EXCEPT ![e].lease = "closed"]
    /\ UNCHANGED presence

\* revokeEndpointState: the lease ends, and with it what rests on the session.
Revoke(e) ==
    /\ endpoints' = [endpoints EXCEPT ![e].lease = "closed"]
    /\ presence' = [c \in Channels |-> IF presence[c].ep = e THEN NoRow ELSE presence[c]]

\* revokeEndpoint: its token was checked before.
CommitClose ==
    /\ Commits({"close"})
    /\ Revoke(SessionOf[handling.req.host])
    /\ UNCHANGED <<status, bindings, opened, held>>

\* Mutant: the channels of the credential are not looked at.
BoundOkUnscoped ==
    LET r == handling.req
        e == SessionOf[r.host]
    IN  /\ status[r.ch] # "deleted"
        /\ IsBinding(r.ch, e, r.gen) /\ endpoints[e].tok # 0

\* boundEndpointGuardSql, in the transaction of the bootstrap routes: the generation is
\* the current one, and the credential covers all the endpoint serves.
BoundOk ==
    LET r == handling.req
        e == SessionOf[r.host]
    IN  /\ status[r.ch] # "deleted"
        /\ IsBinding(r.ch, e, r.gen) /\ endpoints[e].tok # 0
        /\ BoundTo(e) \subseteq handling.scope

CommitBoundRenew ==
    LET e == SessionOf[handling.req.host] IN
    /\ Commits({"boundRenew"})
    /\ endpoints' = IF BoundOk THEN [endpoints EXCEPT ![e].lease = "live"] ELSE endpoints
    /\ UNCHANGED <<status, bindings, presence, opened, held>>

CommitBoundClose ==
    /\ Commits({"boundClose"})
    /\ IF BoundOk THEN Revoke(SessionOf[handling.req.host])
                  ELSE UNCHANGED <<endpoints, presence>>
    /\ UNCHANGED <<status, bindings, opened, held>>

\* channelGuardSql and channelBindingFenceSql, in the transaction of a presence report.
PresenceOk ==
    LET r == handling.req
        e == SessionOf[r.host]
    IN  status[r.ch] = "active" /\ Authorized(e, r.tok) /\ IsBinding(r.ch, e, r.gen)

CommitPresence ==
    LET r == handling.req IN
    /\ Commits({"presence"})
    /\ presence' = IF PresenceOk
                   THEN [presence EXCEPT ![r.ch] = [ep |-> SessionOf[r.host], gen |-> r.gen]]
                   ELSE presence
    /\ UNCHANGED <<status, endpoints, bindings, opened, held>>

\* The daemon dies, or a database call fails, between a handler's reads and its writes.
HandlerDies ==
    /\ handling # Idle
    /\ handling' = Idle
    /\ UNCHANGED <<rows, opened, held, requests, owner>>

------------------------------------------------------------------------------
(* The owner, in another process, and time.                                 *)

CreateChannel(c) ==
    /\ status[c] = "absent"
    /\ Register({c})
    /\ UNCHANGED <<endpoints, bindings, presence, opened, held, requests, handling, owner>>

DeleteChannel(c) ==
    /\ status[c] = "active"
    /\ status' = [status EXCEPT ![c] = "deleted"]
    /\ bindings' = [bindings EXCEPT ![c] = Unbound]
    /\ presence' = [presence EXCEPT ![c] = NoRow]
    /\ UNCHANGED <<endpoints, opened, held, requests, handling, owner>>

\* registerEndpoint: the token of an endpoint is replaced, its bindings stay.
RegisterEndpoint(e) ==
    /\ endpoints[e].tok < MaxToken[e]
    /\ endpoints' = Registered(e)
    /\ UNCHANGED <<status, bindings, presence, opened, held, requests, handling, owner>>

TakeoverRead(c, e) ==
    /\ owner = Idle /\ status[c] # "deleted" /\ IsLive(e)
    /\ owner' = [op |-> "takeover", ch |-> c, ep |-> e, gen |-> bindings[c].gen]
    /\ UNCHANGED <<rows, opened, held, requests, handling>>

TakeoverCommit ==
    /\ owner # Idle
    /\ owner' = Idle
    /\ IF status[owner.ch] # "deleted" /\ IsLive(owner.ep) /\ bindings[owner.ch].gen = owner.gen
       THEN Bind({owner.ch}, owner.ep, endpoints[owner.ep].tok) /\ Register({owner.ch})
       ELSE UNCHANGED <<status, bindings, presence>>
    /\ UNCHANGED <<endpoints, opened, held, requests, handling>>

Lapse(e) ==
    /\ IsLive(e)
    /\ endpoints' = [endpoints EXCEPT ![e].lease = "lapsed"]
    /\ UNCHANGED <<status, bindings, presence, opened, held, requests, handling, owner>>

------------------------------------------------------------------------------
HostStep(h) == Open(h) \/ UseToken(h) \/ UseBootstrap(h)

DaemonStep ==
    \/ \E r \in requests : Handle(r) \/ Lose(r)
    \/ CommitOpen \/ CommitRenew \/ CommitClose
    \/ CommitBoundRenew \/ CommitBoundClose \/ CommitPresence
    \/ HandlerDies

OwnerStep ==
    \/ \E c \in Channels : CreateChannel(c) \/ DeleteChannel(c)
    \/ \E e \in Endpoints : RegisterEndpoint(e)
    \/ \E c \in Channels : \E e \in Endpoints : TakeoverRead(c, e)
    \/ TakeoverCommit

Next ==
    \/ \E h \in Hosts : HostStep(h)
    \/ DaemonStep
    \/ OwnerStep
    \/ \E e \in Endpoints : Lapse(e)

Spec == Init /\ [][Next]_vars

------------------------------------------------------------------------------
(* Properties.                                                              *)

\* A host acts on the lease of its session only with what the last open of that session
\* gave out or with something newer, and with a bootstrap credential only when all the
\* channels that the session serves at that moment are within the credential, whatever
\* the owner did between the handler's reads and its transaction.
OnlyItsOwnLease ==
    [][\A e \in Endpoints :
        (handling # Idle /\ handling' = Idle /\ endpoints'[e].lease # endpoints[e].lease) =>
            LET r == handling.req IN
            /\ e = SessionOf[r.host]
            /\ r.op \in TokenOps => r.tok >= opened[e]
            /\ r.op \in BootstrapOps =>
                  /\ bindings[r.ch].at >= opened[e]
                  /\ r.host \in Wild \/ BoundTo(e) \subseteq Scope[r.host]]_vars

\* An open rotates the token and the generations of all the channels of its session
\* together: no binding of an endpoint is older than what its last open gave out, so a
\* host that holds the token knows the generation of every channel it serves, save those
\* that the owner handed it afterwards.
RotatedTogether ==
    \A c \in Channels : bindings[c].ep # None => bindings[c].at >= opened[bindings[c].ep]

\* Foreground presence, which holds deliveries back, never outlives the binding or the
\* session it was reported for: not a takeover, a close, a new registration of the
\* session or the deletion of the channel, whenever the report was admitted.
PresenceEndsWithSession ==
    \A c \in Channels : presence[c].ep # None =>
        /\ IsBinding(c, presence[c].ep, presence[c].gen)
        /\ endpoints[presence[c].ep].lease # "closed"
=============================================================================
