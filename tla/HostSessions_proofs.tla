------------------------ MODULE HostSessions_proofs ------------------------
(***************************************************************************)
(* Proofs about HostSessions, for every set of hosts, channels and         *)
(* endpoints, every credential and every bound.  First the types, then     *)
(* what a session knows: its token, the tokens of its bindings, presence,  *)
(* and what the handler under way was admitted for.                        *)
(***************************************************************************)
EXTENDS HostSessions, TLAPS

------------------------------------------------------------------------------
(* Types.                                                                   *)

\* Tokens are numbers, and those of an endpoint are tokens.
LEMMA TokensAreNumbers ==
    /\ Tokens \subseteq Nat /\ 0 \in Tokens
    /\ \A e \in Endpoints : \A t \in Nat : t <= MaxToken[e] => t \in Tokens
  <1>1. \A e \in Endpoints : MaxToken[e] \in Nat \ {0}
    BY HostsAssumption
  <1> QED
    BY <1>1 DEF Tokens

LEMMA OpenRequest ==
    ASSUME NEW h \in Hosts PROVE [op |-> "open", host |-> h] \in Request
  BY DEF Request

LEMMA TokenRequest ==
    ASSUME NEW h \in Hosts, NEW op \in TokenOps, NEW t \in Tokens
    PROVE  [op |-> op, host |-> h, tok |-> t] \in Request
  BY DEF Request

LEMMA PresenceRequest ==
    ASSUME NEW h \in Hosts, NEW t \in Tokens, NEW c \in Channels, NEW g \in Gens
    PROVE  [op |-> "presence", host |-> h, tok |-> t, ch |-> c, gen |-> g] \in Request
  BY DEF Request

LEMMA BootstrapRequest ==
    ASSUME NEW h \in Hosts, NEW op \in BootstrapOps, NEW c \in Channels, NEW g \in Gens
    PROVE  [op |-> op, host |-> h, ch |-> c, gen |-> g] \in Request
  BY DEF Request

\* What a request of each kind carries.
LEMMA RequestFields ==
    ASSUME NEW r \in Request
    PROVE  /\ r.host \in Hosts /\ SessionOf[r.host] \in Endpoints
           /\ r.op \in {"open", "presence"} \cup TokenOps \cup BootstrapOps
           /\ r.op \in TokenOps \cup {"presence"} => r.tok \in Tokens
           /\ r.op \in BootstrapOps \cup {"presence"} => r.ch \in Channels /\ r.gen \in Gens
  <1>1. CASE r \in [op: {"open"}, host: Hosts]
    BY <1>1, HostsAssumption DEF TokenOps, BootstrapOps
  <1>2. CASE r \in [op: TokenOps, host: Hosts, tok: Tokens]
    BY <1>2, HostsAssumption DEF TokenOps, BootstrapOps
  <1>3. CASE r \in [op: {"presence"}, host: Hosts, tok: Tokens, ch: Channels, gen: Gens]
    BY <1>3, HostsAssumption DEF TokenOps, BootstrapOps
  <1>4. CASE r \in [op: BootstrapOps, host: Hosts, ch: Channels, gen: Gens]
    BY <1>4, HostsAssumption DEF TokenOps, BootstrapOps
  <1> QED
    BY <1>1, <1>2, <1>3, <1>4 DEF Request

\* What the handler under way carries.
LEMMA HandlingFields ==
    ASSUME TypeOK, handling # Idle
    PROVE  /\ handling.req \in Request
           /\ handling.gens \in [Channels -> Gens]
           /\ handling.scope \subseteq Channels
  BY DEF TypeOK

\* A binding that is made has its type, and so has the presence that ends with it.
LEMMA BindType ==
    ASSUME TypeOK, NEW chans \in SUBSET Channels, NEW e \in Endpoints, NEW tok \in Tokens,
           Bind(chans, e, tok)
    PROVE  /\ bindings' \in [Channels -> [ep: Endpoints \cup {None}, gen: Gens, at: Tokens]]
           /\ presence' \in [Channels -> [ep: Endpoints \cup {None}, gen: Gens]]
           /\ \A c \in Channels : c \in chans =>
                 bindings'[c] = [ep |-> e, gen |-> bindings[c].gen + 1, at |-> tok]
                 /\ presence'[c] = NoRow
           /\ \A c \in Channels : c \notin chans =>
                 bindings'[c] = bindings[c] /\ presence'[c] = presence[c]
  <1>1. \A c \in Channels : /\ bindings[c] \in [ep: Endpoints \cup {None}, gen: Gens, at: Tokens]
                            /\ presence[c] \in [ep: Endpoints \cup {None}, gen: Gens]
    BY DEF TypeOK
  <1>2. NoRow \in [ep: Endpoints \cup {None}, gen: Gens]
    BY HostsAssumption DEF NoRow, Gens
  <1>3. \A c \in chans : bindings[c].gen + 1 \in Gens
    BY <1>1, HostsAssumption DEF Bind, Gens
  <1> QED
    BY <1>1, <1>2, <1>3 DEF Bind

\* So has a registration, and a lease that changes.
LEMMA RegisteredType ==
    ASSUME TypeOK, NEW e \in Endpoints, endpoints[e].tok + 1 <= MaxToken[e]
    PROVE  /\ endpoints[e].tok \in Nat /\ endpoints[e].tok + 1 \in Tokens
           /\ Registered(e) \in [Endpoints -> [tok: Tokens, lease: Leases]]
           /\ Registered(e)[e] = [tok |-> endpoints[e].tok + 1, lease |-> "live"]
           /\ \A f \in Endpoints \ {e} : Registered(e)[f] = endpoints[f]
  <1>1. endpoints[e].tok \in Nat
    BY TokensAreNumbers DEF TypeOK
  <1>2. endpoints[e].tok + 1 \in Tokens
    BY <1>1, TokensAreNumbers
  <1> QED
    BY <1>1, <1>2 DEF Registered, TypeOK, Leases

LEMMA LeaseType ==
    ASSUME TypeOK, NEW e \in Endpoints, NEW l \in Leases
    PROVE  /\ [endpoints EXCEPT ![e].lease = l] \in [Endpoints -> [tok: Tokens, lease: Leases]]
           /\ [endpoints EXCEPT ![e].lease = l][e].lease = l
           /\ \A f \in Endpoints : [endpoints EXCEPT ![e].lease = l][f].tok = endpoints[f].tok
           /\ \A f \in Endpoints \ {e} : [endpoints EXCEPT ![e].lease = l][f] = endpoints[f]
  BY DEF TypeOK

LEMMA RegisterType ==
    ASSUME TypeOK, NEW chans, Register(chans)
    PROVE  status' \in [Channels -> {"absent", "active", "deleted"}]
  BY DEF TypeOK, Register

LEMMA RevokeType ==
    ASSUME TypeOK, NEW e \in Endpoints, Revoke(e)
    PROVE  /\ endpoints' \in [Endpoints -> [tok: Tokens, lease: Leases]]
           /\ presence' \in [Channels -> [ep: Endpoints \cup {None}, gen: Gens]]
  <1>1. NoRow \in [ep: Endpoints \cup {None}, gen: Gens]
    BY HostsAssumption DEF NoRow, Gens
  <1> QED
    BY <1>1, LeaseType DEF Revoke, TypeOK, Leases

LEMMA InitType == Init => TypeOK
  <1>1. 0 \in Gens /\ 0 \in Tokens
    BY HostsAssumption, TokensAreNumbers DEF Gens
  <1>2. Unbound \in [ep: Endpoints \cup {None}, gen: Gens, at: Tokens]
    BY <1>1 DEF Unbound
  <1>3. NoRow \in [ep: Endpoints \cup {None}, gen: Gens]
    BY <1>1 DEF NoRow
  <1>4. NoLease \in [tok: Tokens, gens: [Channels -> Gens]]
    BY <1>1 DEF NoLease
  <1> QED
    BY <1>1, <1>2, <1>3, <1>4 DEF Init, TypeOK, Leases

LEMMA NextKeepsTypes == TypeOK /\ [Next]_vars => TypeOK'
  <1> SUFFICES ASSUME TypeOK, [Next]_vars PROVE TypeOK'
    OBVIOUS
  <1> USE DEF rows
  <1>0. ASSUME NEW r \in Request, Send(r) PROVE TypeOK'
    BY <1>0 DEF Send, TypeOK
  <1>1. ASSUME NEW h \in Hosts, HostStep(h) PROVE TypeOK'
    <2>1. held[h].tok \in Tokens /\ \A c \in Channels : held[h].gens[c] \in Gens
      BY DEF TypeOK
    <2>2. \A c \in Serves[h] : c \in Channels
      BY HostsAssumption
    <2>3. CASE Open(h)
      BY <2>3, <1>0, OpenRequest DEF Open
    <2>4. CASE UseToken(h)
      <3>1. CASE \E op \in TokenOps : Send([op |-> op, host |-> h, tok |-> held[h].tok])
        BY <3>1, <2>1, <1>0, TokenRequest
      <3>2. CASE \E c \in Serves[h] : Send([op |-> "presence", host |-> h, tok |-> held[h].tok,
                                            ch |-> c, gen |-> held[h].gens[c]])
        BY <3>2, <2>1, <2>2, <1>0, PresenceRequest
      <3> QED
        BY <2>4, <3>1, <3>2 DEF UseToken
    <2>5. CASE UseBootstrap(h)
      BY <2>5, <2>1, <2>2, <1>0, BootstrapRequest DEF UseBootstrap
    <2> QED
      BY <1>1, <2>3, <2>4, <2>5 DEF HostStep
  <1>2. ASSUME NEW r \in requests, Handle(r) \/ Lose(r) PROVE TypeOK'
    <2>1. r \in Request
      BY DEF TypeOK
    <2>2. ScopeOf(r.host) \subseteq Channels
      BY <2>1, RequestFields, HostsAssumption DEF ScopeOf, Active
    <2>3. Generations \in [Channels -> Gens] /\ NoLease.gens \in [Channels -> Gens]
      BY HostsAssumption DEF Generations, NoLease, Gens, TypeOK
    <2>4. handling' = handling
          \/ handling' \in {Idle} \cup [op: {"handle"}, req: Request, gens: [Channels -> Gens],
                                        scope: SUBSET Channels]
      BY <1>2, <2>1, <2>2, <2>3 DEF Handle, Lose
    <2> QED
      BY <1>2, <2>4 DEF Handle, Lose, TypeOK
  <1>3. CASE CommitOpen
    <2> DEFINE h == handling.req.host
               e == SessionOf[h]
               fresh == endpoints[e].tok + 1
    <2>1. h \in Hosts /\ e \in Endpoints /\ Serves[h] \subseteq Channels
      BY <1>3, HandlingFields, RequestFields, HostsAssumption DEF CommitOpen, Commits
    <2>2. /\ handling' = Idle /\ UNCHANGED <<requests, owner>>
          /\ fresh <= MaxToken[e]
      BY <1>3 DEF CommitOpen, Commits
    <2>3. CASE UNCHANGED <<rows, opened, held>>
      BY <2>2, <2>3 DEF TypeOK
    <2>4. CASE /\ Register(Serves[h]) /\ endpoints' = Registered(e)
               /\ Bind(Serves[h], e, fresh)
               /\ opened' = [opened EXCEPT ![e] = fresh]
               /\ held' \in {held, [held EXCEPT ![h] = [tok |-> fresh,
                                 gens |-> [c \in Channels |->
                                     IF c \in Serves[h] THEN bindings'[c].gen ELSE 0]]]}
      <3>1. fresh \in Tokens /\ endpoints' \in [Endpoints -> [tok: Tokens, lease: Leases]]
        BY <2>1, <2>2, <2>4, RegisteredType
      <3>2. status' \in [Channels -> {"absent", "active", "deleted"}]
        BY <2>4, RegisterType
      <3> HIDE DEF h, e, fresh
      <3>3. /\ bindings' \in [Channels -> [ep: Endpoints \cup {None}, gen: Gens, at: Tokens]]
            /\ presence' \in [Channels -> [ep: Endpoints \cup {None}, gen: Gens]]
        BY <2>1, <2>4, <3>1, BindType
      <3>4. opened' \in [Endpoints -> Tokens]
        BY <2>1, <2>4, <3>1 DEF TypeOK
      <3>5. held' \in [Hosts -> [tok: Tokens, gens: [Channels -> Gens]]]
        <4> DEFINE gens == [c \in Channels |-> IF c \in Serves[h] THEN bindings'[c].gen ELSE 0]
        <4>1. gens \in [Channels -> Gens]
          <5>1. \A c \in Channels : bindings'[c].gen \in Gens
            BY <3>3
          <5>2. 0 \in Gens
            BY HostsAssumption DEF Gens
          <5> QED
            BY <5>1, <5>2
        <4>2. held' \in {held, [held EXCEPT ![h] = [tok |-> fresh, gens |-> gens]]}
          BY <2>4
        <4> HIDE DEF gens
        <4>3. [tok |-> fresh, gens |-> gens] \in [tok: Tokens, gens: [Channels -> Gens]]
          BY <3>1, <4>1
        <4> QED
          BY <4>2, <4>3 DEF TypeOK
      <3> QED
        BY <2>2, <3>1, <3>2, <3>3, <3>4, <3>5 DEF TypeOK
    <2> QED
      BY <1>3, <2>3, <2>4 DEF CommitOpen
  <1>4. ASSUME CommitRenew \/ CommitBoundRenew PROVE TypeOK'
    <2> DEFINE e == SessionOf[handling.req.host]
    <2>1. e \in Endpoints
      BY <1>4, HandlingFields, RequestFields DEF CommitRenew, CommitBoundRenew, Commits
    <2>2. endpoints' = endpoints \/ endpoints' = [endpoints EXCEPT ![e].lease = "live"]
      BY <1>4 DEF CommitRenew, CommitBoundRenew
    <2>3. endpoints' \in [Endpoints -> [tok: Tokens, lease: Leases]]
      <3>1. endpoints \in [Endpoints -> [tok: Tokens, lease: Leases]] /\ "live" \in Leases
        BY DEF TypeOK, Leases
      <3> HIDE DEF e
      <3> QED
        BY <2>1, <2>2, <3>1, LeaseType
    <2> QED
      BY <1>4, <2>3 DEF CommitRenew, CommitBoundRenew, Commits, TypeOK
  <1>5. ASSUME CommitClose \/ CommitBoundClose PROVE TypeOK'
    <2>1. SessionOf[handling.req.host] \in Endpoints
      BY <1>5, HandlingFields, RequestFields DEF CommitClose, CommitBoundClose, Commits
    <2>2. Revoke(SessionOf[handling.req.host]) \/ UNCHANGED <<endpoints, presence>>
      BY <1>5 DEF CommitClose, CommitBoundClose
    <2>3. /\ endpoints' \in [Endpoints -> [tok: Tokens, lease: Leases]]
          /\ presence' \in [Channels -> [ep: Endpoints \cup {None}, gen: Gens]]
      BY <2>1, <2>2, RevokeType DEF TypeOK
    <2> QED
      BY <1>5, <2>3 DEF CommitClose, CommitBoundClose, Commits, TypeOK
  <1>6. CASE CommitPresence
    <2>1. handling # Idle /\ handling.req.op = "presence"
      BY <1>6 DEF CommitPresence, Commits
    <2>2. /\ SessionOf[handling.req.host] \in Endpoints
          /\ handling.req.ch \in Channels /\ handling.req.gen \in Gens
      BY <2>1, HandlingFields, RequestFields
    <2>3. presence' \in [Channels -> [ep: Endpoints \cup {None}, gen: Gens]]
      BY <1>6, <2>2 DEF CommitPresence, TypeOK
    <2> QED
      BY <1>6, <2>3 DEF CommitPresence, Commits, TypeOK
  <1>7. CASE HandlerDies
    BY <1>7 DEF HandlerDies, TypeOK
  <1>8. ASSUME NEW c \in Channels, CreateChannel(c) \/ DeleteChannel(c) PROVE TypeOK'
    <2>1. CASE CreateChannel(c)
      BY <2>1, RegisterType DEF CreateChannel, TypeOK
    <2>2. CASE DeleteChannel(c)
      <3>1. /\ Unbound \in [ep: Endpoints \cup {None}, gen: Gens, at: Tokens]
            /\ NoRow \in [ep: Endpoints \cup {None}, gen: Gens]
        BY HostsAssumption, TokensAreNumbers DEF Unbound, NoRow, Gens
      <3> QED
        BY <2>2, <3>1 DEF DeleteChannel, TypeOK
    <2> QED
      BY <1>8, <2>1, <2>2
  <1>9. ASSUME NEW e \in Endpoints, RegisterEndpoint(e) \/ Lapse(e) PROVE TypeOK'
    <2>1. CASE RegisterEndpoint(e)
      <3>1. endpoints[e].tok + 1 <= MaxToken[e]
        BY <2>1, TokensAreNumbers, HostsAssumption DEF RegisterEndpoint, TypeOK
      <3> QED
        BY <2>1, <3>1, RegisteredType DEF RegisterEndpoint, TypeOK
    <2>2. CASE Lapse(e)
      BY <2>2, LeaseType DEF Lapse, TypeOK, Leases
    <2> QED
      BY <1>9, <2>1, <2>2
  <1>10. ASSUME NEW c \in Channels, NEW e \in Endpoints, TakeoverRead(c, e) PROVE TypeOK'
    <2>1. bindings[c].gen \in Gens
      BY DEF TypeOK
    <2> QED
      BY <1>10, <2>1 DEF TakeoverRead, TypeOK
  <1>11. CASE TakeoverCommit
    <2>1. owner.ch \in Channels /\ owner.ep \in Endpoints
      BY <1>11 DEF TakeoverCommit, TypeOK
    <2>2. endpoints[owner.ep].tok \in Tokens
      BY <2>1 DEF TypeOK
    <2>3. CASE /\ Bind({owner.ch}, owner.ep, endpoints[owner.ep].tok)
               /\ Register({owner.ch})
      <3>1. /\ bindings' \in [Channels -> [ep: Endpoints \cup {None}, gen: Gens, at: Tokens]]
            /\ presence' \in [Channels -> [ep: Endpoints \cup {None}, gen: Gens]]
        BY <2>1, <2>2, <2>3, BindType
      <3>2. status' \in [Channels -> {"absent", "active", "deleted"}]
        BY <2>3, RegisterType
      <3> QED
        BY <1>11, <3>1, <3>2 DEF TakeoverCommit, TypeOK
    <2>4. CASE UNCHANGED <<status, bindings, presence>>
      BY <1>11, <2>4 DEF TakeoverCommit, TypeOK
    <2> QED
      BY <1>11, <2>3, <2>4 DEF TakeoverCommit
  <1>12. CASE UNCHANGED vars
    BY <1>12 DEF vars, TypeOK
  <1> QED
    BY <1>1, <1>2, <1>3, <1>4, <1>5, <1>6, <1>7, <1>8, <1>9, <1>10, <1>11, <1>12
       DEF Next, DaemonStep, OwnerStep

------------------------------------------------------------------------------
(* What a session knows.                                                    *)

\* The token that the last open gave out is one the endpoint has had.
OpenedIsIssued == \A e \in Endpoints : opened[e] <= endpoints[e].tok

\* A close was admitted for a token that no open has replaced, and a bootstrap request of
\* a limited credential with the channels of that credential.
AdmittedAsChecked ==
    handling # Idle =>
        LET r == handling.req IN
        /\ r.op = "close" => r.tok >= opened[SessionOf[r.host]]
        /\ r.op \in BootstrapOps /\ r.host \notin Wild => handling.scope = Scope[r.host]

SessionInv ==
    TypeOK /\ OpenedIsIssued /\ RotatedTogether /\ PresenceEndsWithSession /\ AdmittedAsChecked

\* Numbers that are compared.
LEMMA SessionNumbers ==
    ASSUME TypeOK
    PROVE  /\ \A e \in Endpoints : opened[e] \in Nat /\ endpoints[e].tok \in Nat
           /\ \A c \in Channels : bindings[c].at \in Nat /\ bindings[c].gen \in Nat
                                  /\ bindings[c].ep \in Endpoints \cup {None}
                                  /\ presence[c].ep \in Endpoints \cup {None}
  <1>1. ASSUME NEW e \in Endpoints PROVE opened[e] \in Tokens /\ endpoints[e].tok \in Tokens
    BY DEF TypeOK
  <1>2. ASSUME NEW c \in Channels
        PROVE  /\ bindings[c].at \in Tokens /\ bindings[c].gen \in 0..MaxGen
               /\ bindings[c].ep \in Endpoints \cup {None}
               /\ presence[c].ep \in Endpoints \cup {None}
    BY DEF TypeOK, Gens
  <1> QED
    <2>1. \A g \in 0..MaxGen : g \in Nat
      BY HostsAssumption
    <2> QED
      BY <1>1, <1>2, <2>1, TokensAreNumbers

LEMMA InitSessionInv == Init => SessionInv
  <1> SUFFICES ASSUME Init PROVE SessionInv
    OBVIOUS
  <1>1. OpenedIsIssued /\ AdmittedAsChecked
    BY DEF Init, OpenedIsIssued, AdmittedAsChecked
  <1>2. RotatedTogether /\ PresenceEndsWithSession
    BY DEF Init, RotatedTogether, PresenceEndsWithSession, Unbound, NoRow
  <1> QED
    BY <1>1, <1>2, InitType DEF SessionInv

\* Channels that are bound anew keep what a session knows, when they are bound with a
\* token at least as new as what its last open gave out, by a session that is not closed,
\* and no channel is left behind with an older one.
LEMMA BindKeeps ==
    ASSUME TypeOK, TypeOK', RotatedTogether, PresenceEndsWithSession,
           NEW chans \in SUBSET Channels, NEW e \in Endpoints, NEW tok \in Tokens,
           Bind(chans, e, tok),
           tok >= opened'[e],
           \A f \in Endpoints \ {e} : opened'[f] = opened[f] /\ endpoints'[f] = endpoints[f],
           opened'[e] = opened[e] \/ BoundTo(e) \subseteq chans,
           endpoints'[e] = endpoints[e] \/ endpoints'[e].lease # "closed"
    PROVE  RotatedTogether' /\ PresenceEndsWithSession'
  <1>1. ASSUME NEW c \in Channels, c \in chans
        PROVE  bindings'[c].ep = e /\ bindings'[c].at = tok /\ presence'[c].ep = None
    <2>1. /\ bindings'[c] = [ep |-> e, gen |-> bindings[c].gen + 1, at |-> tok]
          /\ presence'[c] = NoRow
      BY <1>1, BindType
    <2> QED
      BY <2>1 DEF NoRow
  <1>2. ASSUME NEW c \in Channels, c \notin chans
        PROVE  bindings'[c] = bindings[c] /\ presence'[c] = presence[c]
    BY <1>2, BindType
  <1>3. None \notin Endpoints
    BY HostsAssumption
  <1>4. ASSUME NEW c \in Channels, bindings'[c].ep # None
        PROVE  bindings'[c].at >= opened'[bindings'[c].ep]
    <2>1. CASE c \in chans
      BY <2>1, <1>1
    <2>2. CASE c \notin chans
      <3>1. bindings[c].ep \in Endpoints /\ bindings[c].at >= opened[bindings[c].ep]
        BY <1>2, <1>4, <2>2, SessionNumbers DEF RotatedTogether
      <3>2. opened'[bindings[c].ep] = opened[bindings[c].ep]
        BY <2>2, <3>1 DEF BoundTo
      <3> QED
        BY <1>2, <2>2, <3>1, <3>2
    <2> QED
      BY <2>1, <2>2
  <1>5. ASSUME NEW c \in Channels, presence'[c].ep # None
        PROVE  IsBinding(c, presence[c].ep, presence[c].gen)'
               /\ endpoints'[presence'[c].ep].lease # "closed"
    <2>1. c \notin chans
      BY <1>1, <1>5
    <2>2. /\ presence[c].ep \in Endpoints /\ IsBinding(c, presence[c].ep, presence[c].gen)
          /\ endpoints[presence[c].ep].lease # "closed"
      BY <2>1, <1>2, <1>5, SessionNumbers DEF PresenceEndsWithSession
    <2> QED
      BY <2>1, <2>2, <1>2 DEF IsBinding
  <1> QED
    BY <1>4, <1>5 DEF RotatedTogether, PresenceEndsWithSession

\* A lease that ends takes the presence of its session with it.
LEMMA RevokeKeeps ==
    ASSUME TypeOK, PresenceEndsWithSession, NEW e \in Endpoints, Revoke(e), UNCHANGED bindings
    PROVE  /\ PresenceEndsWithSession'
           /\ \A f \in Endpoints : endpoints'[f].tok = endpoints[f].tok
           /\ \A f \in Endpoints \ {e} : endpoints'[f] = endpoints[f]
  <1>1. /\ \A f \in Endpoints : endpoints'[f].tok = endpoints[f].tok
        /\ \A f \in Endpoints \ {e} : endpoints'[f] = endpoints[f]
    BY LeaseType DEF Revoke, Leases
  <1>2. ASSUME NEW c \in Channels, presence'[c].ep # None
        PROVE  IsBinding(c, presence[c].ep, presence[c].gen)'
               /\ endpoints'[presence'[c].ep].lease # "closed"
    <2>1. presence[c].ep # e /\ presence'[c] = presence[c]
      BY <1>2 DEF Revoke, NoRow
    <2>2. presence[c].ep \in Endpoints
      BY <1>2, <2>1, SessionNumbers
    <2> QED
      BY <1>1, <1>2, <2>1, <2>2 DEF PresenceEndsWithSession, IsBinding
  <1> QED
    BY <1>1, <1>2 DEF PresenceEndsWithSession

\* A lease that is live again, or lapses, or is registered again, leaves presence as it is.
LEMMA LeaseKeeps ==
    ASSUME TypeOK, PresenceEndsWithSession, UNCHANGED <<bindings, presence>>,
           \A e \in Endpoints : endpoints'[e].lease = endpoints[e].lease
                                \/ endpoints'[e].lease # "closed"
    PROVE  PresenceEndsWithSession'
  <1>1. \A c \in Channels : presence[c].ep # None => presence[c].ep \in Endpoints
    BY SessionNumbers
  <1> QED
    BY <1>1 DEF PresenceEndsWithSession, IsBinding

\* Tokens that only move on keep what was given out and what was checked.
LEMMA TokensKeep ==
    ASSUME TypeOK, TypeOK', OpenedIsIssued, RotatedTogether, UNCHANGED <<opened, bindings>>,
           \A e \in Endpoints : endpoints'[e].tok >= endpoints[e].tok
    PROVE  OpenedIsIssued' /\ RotatedTogether'
  <1>1. \A e \in Endpoints : endpoints'[e].tok \in Nat /\ endpoints[e].tok \in Nat
                             /\ opened[e] \in Nat
    BY TokensAreNumbers DEF TypeOK
  <1> QED
    BY <1>1 DEF OpenedIsIssued, RotatedTogether

LEMMA HandlingKeeps ==
    ASSUME AdmittedAsChecked, handling' = Idle \/ UNCHANGED <<handling, opened>>
    PROVE  AdmittedAsChecked'
  BY DEF AdmittedAsChecked

LEMMA CommitOpenKeeps ==
    ASSUME SessionInv, TypeOK', CommitOpen
    PROVE  OpenedIsIssued' /\ RotatedTogether' /\ PresenceEndsWithSession'
  <1> DEFINE h == handling.req.host
             e == SessionOf[h]
             fresh == endpoints[e].tok + 1
  <1>1. h \in Hosts /\ e \in Endpoints /\ Serves[h] \subseteq Channels
    BY HandlingFields, RequestFields, HostsAssumption DEF CommitOpen, Commits, SessionInv
  <1>2. fresh <= MaxToken[e]
    BY DEF CommitOpen
  <1>3. CASE UNCHANGED <<rows, opened, held>>
    BY <1>3 DEF SessionInv, rows, OpenedIsIssued, RotatedTogether, PresenceEndsWithSession,
                IsBinding
  <1>4. CASE /\ BoundTo(e) \subseteq Serves[h]
             /\ endpoints' = Registered(e)
             /\ Bind(Serves[h], e, fresh)
             /\ opened' = [opened EXCEPT ![e] = fresh]
    <2>1. /\ endpoints'[e].tok = fresh /\ endpoints'[e].lease = "live" /\ fresh \in Tokens
          /\ \A f \in Endpoints \ {e} : endpoints'[f] = endpoints[f]
      <3>1. endpoints'[e] = [tok |-> fresh, lease |-> "live"]
        BY <1>1, <1>2, <1>4, RegisteredType DEF SessionInv
      <3> QED
        BY <1>1, <1>2, <1>4, <3>1, RegisteredType DEF SessionInv
    <2> HIDE DEF h, e, fresh
    <2>2. /\ opened'[e] = fresh
          /\ \A f \in Endpoints \ {e} : opened'[f] = opened[f]
      BY <1>1, <1>4 DEF SessionInv, TypeOK
    <2>3. fresh >= opened'[e] /\ fresh \in Nat
      BY <2>1, <2>2, TokensAreNumbers
    <2>4. RotatedTogether' /\ PresenceEndsWithSession'
      <3>1. endpoints'[e].lease # "closed"
        BY <2>1
      <3> QED
        BY <1>1, <1>4, <2>1, <2>2, <2>3, <3>1, BindKeeps DEF SessionInv
    <2>5. OpenedIsIssued'
      BY <2>1, <2>2, <2>3 DEF OpenedIsIssued, SessionInv
    <2> QED
      BY <2>4, <2>5
  <1> QED
    BY <1>3, <1>4 DEF CommitOpen

\* A handler begins only with what it has checked.
LEMMA HandleKeeps ==
    ASSUME SessionInv, NEW r \in requests, Handle(r)
    PROVE  AdmittedAsChecked'
  <1>1. r \in Request
    BY DEF SessionInv, TypeOK
  <1>2. CASE handling' # Idle
    <2>1. /\ Admitted(r) /\ handling'.req = r /\ opened' = opened
          /\ handling'.scope = IF r.op \in BootstrapOps THEN ScopeOf(r.host) ELSE {}
      BY <1>2 DEF Handle
    <2>2. ASSUME r.op = "close" PROVE r.tok >= opened[SessionOf[r.host]]
      <3>1. SessionOf[r.host] \in Endpoints
        BY <1>1, RequestFields DEF SessionInv, TypeOK
      <3>2. Authorized(SessionOf[r.host], r.tok)
        BY <2>1, <2>2 DEF Admitted, TokenOps, BootstrapOps
      <3> QED
        BY <3>1, <3>2, SessionNumbers DEF Authorized, SessionInv, OpenedIsIssued
    <2> QED
      BY <2>1, <2>2 DEF AdmittedAsChecked, ScopeOf
  <1> QED
    BY <1>2 DEF AdmittedAsChecked

LEMMA TakeoverKeeps ==
    ASSUME SessionInv, TypeOK', TakeoverCommit
    PROVE  RotatedTogether' /\ PresenceEndsWithSession'
  <1>1. /\ owner.ch \in Channels /\ owner.ep \in Endpoints
        /\ UNCHANGED <<endpoints, opened, held, requests, handling>>
    BY DEF TakeoverCommit, SessionInv, TypeOK
  <1>2. endpoints[owner.ep].tok \in Tokens /\ endpoints[owner.ep].tok >= opened'[owner.ep]
    BY <1>1, SessionNumbers DEF SessionInv, TypeOK, OpenedIsIssued
  <1>3. CASE UNCHANGED <<status, bindings, presence>>
    BY <1>1, <1>3 DEF SessionInv, RotatedTogether, PresenceEndsWithSession, IsBinding
  <1>4. CASE Bind({owner.ch}, owner.ep, endpoints[owner.ep].tok)
    BY <1>1, <1>2, <1>4, BindKeeps DEF SessionInv
  <1> QED
    BY <1>3, <1>4 DEF TakeoverCommit

LEMMA DeleteKeeps ==
    ASSUME SessionInv, NEW c \in Channels, DeleteChannel(c)
    PROVE  RotatedTogether' /\ PresenceEndsWithSession'
  <1>1. /\ UNCHANGED <<endpoints, opened>>
        /\ bindings'[c].ep = None /\ presence'[c].ep = None
        /\ \A d \in Channels \ {c} : bindings'[d] = bindings[d] /\ presence'[d] = presence[d]
    BY DEF DeleteChannel, SessionInv, TypeOK, Unbound, NoRow
  <1> QED
    BY <1>1 DEF SessionInv, RotatedTogether, PresenceEndsWithSession, IsBinding

\* Presence is only written for the binding and the lease of that moment.
LEMMA PresenceKeeps ==
    ASSUME SessionInv, CommitPresence
    PROVE  PresenceEndsWithSession'
  <1> DEFINE r == handling.req
             e == SessionOf[r.host]
  <1>1. CASE UNCHANGED presence
    BY <1>1, LeaseKeeps DEF CommitPresence, SessionInv
  <1>2. CASE PresenceOk /\ presence' = [presence EXCEPT ![r.ch] = [ep |-> e, gen |-> r.gen]]
    <2>1. handling # Idle /\ handling.req.op = "presence" /\ UNCHANGED <<endpoints, bindings>>
      BY DEF CommitPresence, Commits
    <2>2. r.ch \in Channels
      BY <2>1, HandlingFields, RequestFields DEF SessionInv
    <2>3. IsBinding(r.ch, e, r.gen) /\ endpoints[e].lease = "live"
      BY <1>2 DEF PresenceOk, Authorized, IsLive
    <2> HIDE DEF e, r
    <2>4. /\ presence'[r.ch].ep = e /\ presence'[r.ch].gen = r.gen
          /\ \A d \in Channels \ {r.ch} : presence'[d] = presence[d]
      BY <1>2, <2>2 DEF SessionInv, TypeOK
    <2> QED
      BY <2>1, <2>3, <2>4 DEF SessionInv, PresenceEndsWithSession, IsBinding
  <1> QED
    BY <1>1, <1>2 DEF CommitPresence

\* What a step that leaves bindings and what was given out alone keeps: the tokens of the
\* endpoints do not go back.
LEMMA LeaseStepKeeps ==
    ASSUME SessionInv, TypeOK', UNCHANGED <<opened, bindings, presence>>,
           handling' = Idle \/ UNCHANGED handling,
           \A e \in Endpoints : /\ endpoints'[e].tok >= endpoints[e].tok
                                /\ \/ endpoints'[e].lease = endpoints[e].lease
                                   \/ endpoints'[e].lease # "closed"
    PROVE  SessionInv'
  BY TokensKeep, LeaseKeeps, HandlingKeeps DEF SessionInv

LEMMA NextKeepsSessionInv == SessionInv /\ [Next]_vars => SessionInv'
  <1> SUFFICES ASSUME SessionInv, [Next]_vars PROVE SessionInv'
    OBVIOUS
  <1>t. TypeOK /\ TypeOK'
    BY NextKeepsTypes DEF SessionInv
  <1>n. \A e \in Endpoints : endpoints[e].tok \in Nat
    BY <1>t, SessionNumbers
  \* A step that only moves requests.
  <1>s. ASSUME UNCHANGED <<endpoints, bindings, presence, opened>>,
               handling' = Idle \/ UNCHANGED handling
        PROVE  SessionInv'
    BY <1>s, <1>t, <1>n, LeaseStepKeeps
  <1>1. ASSUME NEW h \in Hosts, HostStep(h) PROVE SessionInv'
    BY <1>1, <1>s DEF HostStep, Open, UseToken, UseBootstrap, Send, rows
  <1>2. ASSUME NEW r \in requests, Handle(r) \/ Lose(r) PROVE SessionInv'
    <2>1. CASE Lose(r)
      BY <2>1, <1>s DEF Lose, rows
    <2>2. CASE Handle(r)
      <3>1. AdmittedAsChecked'
        BY <2>2, HandleKeeps
      <3>2. UNCHANGED <<endpoints, bindings, presence, opened>>
        BY <2>2 DEF Handle, rows
      <3>3. OpenedIsIssued' /\ RotatedTogether' /\ PresenceEndsWithSession'
        BY <3>2, <1>t, <1>n, TokensKeep, LeaseKeeps DEF SessionInv
      <3> QED
        BY <1>t, <3>1, <3>3 DEF SessionInv
    <2> QED
      BY <1>2, <2>1, <2>2
  <1>3. CASE CommitOpen
    <2>1. AdmittedAsChecked'
      BY <1>3, HandlingKeeps DEF CommitOpen, Commits, SessionInv
    <2> QED
      BY <1>3, <1>t, <2>1, CommitOpenKeeps DEF SessionInv
  <1>4. ASSUME CommitRenew \/ CommitBoundRenew PROVE SessionInv'
    <2> DEFINE e == SessionOf[handling.req.host]
    <2>1. e \in Endpoints
      BY <1>4, <1>t, HandlingFields, RequestFields DEF CommitRenew, CommitBoundRenew, Commits
    <2>2. endpoints' = endpoints \/ endpoints' = [endpoints EXCEPT ![e].lease = "live"]
      BY <1>4 DEF CommitRenew, CommitBoundRenew
    <2>3. handling' = Idle /\ UNCHANGED <<opened, bindings, presence>>
      BY <1>4 DEF CommitRenew, CommitBoundRenew, Commits
    <2> HIDE DEF e
    <2>4. "live" \in Leases
      BY DEF Leases
    <2>5. \A f \in Endpoints : /\ endpoints'[f].tok = endpoints[f].tok
                               /\ \/ endpoints'[f].lease = endpoints[f].lease
                                  \/ endpoints'[f].lease = "live"
      <3>1. CASE endpoints' = endpoints
        BY <3>1
      <3>2. CASE endpoints' = [endpoints EXCEPT ![e].lease = "live"]
        BY <2>1, <2>4, <3>2, <1>t, LeaseType
      <3> QED
        BY <2>2, <3>1, <3>2
    <2> QED
      BY <1>t, <1>n, <2>3, <2>5, LeaseStepKeeps
  <1>5. ASSUME CommitClose \/ CommitBoundClose PROVE SessionInv'
    <2> DEFINE e == SessionOf[handling.req.host]
    <2>1. e \in Endpoints
      BY <1>5, <1>t, HandlingFields, RequestFields DEF CommitClose, CommitBoundClose, Commits
    <2>2. handling' = Idle /\ UNCHANGED <<opened, bindings>>
      BY <1>5 DEF CommitClose, CommitBoundClose, Commits
    <2>3. CASE Revoke(e)
      <3>1. /\ PresenceEndsWithSession'
            /\ \A f \in Endpoints : endpoints'[f].tok = endpoints[f].tok
        BY <2>1, <2>2, <2>3, <1>t, RevokeKeeps DEF SessionInv
      <3>2. OpenedIsIssued' /\ RotatedTogether'
        BY <2>2, <3>1, <1>t, <1>n, TokensKeep DEF SessionInv
      <3> QED
        BY <1>t, <2>2, <3>1, <3>2, HandlingKeeps DEF SessionInv
    <2>4. CASE UNCHANGED <<endpoints, presence>>
      BY <2>2, <2>4, <1>s
    <2> QED
      BY <1>5, <2>3, <2>4 DEF CommitClose, CommitBoundClose
  <1>6. CASE CommitPresence
    <2>1. UNCHANGED <<endpoints, bindings, opened>> /\ handling' = Idle
      BY <1>6 DEF CommitPresence, Commits
    <2> QED
      BY <1>6, <1>t, <1>n, <2>1, PresenceKeeps, TokensKeep, HandlingKeeps DEF SessionInv
  <1>7. CASE HandlerDies
    BY <1>7, <1>s DEF HandlerDies, rows
  <1>8. ASSUME NEW c \in Channels, CreateChannel(c) \/ DeleteChannel(c) PROVE SessionInv'
    <2>1. CASE CreateChannel(c)
      BY <2>1, <1>s DEF CreateChannel
    <2>2. CASE DeleteChannel(c)
      <3>1. OpenedIsIssued' /\ AdmittedAsChecked'
        BY <2>2 DEF DeleteChannel, SessionInv, OpenedIsIssued, AdmittedAsChecked
      <3> QED
        BY <2>2, <1>t, <3>1, DeleteKeeps DEF SessionInv
    <2> QED
      BY <1>8, <2>1, <2>2
  <1>9. ASSUME NEW e \in Endpoints, RegisterEndpoint(e) \/ Lapse(e) PROVE SessionInv'
    <2>1. UNCHANGED <<opened, bindings, presence, handling>>
      BY <1>9 DEF RegisterEndpoint, Lapse
    <2>2. CASE RegisterEndpoint(e)
      <3>1. endpoints[e].tok + 1 <= MaxToken[e]
        BY <2>2, <1>n, HostsAssumption DEF RegisterEndpoint
      <3>2. /\ Registered(e)[e] = [tok |-> endpoints[e].tok + 1, lease |-> "live"]
            /\ \A f \in Endpoints \ {e} : Registered(e)[f] = endpoints[f]
        BY <3>1, <1>t, RegisteredType
      <3>3. endpoints'[e].tok = endpoints[e].tok + 1 /\ endpoints'[e].lease = "live"
        BY <2>2, <3>2 DEF RegisterEndpoint
      <3>4. \A f \in Endpoints \ {e} : endpoints'[f] = endpoints[f]
        BY <2>2, <3>2 DEF RegisterEndpoint
      <3> QED
        BY <1>t, <1>n, <2>1, <3>3, <3>4, LeaseStepKeeps
    <2>3. CASE Lapse(e)
      <3>1. "lapsed" \in Leases
        BY DEF Leases
      <3>2. \A f \in Endpoints : /\ endpoints'[f].tok = endpoints[f].tok
                                 /\ \/ endpoints'[f].lease = endpoints[f].lease
                                    \/ endpoints'[f].lease = "lapsed"
        BY <2>3, <3>1, <1>t, LeaseType DEF Lapse
      <3> QED
        BY <1>t, <1>n, <2>1, <3>2, LeaseStepKeeps
    <2> QED
      BY <1>9, <2>2, <2>3
  <1>10. ASSUME NEW c \in Channels, NEW e \in Endpoints, TakeoverRead(c, e) PROVE SessionInv'
    BY <1>10, <1>s DEF TakeoverRead, rows
  <1>11. CASE TakeoverCommit
    <2>1. UNCHANGED <<endpoints, opened, handling>>
      BY <1>11 DEF TakeoverCommit
    <2>2. OpenedIsIssued'
      BY <2>1 DEF OpenedIsIssued, SessionInv
    <2> QED
      BY <1>11, <1>t, <2>1, <2>2, TakeoverKeeps, HandlingKeeps DEF SessionInv
  <1>12. CASE UNCHANGED vars
    BY <1>12, <1>s DEF vars
  <1> QED
    BY <1>1, <1>2, <1>3, <1>4, <1>5, <1>6, <1>7, <1>8, <1>9, <1>10, <1>11, <1>12
       DEF Next, DaemonStep, OwnerStep

LEMMA SessionInvHolds == Spec => []SessionInv
  BY InitSessionInv, NextKeepsSessionInv, PTL DEF Spec

\* The rows of the session routes have their types: whatever a handler read before its
\* transaction, what it writes is a token, a generation and a lease state of the schema.
THEOREM TypeCorrect == Spec => []TypeOK
  <1>1. SessionInv => TypeOK
    BY DEF SessionInv
  <1> QED
    BY <1>1, SessionInvHolds, PTL

\* registerHostSession rotates the token and the generations of all the channels of a
\* session together: no binding is older than what the last open gave out.
THEOREM SessionRotatesTogether == Spec => []RotatedTogether
  <1>1. SessionInv => RotatedTogether
    BY DEF SessionInv
  <1> QED
    BY <1>1, SessionInvHolds, PTL

\* Presence never outlives the binding or the session it was reported for.
THEOREM PresenceIsOfSession == Spec => []PresenceEndsWithSession
  <1>1. SessionInv => PresenceEndsWithSession
    BY DEF SessionInv
  <1> QED
    BY <1>1, SessionInvHolds, PTL

\* The lease that a step of a handler changes is its session's, and it changes it with a
\* right that no later open has replaced.
LEMMA HandlerHasTheRight ==
    ASSUME SessionInv, [Next]_vars, NEW e \in Endpoints,
           handling # Idle, handling' = Idle, endpoints'[e].lease # endpoints[e].lease
    PROVE  LET r == handling.req IN
           /\ e = SessionOf[r.host]
           /\ r.op \in TokenOps => r.tok >= opened[e]
           /\ r.op \in BootstrapOps =>
                 /\ bindings[r.ch].at >= opened[e]
                 /\ r.host \in Wild \/ BoundTo(e) \subseteq Scope[r.host]
  <1> DEFINE r == handling.req
             s == SessionOf[r.host]
  <1>t. TypeOK /\ OpenedIsIssued /\ RotatedTogether /\ AdmittedAsChecked
    BY DEF SessionInv
  <1>r. r \in Request /\ r.host \in Hosts /\ s \in Endpoints
    BY <1>t, HandlingFields, RequestFields
  <1>o. \A f \in Endpoints : opened[f] \in Nat /\ endpoints[f].tok \in Nat
    BY <1>t, SessionNumbers
  <1>c. endpoints' # endpoints
    OBVIOUS
  <1>1. CASE CommitOpen
    <2>1. endpoints[s].tok + 1 <= MaxToken[s] /\ endpoints' = Registered(s)
      BY <1>1, <1>c DEF CommitOpen, rows
    <2>2. e = s
      BY <1>t, <1>r, <2>1, RegisteredType
    <2>3. r.op = "open"
      BY <1>1 DEF CommitOpen, Commits
    <2> QED
      BY <2>2, <2>3 DEF TokenOps, BootstrapOps
  <1>2. CASE CommitRenew
    <2>1. /\ r.op = "renew" /\ endpoints[s].tok = r.tok
          /\ endpoints' = [endpoints EXCEPT ![s].lease = "live"]
      BY <1>2, <1>c DEF CommitRenew, Commits
    <2>2. e = s
      BY <1>t, <2>1 DEF TypeOK
    <2> QED
      BY <1>t, <1>o, <2>1, <2>2 DEF OpenedIsIssued, BootstrapOps
  <1>3. CASE CommitClose
    <2>1. r.op = "close" /\ Revoke(s)
      BY <1>3 DEF CommitClose, Commits
    <2>2. e = s
      BY <1>t, <2>1 DEF Revoke, TypeOK
    <2> QED
      BY <1>t, <2>1, <2>2 DEF AdmittedAsChecked, BootstrapOps
  <1>4. CASE CommitBoundRenew \/ CommitBoundClose
    <2>1. r.op \in BootstrapOps /\ BoundOk
      BY <1>4, <1>c DEF CommitBoundRenew, CommitBoundClose, Commits, BootstrapOps
    <2>2. endpoints' = [endpoints EXCEPT ![s].lease = "live"]
          \/ endpoints' = [endpoints EXCEPT ![s].lease = "closed"]
      BY <1>4, <1>c DEF CommitBoundRenew, CommitBoundClose, Revoke
    <2>3. e = s
      BY <1>t, <2>2 DEF TypeOK
    <2>4. r.ch \in Channels /\ bindings[r.ch].ep = s /\ BoundTo(s) \subseteq handling.scope
      BY <1>r, <2>1, RequestFields DEF BoundOk, IsBinding
    <2>5. bindings[r.ch].at >= opened[s]
      BY <1>t, <1>r, <2>4, HostsAssumption DEF RotatedTogether
    <2>6. r.host \in Wild \/ BoundTo(s) \subseteq Scope[r.host]
      BY <1>t, <2>1, <2>4 DEF AdmittedAsChecked
    <2>7. r.op \notin TokenOps
      BY <2>1 DEF TokenOps, BootstrapOps
    <2> QED
      BY <2>1, <2>3, <2>5, <2>6, <2>7
  <1>5. ASSUME CommitPresence \/ HandlerDies PROVE FALSE
    BY <1>5, <1>c DEF CommitPresence, HandlerDies, rows
  <1>6. ASSUME NEW h \in Hosts, HostStep(h) PROVE FALSE
    BY <1>6, <1>c DEF HostStep, Open, UseToken, UseBootstrap, Send, rows
  <1>7. ASSUME NEW q \in requests, Handle(q) \/ Lose(q) PROVE FALSE
    BY <1>7, <1>c DEF Handle, Lose, rows
  <1>8. ASSUME OwnerStep \/ (\E f \in Endpoints : Lapse(f)) \/ UNCHANGED vars PROVE FALSE
    BY <1>8 DEF OwnerStep, Lapse, CreateChannel, DeleteChannel, RegisterEndpoint, TakeoverRead,
                TakeoverCommit, vars
  <1> QED
    BY <1>1, <1>2, <1>3, <1>4, <1>5, <1>6, <1>7, <1>8 DEF Next, DaemonStep

\* A host acts on the lease of its session only with what the last open gave out, or with
\* a bootstrap credential that covers all that the session serves at that moment.
THEOREM LeaseIsItsOwn == Spec => OnlyItsOwnLease
  <1> DEFINE Acts == \A e \in Endpoints :
        (handling # Idle /\ handling' = Idle /\ endpoints'[e].lease # endpoints[e].lease) =>
            LET r == handling.req IN
            /\ e = SessionOf[r.host]
            /\ r.op \in TokenOps => r.tok >= opened[e]
            /\ r.op \in BootstrapOps =>
                  /\ bindings[r.ch].at >= opened[e]
                  /\ r.host \in Wild \/ BoundTo(e) \subseteq Scope[r.host]
  <1>1. SessionInv /\ [Next]_vars => [Acts]_vars
    BY HandlerHasTheRight
  <1> QED
    BY <1>1, SessionInvHolds, PTL DEF Spec, OnlyItsOwnLease
=============================================================================
