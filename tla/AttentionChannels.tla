------------------------- MODULE AttentionChannels -------------------------
(***************************************************************************)
(* Who may be woken where: attention channels, host endpoints, the         *)
(* bindings between them, foreground presence, and the inactivity watch of *)
(* a channel (src/src/core.ts).                                            *)
(*                                                                         *)
(* Hosts, agents, operators and the scheduler share one SQLite file from   *)
(* several processes.  An operation that reads rows and then writes in a   *)
(* transaction is a read step, which leaves what it read in a call, and a  *)
(* commit step, with other operations between them; operations that are    *)
(* one statement, or whose transaction repeats every check, are one step.  *)
(*                                                                         *)
(* Abstractions.                                                           *)
(*  - Time is a choice: a watch is due at any moment, and an endpoint lease *)
(*    runs out, is renewed, or has its token rotated at any moment.  A call  *)
(*    that needs a valid lease may therefore be refused at each of its steps *)
(*    (Refused), and leases and tokens are no state here.  An activity       *)
(*    lease, which only delays a watch, is left out as well.                 *)
(*  - A repeated observation id writes nothing; each observation is new.   *)
(*  - Batches and nonces of a channel are in DeliveryOutbox, its claims    *)
(*    and events in ClaimIngest.  latest names the last one of the watch.  *)
(***************************************************************************)
EXTENDS Integers, FiniteSets

CONSTANTS
    Channels, Endpoints,
    Watched,      \* the channel whose presence and watch are followed
    Sessions,     \* sets of channels that hosts register together
    MaxChannels,  \* config.max_channels
    Procs,        \* calls that may be between their read and their commit
    None,
    MaxGen, MaxEpoch, MaxSeq   \* bounds

ASSUME ChannelsAssumption ==
    /\ Watched \in Channels
    /\ Sessions \subseteq (SUBSET Channels) \ {{}}
    /\ \A s \in Sessions : IsFiniteSet(s)
    /\ None \notin Channels \cup Endpoints
    /\ \A n \in {MaxChannels, MaxGen, MaxEpoch, MaxSeq} : n \in Nat \ {0}

VARIABLES
    status,     \* attention_channels: "absent", "active" or "deleted"
    bindings,   \* bindings: [ep, gen], or Unbound
    presence,   \* the presence_leases row of Watched: [ep, gen], or Unbound
    watch,      \* the activity_watches row of Watched
    latest,     \* <<generation, epoch, sequence>> of the latest claim it created
    calls       \* what the calls under way have read

vars == <<status, bindings, presence, watch, latest, calls>>

------------------------------------------------------------------------------
\* Channels that some host serves; the others only count for the limit.
HostChannels == UNION Sessions

Unbound  == [ep |-> None, gen |-> 0]
Binding  == {Unbound} \cup [ep: Endpoints, gen: 1..MaxGen]

Modes  == {"once", "repeat"}
Watch  == [st: {"none", "on", "off"}, mode: Modes, ep: Endpoints \cup {None}, gen: 0..MaxGen,
           epoch: 0..MaxEpoch,
           active: BOOLEAN,    \* last_nonwake_activity_at is set
           fired: BOOLEAN,     \* fired_epoch = epoch
           seq: 0..MaxSeq,
           due: BOOLEAN]       \* next_due_at is set
NoWatch == [st |-> "none", mode |-> "once", ep |-> None, gen |-> 0, epoch |-> 0,
            active |-> FALSE, fired |-> FALSE, seq |-> 0, due |-> FALSE]

Idle == [op |-> "idle"]
Call ==
    {Idle}
    \cup [op: {"takeover"}, ch: Channels, ep: Endpoints, gen: 0..MaxGen]
    \cup (UNION {[op: {"session"}, ep: Endpoints, gens: [s -> 0..MaxGen]] : s \in Sessions})
    \cup [op: {"configure"}, how: {"insert", "enable", "change"}, on: BOOLEAN, mode: Modes,
          due: BOOLEAN, bound: Binding]
    \cup [op: {"observe"}, own: BOOLEAN, baseline: BOOLEAN, bound: Binding]
    \cup [op: {"fire"}, mode: Modes, ep: Endpoints, gen: 1..MaxGen, epoch: 1..MaxEpoch,
          fired: BOOLEAN, seq: 0..MaxSeq]

\* Types of the rows and of what calls remember of them.
TypeOK ==
    /\ status \in [Channels -> {"absent", "active", "deleted"}]
    /\ bindings \in [Channels -> Binding]
    /\ presence \in Binding
    /\ watch \in Watch
    /\ latest \in (0..MaxGen) \X (0..MaxEpoch) \X (0..MaxSeq)
    /\ calls \in [Procs -> Call]

Init ==
    /\ status = [c \in Channels |-> "absent"]
    /\ bindings = [c \in Channels |-> Unbound]
    /\ presence = Unbound
    /\ watch = NoWatch
    /\ latest = <<0, 0, 0>>
    /\ calls = [p \in Procs |-> Idle]

Begin(p, call) == calls[p] = Idle /\ calls' = [calls EXCEPT ![p] = call]
Return(p)      == calls' = [calls EXCEPT ![p] = Idle]

------------------------------------------------------------------------------
(* Channels.                                                                *)

Active == {c \in Channels : status[c] = "active"}

\* Mutant: the channels to register are not counted.
MayRegisterUncounted(chans) ==
    /\ \A c \in chans : status[c] # "deleted"
    /\ (\E c \in chans : status[c] = "absent") => Cardinality(Active) <= MaxChannels

\* channelGuardSql: a write that names chans may register those it does not find,
\* within the limit; a deleted channel is never written again.
MayRegister(chans) ==
    LET new == {c \in chans : status[c] = "absent"} IN
    /\ \A c \in chans : status[c] # "deleted"
    /\ new # {} => Cardinality(Active) + Cardinality(new) <= MaxChannels

Register(chans) == status' = [c \in Channels |-> IF c \in chans THEN "active" ELSE status[c]]

CreateChannel(c) ==
    /\ status[c] = "absent" /\ MayRegister({c})
    /\ Register({c})
    /\ UNCHANGED <<bindings, presence, watch, latest, calls>>

Rearmed(w) == [w EXCEPT !.ep = None, !.gen = 0, !.epoch = @ + 1, !.active = FALSE,
                        !.fired = FALSE, !.due = FALSE]

\* Forced, or not in use: no binding, no enabled watch (policies are in ClaimIngest).
DeleteChannel(c, force) ==
    /\ status[c] = "active"
    /\ force \/ (bindings[c] = Unbound /\ ~(c = Watched /\ watch.st = "on"))
    /\ status' = [status EXCEPT ![c] = "deleted"]
    /\ bindings' = [bindings EXCEPT ![c] = Unbound]
    /\ presence' = IF c = Watched THEN Unbound ELSE presence
    /\ watch' = IF c = Watched /\ watch.st # "none"
                THEN [Rearmed(watch) EXCEPT !.st = "off"] ELSE watch
    /\ watch'.epoch <= MaxEpoch
    /\ UNCHANGED <<latest, calls>>

------------------------------------------------------------------------------
(* Endpoints.                                                               *)

\* revokeEndpoint and revokeBoundEndpoint: whoever held the token, or the binding, at
\* their check, which for the former is before the transaction.
RevokeEndpoint(e) ==
    /\ presence' = IF presence.ep = e THEN Unbound ELSE presence
    /\ UNCHANGED <<status, bindings, watch, latest, calls>>

------------------------------------------------------------------------------
(* Bindings.                                                                *)

\* bindingTakeoverStatements for the channels of gens, each at the generation after
\* the one that was read.
TakeOver(e, gens) ==
    /\ \A c \in DOMAIN gens : gens[c] < MaxGen
    /\ bindings' = [c \in Channels |-> IF c \in DOMAIN gens
                                       THEN [ep |-> e, gen |-> gens[c] + 1] ELSE bindings[c]]
    /\ presence' = IF Watched \in DOMAIN gens THEN Unbound ELSE presence
    /\ watch' = IF Watched \in DOMAIN gens /\ watch.st # "none"
                THEN [Rearmed(watch) EXCEPT !.seq = 0] ELSE watch
    /\ watch'.epoch <= MaxEpoch

Unchanged(gens) == \A c \in DOMAIN gens : bindings[c].gen = gens[c]

TakeoverRead(p, c, e) ==
    /\ status[c] # "deleted"
    /\ Begin(p, [op |-> "takeover", ch |-> c, ep |-> e, gen |-> bindings[c].gen])
    /\ UNCHANGED <<status, bindings, presence, watch, latest>>

\* Mutant: the generation is not compared again.
TakeoverCommitUnfenced(p) ==
    LET r == calls[p] IN
    /\ r.op = "takeover"
    /\ Return(p)
    /\ IF MayRegister({r.ch})
       THEN TakeOver(r.ep, [c \in {r.ch} |-> r.gen]) /\ Register({r.ch})
       ELSE UNCHANGED <<status, bindings, presence, watch>>
    /\ UNCHANGED latest

TakeoverCommit(p) ==
    LET r == calls[p] IN
    /\ r.op = "takeover"
    /\ Return(p)
    /\ IF MayRegister({r.ch}) /\ bindings[r.ch].gen = r.gen
       THEN TakeOver(r.ep, [c \in {r.ch} |-> r.gen]) /\ Register({r.ch})
       ELSE UNCHANGED <<status, bindings, presence, watch>>
    /\ UNCHANGED latest

\* registerHostSession takes over all channels it names; it must
\* name every channel of the endpoint.
SessionRead(p, e, s) ==
    /\ Begin(p, [op |-> "session", ep |-> e, gens |-> [c \in s |-> bindings[c].gen]])
    /\ UNCHANGED <<status, bindings, presence, watch, latest>>

SessionCommit(p) ==
    LET r == calls[p] IN
    /\ r.op = "session"
    /\ Return(p)
    /\ IF /\ MayRegister(DOMAIN r.gens)
          /\ {c \in Channels : bindings[c].ep = r.ep} \subseteq DOMAIN r.gens
          /\ Unchanged(r.gens)
       THEN /\ TakeOver(r.ep, r.gens) /\ Register(DOMAIN r.gens)
       ELSE UNCHANGED <<status, bindings, presence, watch>>
    /\ UNCHANGED latest

\* The transaction repeats the checks of the lease and of the binding.
RenewPresence ==
    /\ bindings[Watched] # Unbound /\ status[Watched] = "active"
    /\ presence' = bindings[Watched]
    /\ UNCHANGED <<status, bindings, watch, latest, calls>>

------------------------------------------------------------------------------
(* The inactivity watch.                                                    *)

IsBoundTo(w, b) == b # Unbound /\ w.ep = b.ep /\ w.gen = b.gen

\* configureActivityWatch reads the row and the binding, and decides what to write.
\* Settings equal to the row's write nothing.
ConfigureRead(p, on, mode) ==
    LET how == IF watch.st = "none" THEN "insert"
               ELSE IF watch.st = "off" /\ on THEN "enable" ELSE "change"
    IN  /\ status[Watched] # "deleted"
        /\ Begin(p, [op |-> "configure", how |-> how, on |-> on, mode |-> mode,
                     due |-> how = "change" /\ on /\ mode = "repeat" /\ watch.fired,
                     bound |-> IF how = "change" THEN Unbound ELSE bindings[Watched]])
        /\ UNCHANGED <<status, bindings, presence, watch, latest>>

\* The INSERT of a new watch fails when there is one by now.
Configured(r) ==
    LET bare  == [watch EXCEPT !.st = IF r.on THEN "on" ELSE "off", !.mode = r.mode]
        armed == [Rearmed(bare) EXCEPT !.ep = r.bound.ep, !.gen = r.bound.gen, !.seq = 0]
    IN  CASE r.how = "insert" -> IF watch.st = "none" THEN armed ELSE watch
          [] r.how = "enable" -> armed
          [] r.how = "change" -> [bare EXCEPT !.due = r.due]

ConfigureCommit(p) ==
    LET r == calls[p] IN
    /\ r.op = "configure"
    /\ Return(p)
    /\ IF MayRegister({Watched})
       THEN watch' = Configured(r) /\ Register({Watched})
       ELSE UNCHANGED <<status, watch>>
    /\ watch'.epoch <= MaxEpoch
    /\ UNCHANGED <<bindings, presence, latest>>

\* observeActivity by the bound endpoint: own activity of the session, or the end of a
\* wake.  What to write is decided from the row read here.
ObserveRead(p, own) ==
    LET b == bindings[Watched] IN
    /\ b # Unbound /\ watch.st = "on"
    /\ Begin(p, [op |-> "observe", own |-> own, bound |-> b,
                 baseline |-> own /\ (~IsBoundTo(watch, b) \/ ~watch.active \/ watch.fired)])
    /\ UNCHANGED <<status, bindings, presence, watch, latest>>

\* Mutant: a new count after a claim stays in the epoch of the old one.
BaselineSameEpoch(w, b) ==
    [w EXCEPT !.ep = b.ep, !.gen = b.gen, !.active = TRUE, !.fired = FALSE,
              !.seq = 0, !.due = FALSE]

\* The first activity of a generation, or after a claim, starts a new count.
Baseline(w, b) == [w EXCEPT !.ep = b.ep, !.gen = b.gen, !.active = TRUE, !.fired = FALSE,
                            !.seq = 0, !.due = FALSE,
                            !.epoch = IF w.fired THEN @ + 1 ELSE @]

Observed(r) ==
    IF r.baseline THEN {Baseline(watch, r.bound)}
    ELSE IF ~IsBoundTo(watch, r.bound) THEN {watch}
    ELSE IF r.own THEN {watch, [watch EXCEPT !.active = TRUE]}
    ELSE {[watch EXCEPT !.due = @ \/ (watch.mode = "repeat" /\ watch.fired)]}

\* Mutant: the transaction of an observation does not look at the binding.
ObserveCommitUnfenced(p) ==
    LET r == calls[p] IN
    /\ r.op = "observe"
    /\ Return(p)
    /\ IF status[Watched] = "active" /\ watch.st = "on"
       THEN watch' \in Observed(r)
       ELSE UNCHANGED watch
    /\ watch'.epoch <= MaxEpoch
    /\ UNCHANGED <<status, bindings, presence, latest>>

ObserveCommit(p) ==
    LET r == calls[p] IN
    /\ r.op = "observe"
    /\ Return(p)
    /\ IF /\ status[Watched] = "active" /\ bindings[Watched] = r.bound
          /\ watch.st = "on"
       THEN watch' \in Observed(r)
       ELSE UNCHANGED watch
    /\ watch'.epoch <= MaxEpoch
    /\ UNCHANGED <<status, bindings, presence, latest>>

\* materializeDueActivityWatches: a row that is due, of the endpoint bound now.
FireRead(p) ==
    /\ watch.st = "on" /\ watch.active
    /\ watch.fired => watch.mode = "repeat" /\ watch.due
    /\ IsBoundTo(watch, bindings[Watched])
    /\ Begin(p, [op |-> "fire", mode |-> watch.mode, ep |-> watch.ep, gen |-> watch.gen,
                 epoch |-> watch.epoch, fired |-> watch.fired, seq |-> watch.seq])
    /\ UNCHANGED <<status, bindings, presence, watch, latest>>

SequenceOf(row) == IF row.fired THEN row.seq + 1 ELSE 1
ClaimOf(row)    == <<row.gen, row.epoch, SequenceOf(row)>>

\* The predicate of its transaction.
StillDue(row) ==
    /\ status[Watched] = "active" /\ watch.st = "on"
    /\ watch.epoch = row.epoch /\ watch.seq = row.seq
    /\ watch.ep = row.ep /\ watch.gen = row.gen
    /\ watch.fired = row.fired
    /\ row.fired => watch.mode = "repeat" /\ watch.due

FireCommit(p) ==
    LET row == calls[p] IN
    /\ row.op = "fire" /\ SequenceOf(row) <= MaxSeq
    /\ Return(p)
    /\ IF StillDue(row)
       THEN /\ latest' = ClaimOf(row)
            /\ watch' = [watch EXCEPT !.fired = TRUE, !.seq = SequenceOf(row),
                                      !.due = row.mode = "repeat"]
       ELSE UNCHANGED <<latest, watch>>
    /\ UNCHANGED <<status, bindings, presence>>

\* A call dies between its read and its transaction, or is refused there.
Refused(p) ==
    /\ calls[p] # Idle
    /\ Return(p)
    /\ UNCHANGED <<status, bindings, presence, watch, latest>>

------------------------------------------------------------------------------
\* What hosts, agents and the owner may ask for: first what is one step, then the reads.
HostStep ==
    \/ \E e \in Endpoints : RevokeEndpoint(e)
    \/ RenewPresence

ChannelStep ==
    \E c \in Channels : CreateChannel(c) \/ \E force \in BOOLEAN : DeleteChannel(c, force)

BindingCall(p) ==
    \/ \E c \in HostChannels : \E e \in Endpoints : TakeoverRead(p, c, e)
    \/ \E e \in Endpoints : \E s \in Sessions : SessionRead(p, e, s)
    \/ \E own \in BOOLEAN : ObserveRead(p, own)

WatchCall(p) == \E on \in BOOLEAN : \E mode \in Modes : ConfigureRead(p, on, mode)

CallStep(p) ==
    \/ BindingCall(p) \/ WatchCall(p)
    \/ FireRead(p)
    \/ TakeoverCommit(p) \/ SessionCommit(p)
    \/ ConfigureCommit(p) \/ ObserveCommit(p) \/ FireCommit(p)
    \/ Refused(p)

Next ==
    \/ ChannelStep
    \/ HostStep
    \/ \E p \in Procs : CallStep(p)

Spec == Init /\ [][Next]_vars

------------------------------------------------------------------------------
(* Properties.                                                              *)

\* The limit on active channels holds whichever of channel creation, registration,
\* takeover and watch configuration registers a channel first.
ChannelLimitHolds == Cardinality(Active) <= MaxChannels

\* Two takeovers or registrations that read the same binding do not both succeed: a
\* generation has one owner and is followed by the next one; only the deletion of the
\* channel ends it, and a deleted channel never comes back.
BindingsAdvance ==
    [][\A c \in Channels :
        /\ status[c] = "deleted" => status'[c] = "deleted" /\ bindings'[c] = Unbound
        /\ bindings'[c] # bindings[c] =>
              \/ bindings'[c].gen = bindings[c].gen + 1
              \/ status'[c] = "deleted" /\ bindings'[c] = Unbound]_vars

\* What is believed about a session is about the endpoint bound now: presence and the
\* activity of the watch end with the binding under which they were observed.
EvidenceIsCurrent ==
    /\ presence # Unbound => presence = bindings[Watched]
    /\ watch.active => IsBoundTo(watch, bindings[Watched])
    /\ status[Watched] = "deleted" => watch.st # "on"

\* Each time a watch goes off there is a claim of its own for it, for the binding of
\* that moment: no epoch and sequence is used twice, however stale the row was from
\* which a tick, a configuration or an observation decided what to write.
Later(c, d) ==
    /\ c[1] >= d[1]
    /\ c[2] > d[2] \/ (c[2] = d[2] /\ c[3] > d[3])

EveryFireIsAClaim ==
    [][/\ watch'.seq > watch.seq => Later(latest', latest)
       /\ latest' # latest => IsBoundTo(watch, bindings[Watched]) /\ Watched \in Active]_vars
=============================================================================
