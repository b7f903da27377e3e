--------------------------- MODULE SourcePolling ---------------------------
(***************************************************************************)
(* Pulling one source: SourceSupervisor (src/src/source-connector.ts) over *)
(* SourceRunner and the checkpoint and control stores                      *)
(* (src/src/source-adapter.ts), in the daemon and in the processes of      *)
(* `source-once` and `source-bootstrap` beside it.                         *)
(*                                                                         *)
(* A poll cycle connects, then for every page reads the checkpoint, asks   *)
(* the connector, emits the events of the page one by one and commits the  *)
(* new cursor by compare-and-swap.  Each database call and each answer of  *)
(* the connector is a step: other processes run between them, and either   *)
(* process may die there.  Inside the daemon a page is handled without an  *)
(* await, so no operator request interleaves with it.                      *)
(*                                                                         *)
(* Abstractions.                                                           *)
(*  - An item is its position in the log of its identity, and a cursor is  *)
(*    the position it has reached; a null cursor is position 0.            *)
(*  - Errors are of the two classes run() tells apart: those it retries    *)
(*    after a delay, and those that leave the slot in needs_attention.     *)
(*  - A timer is set or not; delays and the other status fields are left   *)
(*    out.  The HTTP handlers of a daemon that is shutting down still run. *)
(*  - What adapter manifests declare beyond their identity is assumed      *)
(*    acceptable; the live identity changes only between requests (see     *)
(*    ChangeIdentity).                                                     *)
(*  - Bound: while a bootstrap is under way neither a rebind nor a         *)
(*    source-once begins, and it does not begin beside a source-once.      *)
(***************************************************************************)
EXTENDS Integers, FiniteSets

CONSTANTS
    Idents,         \* upstream identities: subject_ref with binding_fingerprint
    NoCheckpoint,
    DaemonCycles,   \* cycles the daemon's slot could run
    CliCycles,      \* cycles of source-once processes
    NoCycle,
    Limit,          \* items per page
    MaxPages,       \* max_pages_per_cycle
    ConfigEnabled,  \* enabled in the connector file
    Backlog,        \* items each identity has at the start
    MaxLog,         \* bound: items of each identity
    MaxRev          \* bound: checkpoint revisions

Cycles == DaemonCycles \cup CliCycles

ASSUME SourceAssumption ==
    /\ Limit \in Nat \ {0} /\ MaxPages \in Nat \ {0}
    /\ Backlog \in [Idents -> Nat] /\ MaxLog \in [Idents -> Nat]
    /\ MaxRev \in Nat \ {0} /\ ConfigEnabled \in BOOLEAN
    /\ NoCheckpoint \notin [ident: Idents, cursor: Nat, rev: Nat]
    /\ NoCycle \notin Cycles /\ DaemonCycles \cap CliCycles = {}
    /\ Idents # {}

VARIABLES
    log,        \* upstream: number of items of each identity
    live,       \* upstream: the identity the connector reads now
    cp,         \* row of source_checkpoints, or NoCheckpoint
    waterline,  \* cursor at which the binding of cp began
    emitted,    \* items stored as events
    control,    \* row of source_controls: "unset", "on" or "off"
    phase,      \* the daemon: "starting", "up", "stopping" or "down"
    slot,       \* its slot: [enabled, timer, promise, broken]
    disabling,  \* cycles that a disable() is waiting for
    cycles,     \* the poll cycles under way
    rebind,     \* rebind requests that have their new cursor
    boot        \* bootstrap requests that have their first cursor

upstream == <<log, live>>
stored   == <<cp, waterline, emitted>>
daemon   == <<phase, slot, disabling>>
vars     == <<log, live, cp, waterline, emitted, control, phase, slot, disabling,
              cycles, rebind, boot>>

------------------------------------------------------------------------------
Checkpoint == [ident: Idents, cursor: Nat, rev: Nat \ {0}]


\* The variables of run() and runOnce(): the manifest's identity, the revision
\* read, the position emitted up to, the end of the page, the page number, and
\* whether an operator asked for the cycle.
CycleRow == [pc: {"idle", "connect", "poll", "emit", "confirm", "next"},
             ident: Idents, rev: Nat,
             done: Nat, to: Nat, page: Nat,
             more: BOOLEAN, asked: BOOLEAN]
IdleCycle == [pc |-> "idle", ident |-> CHOOSE i \in Idents : TRUE, rev |-> 0,
              done |-> 0, to |-> 0, page |-> 1, more |-> FALSE,
              asked |-> FALSE]

Slot == [enabled: BOOLEAN, timer: BOOLEAN, promise: DaemonCycles \cup {NoCycle},
         broken: BOOLEAN]

\* Type correctness of the database, the slot and the local variables.
TypeOK ==
    /\ log \in [Idents -> Nat] /\ live \in Idents
    /\ cp \in Checkpoint \cup {NoCheckpoint} /\ waterline \in Nat
    /\ emitted \subseteq Idents \X Nat
    /\ control \in {"unset", "on", "off"}
    /\ phase \in {"starting", "up", "stopping", "down"}
    /\ slot \in Slot /\ disabling \subseteq DaemonCycles
    /\ cycles \in [Cycles -> CycleRow]
    /\ rebind \subseteq Checkpoint
    /\ boot \subseteq [ident: Idents, cursor: Nat]

\* The persisted control goes before the connector file; it is written whole.
Enabled(ctl)    == IF ctl = "unset" THEN ConfigEnabled ELSE ctl = "on"
Controlled(ctl) == control' = ctl

\* A new supervisor has no timer until start().
FreshSlot(ctl) == [enabled |-> Enabled(ctl), timer |-> FALSE, promise |-> NoCycle,
                   broken |-> FALSE]
DownSlot == [enabled |-> FALSE, timer |-> FALSE, promise |-> NoCycle, broken |-> FALSE]

Init ==
    /\ log = Backlog /\ live \in Idents
    /\ cp = NoCheckpoint /\ waterline = 0 /\ emitted = {}
    /\ control = "unset"
    /\ phase = "starting" /\ slot = FreshSlot("unset") /\ disabling = {}
    /\ cycles = [c \in Cycles |-> IdleCycle]
    /\ rebind = {} /\ boot = {}

Running(c) == cycles[c].pc # "idle"

\* schedule() sets timers: stop() was not called yet.
Schedules == phase \in {"starting", "up"}

\* The daemon handles a page and the start of the next without giving way.
LoopIsFree == \A c \in DaemonCycles : cycles[c].pc \notin {"emit", "confirm", "next"}

------------------------------------------------------------------------------
(* Upstream.                                                                *)

Publish(i) ==
    /\ log[i] < MaxLog[i]
    /\ log' = [log EXCEPT ![i] = @ + 1]
    /\ UNCHANGED <<live, stored, control, daemon, cycles, rebind, boot>>

\* The bundled connectors fix their identity when they start; a cycle, a rebind or
\* a bootstrap that a connector restart interrupts is not followed further here.
ChangeIdentity(i) ==
    /\ \A c \in Cycles : cycles[c].pc \in {"idle", "connect"}
    /\ rebind = {} /\ boot = {}
    /\ i # live
    /\ live' = i
    /\ UNCHANGED <<log, stored, control, daemon, cycles, rebind, boot>>

------------------------------------------------------------------------------
(* The life of a cycle in its process.                                      *)

\* Mutant: a cycle that failed is not scheduled again.
SlotAfterHealthyOnly(outcome) ==
    [slot EXCEPT !.promise = NoCycle, !.broken = outcome = "needs_attention",
                 !.timer = @ \/ (outcome = "healthy" /\ Schedules /\ slot.enabled)]

\* Mutant: the slot is not looked at again before the timer is set.
SlotAfterUnchecked(outcome) ==
    [slot EXCEPT !.promise = NoCycle, !.broken = outcome = "needs_attention",
                 !.timer = @ \/ (outcome # "needs_attention" /\ Schedules)]

\* launch().finally: the slot is free again and, unless run() returned null, the
\* timer is set if the slot is still enabled; a disable() that waited returns.
SlotAfter(outcome) ==
    [slot EXCEPT !.promise = NoCycle,
                 !.broken = outcome = "needs_attention",
                 !.timer = @ \/ ( /\ outcome # "needs_attention"
                                  /\ Schedules /\ slot.enabled)]

Finish(c, outcome) ==
    /\ cycles' = [cycles EXCEPT ![c] = IdleCycle]
    /\ IF c \in CliCycles
       THEN UNCHANGED daemon
       ELSE /\ slot' = SlotAfter(outcome)
            /\ disabling' = disabling \ {c}
            /\ UNCHANGED phase

Launched(asked) == [IdleCycle EXCEPT !.pc = "connect", !.asked = asked]

\* A name for a new cycle of the daemon, when one is free.
FreeCycles == {c \in DaemonCycles : ~Running(c)}
Launch(asked) ==
    /\ FreeCycles # {}
    /\ LET c == CHOOSE f \in FreeCycles : TRUE
       IN  /\ slot' = [slot EXCEPT !.timer = FALSE, !.promise = c, !.broken = FALSE]
           /\ cycles' = [cycles EXCEPT ![c] = Launched(asked)]

\* The callback of the timer.
TimerFires ==
    /\ phase # "down" /\ LoopIsFree /\ slot.timer
    /\ IF slot.promise # NoCycle
       THEN /\ slot' = [slot EXCEPT !.timer = FALSE]
            /\ UNCHANGED cycles
       ELSE Launch(FALSE)
    /\ UNCHANGED <<upstream, stored, control, phase, disabling, rebind, boot>>

\* Mutant: a poll on request does not look for a cycle under way.
RunOnceUnchecked ==
    /\ phase # "down" /\ LoopIsFree
    /\ Launch(TRUE)
    /\ UNCHANGED <<upstream, stored, control, phase, disabling, rebind, boot>>

\* POST /v1/sources/:id/poll; enabled or not, and also while the daemon stops.
RunOnce ==
    /\ phase # "down" /\ LoopIsFree /\ slot.promise = NoCycle
    /\ Launch(TRUE)
    /\ UNCHANGED <<upstream, stored, control, phase, disabling, rebind, boot>>

\* source-once, with a supervisor of its own that never starts a timer.
CliOnce(c) ==
    /\ ~Running(c) /\ boot = {}
    /\ cycles' = [cycles EXCEPT ![c] = Launched(TRUE)]
    /\ UNCHANGED <<upstream, stored, control, daemon, rebind, boot>>

------------------------------------------------------------------------------
(* One cycle: run() around SourceRunner.runOnce().                          *)

\* A page starts from the checkpoint, which must be of the manifest's identity.
BeginPage(c, ident, page) ==
    /\ cp # NoCheckpoint => cp.rev < MaxRev
    /\ IF cp # NoCheckpoint /\ cp.ident # ident
       THEN Finish(c, "needs_attention")
       ELSE /\ cycles' = [cycles EXCEPT ![c] =
                   [pc |-> "poll", ident |-> ident,
                    rev |-> IF cp = NoCheckpoint THEN 0 ELSE cp.rev,
                    done |-> IF cp = NoCheckpoint THEN 0 ELSE cp.cursor,
                    to |-> 0, page |-> page, more |-> FALSE, asked |-> @.asked]]
            /\ UNCHANGED daemon

\* The manifest arrives and the first page starts, or the request fails.
Connect(c) ==
    /\ cycles[c].pc = "connect"
    /\ \/ BeginPage(c, live, 1)
       \/ \E outcome \in {"retry", "needs_attention"} : Finish(c, outcome)
    /\ UNCHANGED <<upstream, stored, control, rebind, boot>>

\* The next page keeps the manifest of the cycle and reads the checkpoint again; the
\* read may fail.
NextPage(c) ==
    /\ cycles[c].pc = "next"
    /\ \/ BeginPage(c, cycles[c].ident, cycles[c].page)
       \/ Finish(c, "needs_attention")
    /\ UNCHANGED <<upstream, stored, control, rebind, boot>>

\* A page of at most Limit items after the cursor, or a failure of the connector.
PageArrives(c) ==
    LET r    == cycles[c]
        last == log[r.ident]
        to   == IF r.done + Limit < last THEN r.done + Limit ELSE last
    IN  /\ r.pc = "poll"
        /\ \/ /\ cycles' = [cycles EXCEPT ![c].pc = "emit", ![c].to = to,
                                         ![c].more = to < last]
              /\ UNCHANGED daemon
           \/ \E outcome \in {"retry", "needs_attention"} : Finish(c, outcome)
        /\ UNCHANGED <<upstream, stored, control, rebind, boot>>

\* Mutant: a refused event is passed over.
EmitEventPassOver(c) ==
    LET r == cycles[c] IN
    /\ r.pc = "emit" /\ r.done < r.to
    /\ cycles' = [cycles EXCEPT ![c].done = @ + 1]
    /\ emitted' \in {emitted, emitted \cup {<<r.ident, r.done + 1>>}}
    /\ UNCHANGED <<upstream, cp, waterline, control, daemon, rebind, boot>>

\* emitEvent of the next item; when it is refused, or a call to the database fails
\* before or after its transaction, the page is given up.
EmitEvent(c) ==
    LET r == cycles[c] IN
    /\ r.pc = "emit" /\ r.done < r.to
    /\ \/ /\ emitted' = emitted \cup {<<r.ident, r.done + 1>>}
          /\ cycles' = [cycles EXCEPT ![c].done = @ + 1]
          /\ UNCHANGED daemon
       \/ /\ Finish(c, "needs_attention")
          /\ emitted' \in {emitted, emitted \cup {<<r.ident, r.done + 1>>}}
    /\ UNCHANGED <<upstream, cp, waterline, control, rebind, boot>>

\* The row that UPDATE ... WHERE revision=... AND subject_ref=... finds.
Matches(rev, ident) == cp # NoCheckpoint /\ cp.rev = rev /\ cp.ident = ident

\* Mutant: no compare-and-swap, the last poller wins.
CommitUnchecked(c) ==
    LET r == cycles[c] IN
    /\ r.pc = "emit" /\ r.done = r.to
    /\ cycles' = [cycles EXCEPT ![c].pc = "confirm"]
    /\ cp' = [ident |-> r.ident, cursor |-> r.to,
              rev |-> IF cp = NoCheckpoint THEN 1 ELSE cp.rev + 1]
    /\ UNCHANGED <<upstream, waterline, emitted, control, daemon, rebind, boot>>

\* INSERT OR IGNORE for a first checkpoint, else UPDATE of the revision that was read.
Written(c) ==
    LET r == cycles[c] IN
    IF r.rev = 0 /\ cp = NoCheckpoint
    THEN /\ cp' = [ident |-> r.ident, cursor |-> r.to, rev |-> 1]
         /\ waterline' = 0
    ELSE IF r.rev # 0 /\ Matches(r.rev, r.ident)
    THEN /\ cp' = [cp EXCEPT !.cursor = r.to, !.rev = @ + 1]
         /\ UNCHANGED waterline
    ELSE UNCHANGED <<cp, waterline>>

\* The transaction of commit(); when the database fails it, the cycle ends.
Commit(c) ==
    /\ cycles[c].pc = "emit" /\ cycles[c].done = cycles[c].to
    /\ \/ /\ cycles' = [cycles EXCEPT ![c].pc = "confirm"]
          /\ Written(c)
          /\ UNCHANGED daemon
       \/ /\ Finish(c, "needs_attention")
          /\ UNCHANGED <<cp, waterline>>
    /\ UNCHANGED <<upstream, emitted, control, rebind, boot>>

\* commit() reads the row back: another poller may have moved it before or since, or
\* the read fails although the checkpoint was moved.
Confirm(c) ==
    LET r == cycles[c] IN
    /\ r.pc = "confirm"
    /\ \/ Finish(c, "needs_attention")
       \/ /\ Matches(r.rev + 1, r.ident) /\ cp.cursor = r.to
          /\ IF r.more /\ r.page < MaxPages
             THEN /\ cycles' = [cycles EXCEPT ![c] = [IdleCycle EXCEPT
                         !.pc = "next", !.ident = r.ident, !.page = r.page + 1,
                         !.asked = r.asked]]
                  /\ UNCHANGED daemon
             ELSE Finish(c, "healthy")
    /\ UNCHANGED <<upstream, stored, control, rebind, boot>>

------------------------------------------------------------------------------
(* The operator.                                                            *)

\* verify() first; the checkpoint is read, and the slot enabled, in its last turn.
Enable ==
    /\ phase # "down" /\ LoopIsFree
    /\ cp # NoCheckpoint /\ cp.ident = live
    /\ Controlled("on")
    /\ slot' = [slot EXCEPT !.enabled = TRUE,
                            !.timer = @ \/ (Schedules /\ slot.promise = NoCycle)]
    /\ UNCHANGED <<upstream, stored, phase, disabling, cycles, rebind, boot>>

\* disable() up to its await; it returns when the cycle it found has finished.
Disable ==
    /\ phase # "down" /\ LoopIsFree
    /\ Controlled("off")
    /\ slot' = [slot EXCEPT !.enabled = FALSE, !.timer = FALSE]
    /\ disabling' = disabling \cup ({slot.promise} \ {NoCycle})
    /\ UNCHANGED <<upstream, stored, phase, cycles, rebind, boot>>

\* A rebind of the revision the operator sees: the slot is checked before the
\* manifest and the new cursor are fetched, and not again.
RebindBegin ==
    /\ phase # "down" /\ LoopIsFree /\ ~slot.enabled
    /\ rebind = {} /\ boot = {} /\ cp # NoCheckpoint /\ cp.rev < MaxRev
    /\ rebind' = {[ident |-> live, cursor |-> log[live], rev |-> cp.rev]}
    /\ UNCHANGED <<upstream, stored, control, daemon, cycles, boot>>

\* Nothing is written when the revision has moved, or the connector or a call to the
\* database fails.
RebindCommit(b) ==
    /\ phase # "down" /\ LoopIsFree
    /\ rebind' = {}
    /\ \/ /\ cp # NoCheckpoint /\ cp.rev = b.rev
          /\ cp' = [b EXCEPT !.rev = @ + 1]
          /\ waterline' = b.cursor
       \/ UNCHANGED <<cp, waterline>>
    /\ UNCHANGED <<upstream, emitted, control, daemon, cycles, boot>>

\* A bootstrap by the CLI, or by the daemon while the slot is disabled.
BootBegin ==
    /\ cp = NoCheckpoint /\ boot = {} /\ \A c \in CliCycles : ~Running(c)
    /\ boot' = {[ident |-> live, cursor |-> log[live]]}
    /\ UNCHANGED <<upstream, stored, control, daemon, cycles, rebind>>

\* Likewise when there is a checkpoint already, or a call fails.
BootCommit(b) ==
    /\ boot' = {}
    /\ \/ /\ cp = NoCheckpoint
          /\ cp' = [ident |-> b.ident, cursor |-> b.cursor, rev |-> 1]
          /\ waterline' = b.cursor
       \/ UNCHANGED <<cp, waterline>>
    /\ UNCHANGED <<upstream, emitted, control, daemon, cycles, rebind>>

------------------------------------------------------------------------------
(* Processes.                                                               *)

\* The daemon listens, starts its host adapters, during which requests are served,
\* and then its sources.
Start ==
    /\ phase = "starting" /\ LoopIsFree
    /\ phase' = "up"
    /\ slot' = [slot EXCEPT !.timer = @ \/ slot.enabled]
    /\ UNCHANGED <<upstream, stored, control, disabling, cycles, rebind, boot>>

\* close(): no timer any more; it waits for the cycle under way.
Stop ==
    /\ phase = "up" /\ LoopIsFree
    /\ phase' = "stopping"
    /\ slot' = [slot EXCEPT !.timer = FALSE]
    /\ UNCHANGED <<upstream, stored, control, disabling, cycles, rebind, boot>>

\* The daemon exits or dies, with everything it had under way.
Exit ==
    /\ phase # "down"
    /\ phase' = "down" /\ slot' = DownSlot /\ disabling' = {} /\ rebind' = {}
    /\ cycles' = [c \in Cycles |-> IF c \in DaemonCycles THEN IdleCycle ELSE cycles[c]]
    /\ UNCHANGED <<upstream, stored, control, boot>>

\* A new daemon process.
Restart ==
    /\ phase = "down"
    /\ phase' = "starting" /\ slot' = FreshSlot(control)
    /\ UNCHANGED <<upstream, stored, control, disabling, cycles, rebind, boot>>

CliDies(c) ==
    /\ Running(c)
    /\ cycles' = [cycles EXCEPT ![c] = IdleCycle]
    /\ UNCHANGED <<upstream, stored, control, daemon, rebind, boot>>

------------------------------------------------------------------------------
CycleStep(c) ==
    \/ Connect(c) \/ NextPage(c) \/ PageArrives(c) \/ EmitEvent(c)
    \/ Commit(c) \/ Confirm(c)

\* What the routes of the daemon, and the tools of an agent over them, offer.
Operator ==
    \/ RunOnce \/ Enable \/ Disable \/ RebindBegin \/ BootBegin
    \/ \E b \in rebind : RebindCommit(b)
    \/ \E b \in boot : BootCommit(b)

Next ==
    \/ \E i \in Idents : Publish(i) \/ ChangeIdentity(i)
    \/ TimerFires
    \/ \E c \in CliCycles : CliOnce(c) \/ CliDies(c)
    \/ \E c \in Cycles : CycleStep(c)
    \/ Operator
    \/ Start \/ Stop \/ Exit \/ Restart

\* A timer that is set fires.  That the requests of a cycle end, by an answer or
\* after 15 s, is not needed below.
Fairness == WF_vars(TimerFires)

Spec == Init /\ [][Next]_vars /\ Fairness

------------------------------------------------------------------------------
(* Properties.                                                              *)

\* No item is lost: what lies between the waterline of the present binding and the
\* checkpoint is stored, whatever pollers, rebinds and crashes came between
\* (runOnce advances the cursor only after every event of its page).
NothingSkipped == cp # NoCheckpoint =>
    \A n \in waterline + 1 .. cp.cursor : <<cp.ident, n>> \in emitted

\* Pollers of several processes, rebinds and bootstraps together implement the feed
\* of DurableFeed: the compare-and-swap of commit() and replace() lets none of them
\* move the cursor back or onto another identity.
Feed == INSTANCE DurableFeed
ImplementsFeed == Feed!Spec

\* The slot has at most one cycle under way, and its promise is that cycle, so
\* disable() and stop() wait for the right one.
OneCyclePerSlot == \A c \in DaemonCycles : Running(c) <=> slot.promise = c

\* A source that was disabled stays quiet across restarts: no timer is set, and a
\* cycle still running is one that disable() waits for or that somebody asked for.
DisabledIsQuiet == control = "off" =>
    /\ ~slot.timer
    /\ \A c \in DaemonCycles : Running(c) => cycles[c].asked \/ c \in disabling

\* An enabled source whose last cycle needs no attention is always polled again:
\* whatever ended the last cycle, and whoever enabled, polled or restarted in
\* between, a timer is set or a cycle is under way.
PolledAgain ==
    []<>( \/ phase # "up" \/ ~slot.enabled \/ slot.broken
          \/ \E c \in DaemonCycles : Running(c) )
=============================================================================
