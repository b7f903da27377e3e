---------------------------- MODULE DurableFeed ----------------------------
(***************************************************************************)
(* What a pulled source promises its owner, without pollers, daemons or    *)
(* operators: every upstream item behind the durable checkpoint, counted   *)
(* from the waterline at which the present binding began, has been emitted *)
(* as an event, and the checkpoint of a binding only moves forward, one    *)
(* revision at a time.  SourcePolling implements it.                       *)
(***************************************************************************)
EXTENDS Integers

CONSTANTS Idents,      \* upstream identities: subject_ref with binding_fingerprint
          NoCheckpoint

VARIABLES log,        \* number of items upstream holds for each identity
          cp,         \* the checkpoint row, or NoCheckpoint
          waterline,  \* cursor at which the binding of cp began
          emitted     \* the items emitted so far

vars == <<log, cp, waterline, emitted>>

Owed(ident, from, to) == {ident} \X (from + 1 .. to)

Init ==
    /\ log \in [Idents -> Nat]
    /\ cp = NoCheckpoint
    /\ waterline = 0
    /\ emitted = {}

Publish(i) ==
    /\ log' = [log EXCEPT ![i] = @ + 1]
    /\ UNCHANGED <<cp, waterline, emitted>>

\* At least once: the dedupe key absorbs an item emitted before.
Emit(i, n) ==
    /\ n \in 1 .. log[i]
    /\ emitted' = emitted \cup {<<i, n>>}
    /\ UNCHANGED <<log, cp, waterline>>

\* A first checkpoint owes everything behind it, or nothing when it starts "from now".
Start(i, from, to) ==
    /\ cp = NoCheckpoint
    /\ Owed(i, from, to) \subseteq emitted
    /\ cp' = [ident |-> i, cursor |-> to, rev |-> 1]
    /\ waterline' = from
    /\ UNCHANGED <<log, emitted>>

Advance(to) ==
    /\ cp # NoCheckpoint
    /\ to \in cp.cursor .. log[cp.ident]
    /\ Owed(cp.ident, cp.cursor, to) \subseteq emitted
    /\ cp' = [cp EXCEPT !.cursor = to, !.rev = @ + 1]
    /\ UNCHANGED <<log, waterline, emitted>>

Rebind(i, at) ==
    /\ cp # NoCheckpoint
    /\ at \in 0 .. log[i]
    /\ cp' = [ident |-> i, cursor |-> at, rev |-> cp.rev + 1]
    /\ waterline' = at
    /\ UNCHANGED <<log, emitted>>

Next ==
    \/ \E i \in Idents : Publish(i)
    \/ \E i \in Idents : \E n \in 1 .. log[i] : Emit(i, n)
    \/ \E i \in Idents : \E to \in 0 .. log[i] : \E from \in 0 .. to : Start(i, from, to)
    \/ \E i \in Idents : \E to \in 0 .. log[i] : Advance(to) \/ Rebind(i, to)

Spec == Init /\ [][Next]_vars
=============================================================================
