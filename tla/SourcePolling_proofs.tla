------------------------ MODULE SourcePolling_proofs ------------------------
(***************************************************************************)
(* Proofs about SourcePolling, for every set of identities and cycles,     *)
(* every page size and every bound.  First the types and what the slot of  *)
(* the supervisor knows, then what a cycle knows of the checkpoint it read *)
(* and, from that, the refinement of DurableFeed.                          *)
(***************************************************************************)
EXTENDS SourcePolling, TLAPS

------------------------------------------------------------------------------
(* Types.                                                                   *)

\* The constant rows have their types.
LEMMA ConstantRows ==
    /\ IdleCycle \in CycleRow /\ IdleCycle.pc = "idle"
    /\ \A asked \in BOOLEAN :
          /\ Launched(asked) \in CycleRow
          /\ Launched(asked).pc = "connect" /\ Launched(asked).asked = asked
    /\ \A ctl : FreshSlot(ctl) \in Slot
    /\ DownSlot \in Slot
  <1>1. (CHOOSE i \in Idents : TRUE) \in Idents
    BY SourceAssumption
  <1>2. IdleCycle \in CycleRow /\ IdleCycle.pc = "idle"
    BY <1>1 DEF IdleCycle, CycleRow
  <1>3. ASSUME NEW asked \in BOOLEAN
        PROVE  /\ Launched(asked) \in CycleRow
               /\ Launched(asked).pc = "connect" /\ Launched(asked).asked = asked
    BY <1>2 DEF Launched, CycleRow
  <1>4. ASSUME NEW ctl PROVE FreshSlot(ctl) \in Slot
    <2>1. Enabled(ctl) \in BOOLEAN
      BY SourceAssumption DEF Enabled
    <2> QED
      BY <2>1 DEF FreshSlot, Slot
  <1> QED
    BY <1>2, <1>3, <1>4 DEF DownSlot, Slot

\* A cycle that ends is idle, and the slot keeps its type.
LEMMA FinishType ==
    ASSUME TypeOK, NEW c \in Cycles, NEW outcome \in {"healthy", "retry", "needs_attention"},
           Finish(c, outcome)
    PROVE  /\ cycles' \in [Cycles -> CycleRow]
           /\ slot' \in Slot /\ disabling' \subseteq DaemonCycles /\ phase' = phase
           /\ cycles'[c].pc = "idle"
           /\ \A d \in Cycles \ {c} : cycles'[d] = cycles[d]
  <1>1. cycles' = [cycles EXCEPT ![c] = IdleCycle]
    BY DEF Finish
  <1>2. cycles' \in [Cycles -> CycleRow]
    BY <1>1, ConstantRows DEF TypeOK
  <1>3. cycles'[c].pc = "idle" /\ \A d \in Cycles \ {c} : cycles'[d] = cycles[d]
    BY <1>1, ConstantRows DEF TypeOK
  <1>4. slot' \in Slot /\ disabling' \subseteq DaemonCycles /\ phase' = phase
    <2>1. SlotAfter(outcome) \in Slot
      BY DEF SlotAfter, TypeOK, Slot, Schedules
    <2> QED
      BY <2>1 DEF Finish, daemon, TypeOK
  <1> QED
    BY <1>2, <1>3, <1>4

\* A cycle that starts takes the slot; the others stay as they are.
LEMMA LaunchType ==
    ASSUME TypeOK, NEW asked \in BOOLEAN, Launch(asked)
    PROVE  \E c \in DaemonCycles :
              /\ ~Running(c)
              /\ slot' \in Slot /\ slot'.promise = c /\ ~slot'.timer
              /\ slot'.enabled = slot.enabled
              /\ cycles' = [cycles EXCEPT ![c] = Launched(asked)]
              /\ cycles' \in [Cycles -> CycleRow]
  <1> DEFINE c == CHOOSE f \in FreeCycles : TRUE
  <1>1. c \in FreeCycles
    BY DEF Launch
  <1>2. c \in DaemonCycles /\ ~Running(c)
    BY <1>1 DEF FreeCycles
  <1>3. /\ slot' = [slot EXCEPT !.timer = FALSE, !.promise = c, !.broken = FALSE]
        /\ cycles' = [cycles EXCEPT ![c] = Launched(asked)]
    BY DEF Launch
  <1> HIDE DEF c
  <1>4. slot' \in Slot /\ slot'.promise = c /\ ~slot'.timer /\ slot'.enabled = slot.enabled
    BY <1>2, <1>3 DEF TypeOK, Slot
  <1>5. cycles' \in [Cycles -> CycleRow]
    BY <1>3, ConstantRows DEF TypeOK
  <1> QED
    BY <1>2, <1>3, <1>4, <1>5

\* A page starts for an idle or waiting cycle, or the cycle ends.
LEMMA BeginPageType ==
    ASSUME TypeOK, NEW c \in Cycles, NEW ident \in Idents, NEW page \in Nat,
           BeginPage(c, ident, page)
    PROVE  \/ Finish(c, "needs_attention")
           \/ /\ UNCHANGED daemon
              /\ cp # NoCheckpoint => cp.ident = ident
              /\ cycles' \in [Cycles -> CycleRow]
              /\ \A d \in Cycles \ {c} : cycles'[d] = cycles[d]
              /\ cycles'[c].pc = "poll" /\ cycles'[c].asked = cycles[c].asked
              /\ cycles'[c].ident = ident
              /\ cycles'[c].rev = IF cp = NoCheckpoint THEN 0 ELSE cp.rev
              /\ cycles'[c].done = IF cp = NoCheckpoint THEN 0 ELSE cp.cursor
  <1>1. CASE cp # NoCheckpoint /\ cp.ident # ident
    BY <1>1 DEF BeginPage
  <1>2. CASE ~(cp # NoCheckpoint /\ cp.ident # ident)
    <2> DEFINE row == [pc |-> "poll", ident |-> ident,
                    rev |-> IF cp = NoCheckpoint THEN 0 ELSE cp.rev,
                    done |-> IF cp = NoCheckpoint THEN 0 ELSE cp.cursor,
                    to |-> 0, page |-> page, more |-> FALSE, asked |-> cycles[c].asked]
    <2>1. cycles' = [cycles EXCEPT ![c] = row] /\ UNCHANGED daemon
      BY <1>2 DEF BeginPage, TypeOK
    <2>2. row \in CycleRow
      <3>1. cycles[c].asked \in BOOLEAN
        BY DEF TypeOK, CycleRow
      <3>2. cp # NoCheckpoint => cp.rev \in Nat /\ cp.cursor \in Nat
        BY DEF TypeOK, Checkpoint
      <3> QED
        BY <3>1, <3>2 DEF CycleRow
    <2>4. /\ row.pc = "poll" /\ row.asked = cycles[c].asked /\ row.ident = ident
          /\ row.rev = IF cp = NoCheckpoint THEN 0 ELSE cp.rev
          /\ row.done = IF cp = NoCheckpoint THEN 0 ELSE cp.cursor
      OBVIOUS
    <2> HIDE DEF row
    <2>3. /\ cycles' \in [Cycles -> CycleRow] /\ cycles'[c] = row
          /\ \A d \in Cycles \ {c} : cycles'[d] = cycles[d]
      BY <2>1, <2>2 DEF TypeOK
    <2> QED
      BY <1>2, <2>1, <2>3, <2>4
  <1> QED
    BY <1>1, <1>2

\* A row keeps its type, and the cycle its owner, when a page arrives, an event is
\* emitted, and a page ends.
LEMMA RowArrived ==
    ASSUME NEW r \in CycleRow, NEW to \in Nat, NEW more \in BOOLEAN
    PROVE  [r EXCEPT !.pc = "emit", !.to = to, !.more = more] \in CycleRow
  BY DEF CycleRow

LEMMA RowEmitted ==
    ASSUME NEW r \in CycleRow
    PROVE  [r EXCEPT !.done = @ + 1] \in CycleRow
  BY DEF CycleRow

LEMMA RowCommitted ==
    ASSUME NEW r \in CycleRow
    PROVE  [r EXCEPT !.pc = "confirm"] \in CycleRow
  BY DEF CycleRow

LEMMA RowNext ==
    ASSUME NEW i \in CycleRow, NEW ident \in Idents, NEW page \in Nat, NEW asked \in BOOLEAN
    PROVE  [i EXCEPT !.pc = "next", !.ident = ident, !.page = page, !.asked = asked] \in CycleRow
  BY DEF CycleRow

\* The row of one cycle is replaced.
LEMMA RowReplaced ==
    ASSUME TypeOK, NEW c \in Cycles, NEW row \in CycleRow, cycles' = [cycles EXCEPT ![c] = row]
    PROVE  /\ cycles' \in [Cycles -> CycleRow] /\ cycles'[c] = row
           /\ \A d \in Cycles \ {c} : cycles'[d] = cycles[d]
  BY DEF TypeOK

\* A checkpoint row keeps its type when it advances.
LEMMA CheckpointAdvances ==
    ASSUME NEW k \in Checkpoint, NEW to \in Nat
    PROVE  /\ [k EXCEPT !.cursor = to, !.rev = @ + 1] \in Checkpoint
           /\ [k EXCEPT !.rev = @ + 1] \in Checkpoint
  <1>0. k.rev + 1 \in Nat \ {0}
    BY DEF Checkpoint
  <1>1. ASSUME NEW n \in Nat \ {0} PROVE [k EXCEPT !.cursor = to, !.rev = n] \in Checkpoint
    BY DEF Checkpoint
  <1>2. ASSUME NEW n \in Nat \ {0} PROVE [k EXCEPT !.rev = n] \in Checkpoint
    BY DEF Checkpoint
  <1> QED
    BY <1>0, <1>1, <1>2

\* A step of a cycle ends it, or keeps it running for whom it ran.
LEMMA CycleStepForm ==
    ASSUME TypeOK, NEW c \in Cycles, CycleStep(c)
    PROVE  /\ Running(c)
           /\ UNCHANGED <<upstream, control, rebind, boot>>
           /\ cycles' \in [Cycles -> CycleRow]
           /\ \A d \in Cycles \ {c} : cycles'[d] = cycles[d]
           /\ \/ \E outcome \in {"healthy", "retry", "needs_attention"} : Finish(c, outcome)
              \/ /\ UNCHANGED daemon
                 /\ cycles'[c].pc # "idle" /\ cycles'[c].asked = cycles[c].asked
  <1> DEFINE Goes == /\ UNCHANGED daemon
                     /\ cycles' \in [Cycles -> CycleRow]
                     /\ \A d \in Cycles \ {c} : cycles'[d] = cycles[d]
                     /\ cycles'[c].pc # "idle" /\ cycles'[c].asked = cycles[c].asked
             Ends == \E outcome \in {"healthy", "retry", "needs_attention"} : Finish(c, outcome)
  <1>0. cycles[c] \in CycleRow
    BY DEF TypeOK
  <1>1. Running(c) /\ UNCHANGED <<upstream, control, rebind, boot>>
    BY DEF CycleStep, Connect, NextPage, PageArrives, EmitEvent, Commit, Confirm, Running, upstream
  <1> SUFFICES Goes \/ Ends
    BY <1>1, FinishType
  <1>2. ASSUME NEW ident \in Idents, NEW page \in Nat, BeginPage(c, ident, page) PROVE Goes \/ Ends
    <2>1. CASE Finish(c, "needs_attention")
      BY <2>1
    <2>2. CASE ~Finish(c, "needs_attention")
      <3>1. UNCHANGED daemon /\ cycles' \in [Cycles -> CycleRow]
        BY <1>2, <2>2, BeginPageType
      <3>2. \A d \in Cycles \ {c} : cycles'[d] = cycles[d]
        BY <1>2, <2>2, BeginPageType
      <3>3. cycles'[c].pc = "poll" /\ cycles'[c].asked = cycles[c].asked
        BY <1>2, <2>2, BeginPageType
      <3> QED
        BY <3>1, <3>2, <3>3
    <2> QED
      BY <2>1, <2>2
  <1>3. CASE Connect(c)
    <2>1. live \in Idents
      BY DEF TypeOK
    <2> QED
      BY <1>2, <1>3, <2>1 DEF Connect
  <1>4. CASE NextPage(c)
    <2>1. cycles[c].ident \in Idents /\ cycles[c].page \in Nat
      BY <1>0 DEF CycleRow
    <2> QED
      BY <1>2, <1>4, <2>1 DEF NextPage
  <1>5. CASE PageArrives(c)
    <2> DEFINE r    == cycles[c]
               last == log[r.ident]
               to   == IF r.done + Limit < last THEN r.done + Limit ELSE last
    <2>1. to \in Nat /\ (to < last) \in BOOLEAN
      BY <1>0, SourceAssumption DEF TypeOK, CycleRow
    <2>2. CASE cycles' = [cycles EXCEPT ![c].pc = "emit", ![c].to = to, ![c].more = to < last] /\ UNCHANGED daemon
      <3> DEFINE row == [r EXCEPT !.pc = "emit", !.to = to, !.more = to < last]
      <3>1. row \in CycleRow
        <4> HIDE DEF to, last
        <4> QED
          BY <2>1, <1>0, RowArrived
      <3>2. row.pc = "emit" /\ row.asked = r.asked
        <4> HIDE DEF to, last
        <4> QED
          BY <1>0 DEF CycleRow
      <3>3. cycles' = [cycles EXCEPT ![c] = row]
        BY <2>2 DEF TypeOK
      <3> HIDE DEF row
      <3> QED
        BY <2>2, <3>1, <3>2, <3>3, RowReplaced
    <2> QED
      BY <2>2, <1>5 DEF PageArrives
  <1>6. CASE EmitEvent(c)
    <2>1. CASE cycles' = [cycles EXCEPT ![c].done = @ + 1] /\ UNCHANGED daemon
      <3> DEFINE row == [cycles[c] EXCEPT !.done = @ + 1]
      <3>1. row \in CycleRow
        BY <1>0, RowEmitted
      <3>2. row.pc = "emit" /\ row.asked = cycles[c].asked
        BY <1>0, <1>6 DEF CycleRow, EmitEvent
      <3>3. cycles' = [cycles EXCEPT ![c] = row]
        BY <2>1 DEF TypeOK
      <3> HIDE DEF row
      <3> QED
        BY <2>1, <3>1, <3>2, <3>3, RowReplaced
    <2> QED
      BY <2>1, <1>6 DEF EmitEvent
  <1>7. CASE Commit(c)
    <2>1. CASE cycles' = [cycles EXCEPT ![c].pc = "confirm"] /\ UNCHANGED daemon
      <3> DEFINE row == [cycles[c] EXCEPT !.pc = "confirm"]
      <3>1. row \in CycleRow
        BY <1>0, RowCommitted
      <3>2. row.pc = "confirm" /\ row.asked = cycles[c].asked
        BY <1>0 DEF CycleRow
      <3>3. cycles' = [cycles EXCEPT ![c] = row]
        BY <2>1 DEF TypeOK
      <3> HIDE DEF row
      <3> QED
        BY <2>1, <3>1, <3>2, <3>3, RowReplaced
    <2> QED
      BY <2>1, <1>7 DEF Commit
  <1>8. CASE Confirm(c)
    <2> DEFINE r == cycles[c]
               row == [IdleCycle EXCEPT !.pc = "next", !.ident = r.ident, !.page = r.page + 1,
                                        !.asked = r.asked]
    <2>1. CASE cycles' = [cycles EXCEPT ![c] = row] /\ UNCHANGED daemon
      <3>0. r.ident \in Idents /\ r.page + 1 \in Nat /\ r.asked \in BOOLEAN
        BY <1>0 DEF CycleRow
      <3>1. row \in CycleRow
        BY <3>0, ConstantRows, RowNext
      <3>2. row.pc = "next" /\ row.asked = r.asked
        <4>1. IdleCycle \in CycleRow
          BY ConstantRows
        <4> QED
          BY <4>1 DEF CycleRow
      <3> HIDE DEF row
      <3> QED
        BY <2>1, <3>1, <3>2, RowReplaced
    <2> QED
      BY <2>1, <1>8 DEF Confirm
  <1> QED
    BY <1>3, <1>4, <1>5, <1>6, <1>7, <1>8 DEF CycleStep

\* The stored rows keep their types in a step of a cycle.
LEMMA CycleStepStored ==
    ASSUME TypeOK, NEW c \in Cycles, CycleStep(c)
    PROVE  /\ cp' \in Checkpoint \cup {NoCheckpoint} /\ waterline' \in Nat
           /\ emitted' \subseteq Idents \X Nat
  <1>0. /\ cycles[c] \in CycleRow /\ cp \in Checkpoint \cup {NoCheckpoint}
        /\ waterline \in Nat /\ emitted \subseteq Idents \X Nat
    BY DEF TypeOK
  <1>1. CASE EmitEvent(c)
    <2>1. <<cycles[c].ident, cycles[c].done + 1>> \in Idents \X Nat
      BY <1>0 DEF CycleRow
    <2> QED
      BY <1>0, <1>1, <2>1 DEF EmitEvent
  <1>2. CASE Commit(c)
    <2>1. [ident |-> cycles[c].ident, cursor |-> cycles[c].to, rev |-> 1] \in Checkpoint
      BY <1>0 DEF CycleRow, Checkpoint
    <2>2. Matches(cycles[c].rev, cycles[c].ident) =>
             [cp EXCEPT !.cursor = cycles[c].to, !.rev = @ + 1] \in Checkpoint
      BY <1>0, CheckpointAdvances DEF Matches, CycleRow
    <2> QED
      BY <1>0, <1>2, <2>1, <2>2 DEF Commit, Written
  <1>3. CASE Connect(c) \/ NextPage(c) \/ PageArrives(c) \/ Confirm(c)
    BY <1>0, <1>3 DEF Connect, NextPage, PageArrives, Confirm, stored
  <1> QED
    BY <1>1, <1>2, <1>3 DEF CycleStep

\* Every step keeps the types.
LEMMA NextKeepsTypes == TypeOK /\ [Next]_vars => TypeOK'
  <1> SUFFICES ASSUME TypeOK, [Next]_vars PROVE TypeOK'
    OBVIOUS
  <1>1. CASE UNCHANGED vars
    BY <1>1 DEF vars, TypeOK
  <1>2. ASSUME NEW i \in Idents, Publish(i) \/ ChangeIdentity(i) PROVE TypeOK'
    BY <1>2 DEF Publish, ChangeIdentity, TypeOK, stored, daemon
  <1>3. CASE TimerFires
    <2>1. CASE slot' = [slot EXCEPT !.timer = FALSE] /\ UNCHANGED cycles
      BY <1>3, <2>1 DEF TimerFires, TypeOK, upstream, stored, Slot
    <2>2. CASE Launch(FALSE)
      BY <1>3, <2>2, LaunchType DEF TimerFires, TypeOK, upstream, stored
    <2> QED
      BY <1>3, <2>1, <2>2 DEF TimerFires
  <1>4. ASSUME NEW c \in CliCycles, CliOnce(c) \/ CliDies(c) PROVE TypeOK'
    <2>1. c \in Cycles
      BY DEF Cycles
    <2>2. cycles' \in [Cycles -> CycleRow]
      BY <1>4, <2>1, ConstantRows DEF CliOnce, CliDies, TypeOK
    <2> QED
      BY <1>4, <2>2 DEF CliOnce, CliDies, TypeOK, upstream, stored, daemon
  <1>5. ASSUME NEW c \in Cycles, CycleStep(c) PROVE TypeOK'
    <2>1. phase' = phase /\ slot' \in Slot /\ disabling' \subseteq DaemonCycles
      BY <1>5, CycleStepForm, FinishType DEF daemon, TypeOK
    <2> QED
      BY <1>5, <2>1, CycleStepForm, CycleStepStored DEF TypeOK, upstream
  <1>6. CASE Operator
    <2>1. CASE RunOnce
      BY <2>1, LaunchType DEF RunOnce, TypeOK, upstream, stored
    <2>2. CASE Enable
      <3>1. slot' \in Slot
        BY <2>2 DEF Enable, TypeOK, Slot, Schedules
      <3> QED
        BY <2>2, <3>1 DEF Enable, Controlled, TypeOK, upstream, stored
    <2>3. CASE Disable
      <3>1. slot' \in Slot /\ disabling' \subseteq DaemonCycles
        BY <2>3 DEF Disable, TypeOK, Slot
      <3> QED
        BY <2>3, <3>1 DEF Disable, Controlled, TypeOK, upstream, stored
    <2>4. CASE RebindBegin
      <3>1. [ident |-> live, cursor |-> log[live], rev |-> cp.rev] \in Checkpoint
        BY <2>4 DEF RebindBegin, TypeOK, Checkpoint
      <3> QED
        BY <2>4, <3>1 DEF RebindBegin, TypeOK, upstream, stored, daemon
    <2>5. ASSUME NEW b \in rebind, RebindCommit(b) PROVE TypeOK'
      <3>1. b \in Checkpoint
        BY DEF TypeOK
      <3>2. [b EXCEPT !.rev = @ + 1] \in Checkpoint /\ b.cursor \in Nat
        BY <3>1 DEF Checkpoint
      <3> QED
        BY <2>5, <3>2 DEF RebindCommit, TypeOK, upstream, daemon
    <2>6. CASE BootBegin
      BY <2>6 DEF BootBegin, TypeOK, upstream, stored, daemon
    <2>7. ASSUME NEW b \in boot, BootCommit(b) PROVE TypeOK'
      <3>1. b \in [ident: Idents, cursor: Nat]
        BY DEF TypeOK
      <3>2. [ident |-> b.ident, cursor |-> b.cursor, rev |-> 1] \in Checkpoint /\ b.cursor \in Nat
        BY <3>1 DEF Checkpoint
      <3> QED
        BY <2>7, <3>2 DEF BootCommit, TypeOK, upstream, daemon
    <2> QED
      BY <1>6, <2>1, <2>2, <2>3, <2>4, <2>5, <2>6, <2>7 DEF Operator
  <1>7. CASE Start \/ Stop
    BY <1>7 DEF Start, Stop, TypeOK, Slot, upstream, stored
  <1>8. CASE Exit \/ Restart
    BY <1>8, ConstantRows DEF Exit, Restart, TypeOK, upstream, stored, Cycles
  <1> QED
    BY <1>1, <1>2, <1>3, <1>4, <1>5, <1>6, <1>7, <1>8 DEF Next

------------------------------------------------------------------------------
(* The slot.  That no timer is set while the source is off rests on the    *)
(* slot being disabled then; that its promise is the cycle under way, also *)
(* on a daemon that is down having none.                                    *)

DownIsEmpty == phase = "down" => slot.promise = NoCycle

OffIsDisabled == control = "off" => ~slot.enabled

SlotInv ==
    TypeOK /\ OneCyclePerSlot /\ DownIsEmpty /\ DisabledIsQuiet /\ OffIsDisabled

\* The slot is as described in the initial states.
LEMMA InitSlotInv == Init => SlotInv
  <1> SUFFICES ASSUME Init PROVE SlotInv
    OBVIOUS
  <1>1. TypeOK
    BY ConstantRows, SourceAssumption DEF Init, TypeOK
  <1>2. \A c \in DaemonCycles : ~Running(c) /\ slot.promise # c
    BY ConstantRows, SourceAssumption DEF Init, Running, FreshSlot, Cycles
  <1>3. slot.promise = NoCycle /\ control = "unset"
    BY DEF Init, FreshSlot
  <1> QED
    BY <1>1, <1>2, <1>3 DEF SlotInv, OneCyclePerSlot, DownIsEmpty, DisabledIsQuiet, OffIsDisabled

\* Steps that leave the daemon and its cycles alone.
LEMMA SlotUntouched ==
    ASSUME SlotInv, TypeOK', UNCHANGED <<control, phase, slot, disabling>>,
           \A c \in DaemonCycles : /\ Running(c)' <=> Running(c)
                                   /\ cycles'[c].asked = cycles[c].asked
    PROVE  SlotInv'
  BY DEF SlotInv, OneCyclePerSlot, DownIsEmpty, DisabledIsQuiet, OffIsDisabled

\* A cycle that ends leaves the slot free and, where the source is off, without a
\* timer.
LEMMA FinishKeepsSlot ==
    ASSUME SlotInv, TypeOK', NEW c \in Cycles, Running(c), control' = control,
           NEW outcome \in {"healthy", "retry", "needs_attention"}, Finish(c, outcome)
    PROVE  SlotInv'
  <1>1. /\ cycles'[c].pc = "idle" /\ phase' = phase
        /\ \A d \in Cycles \ {c} : cycles'[d] = cycles[d]
    BY FinishType DEF SlotInv
  <1>2. CASE c \in CliCycles
    <2>1. UNCHANGED <<phase, slot, disabling>>
      BY <1>2 DEF Finish, daemon
    <2>2. \A d \in DaemonCycles : cycles'[d] = cycles[d]
      BY <1>1, <1>2, SourceAssumption DEF Cycles
    <2> QED
      BY <2>1, <2>2, SlotUntouched DEF Running
  <1>3. CASE c \in DaemonCycles
    <2>1. slot' = SlotAfter(outcome) /\ disabling' = disabling \ {c}
      BY <1>3, SourceAssumption DEF Finish
    <2>2. slot'.promise = NoCycle /\ slot'.enabled = slot.enabled
      BY <2>1 DEF SlotAfter, SlotInv, TypeOK, Slot
    <2>3. control = "off" => ~slot'.timer
      BY <2>1 DEF SlotAfter, SlotInv, TypeOK, Slot, DisabledIsQuiet, OffIsDisabled
    <2>4. slot.promise = c
      BY <1>3 DEF SlotInv, OneCyclePerSlot
    <2>5. \A d \in DaemonCycles : ~Running(d)' /\ slot'.promise # d
      BY <1>1, <2>2, <2>4, SourceAssumption DEF SlotInv, OneCyclePerSlot, Running, Cycles
    <2> QED
      BY <1>1, <2>2, <2>3, <2>5
      DEF SlotInv, OneCyclePerSlot, DownIsEmpty, DisabledIsQuiet, OffIsDisabled
  <1> QED
    BY <1>2, <1>3 DEF Cycles

\* A cycle is launched only into a free slot, and with the source off only on
\* request.
LEMMA LaunchKeepsSlot ==
    ASSUME SlotInv, TypeOK', UNCHANGED <<control, phase, disabling>>, phase # "down",
           slot.promise = NoCycle, NEW asked \in BOOLEAN, Launch(asked),
           control = "off" => asked
    PROVE  SlotInv'
  <1>1. PICK c \in DaemonCycles :
              /\ slot'.promise = c /\ ~slot'.timer /\ slot'.enabled = slot.enabled
              /\ cycles' = [cycles EXCEPT ![c] = Launched(asked)]
    BY LaunchType DEF SlotInv
  <1>2. \A d \in DaemonCycles : ~Running(d)
    BY SourceAssumption DEF SlotInv, OneCyclePerSlot, Cycles
  <1>3. /\ cycles'[c].pc = "connect" /\ cycles'[c].asked = asked
        /\ \A d \in DaemonCycles \ {c} : cycles'[d] = cycles[d]
    BY <1>1, ConstantRows DEF SlotInv, TypeOK, Cycles
  <1>4. \A d \in DaemonCycles : Running(d)' <=> d = c
    BY <1>2, <1>3 DEF Running
  <1> QED
    BY <1>1, <1>3, <1>4 DEF SlotInv, OneCyclePerSlot, DownIsEmpty, DisabledIsQuiet, OffIsDisabled

\* Every step keeps what is known of the slot.
LEMMA NextKeepsSlotInv == SlotInv /\ [Next]_vars => SlotInv'
  <1> SUFFICES ASSUME SlotInv, [Next]_vars PROVE SlotInv'
    OBVIOUS
  <1>0. TypeOK /\ TypeOK'
    BY NextKeepsTypes DEF SlotInv
  <1>1. CASE /\ UNCHANGED <<control, phase, slot, disabling>>
             /\ \A c \in DaemonCycles : cycles'[c] = cycles[c]
    BY <1>0, <1>1, SlotUntouched DEF Running
  <1>2. CASE UNCHANGED vars
    BY <1>1, <1>2 DEF vars
  <1>3. ASSUME NEW i \in Idents, Publish(i) \/ ChangeIdentity(i) PROVE SlotInv'
    BY <1>1, <1>3 DEF Publish, ChangeIdentity, daemon
  <1>4. CASE TimerFires
    <2>1. UNCHANGED <<control, phase, disabling>> /\ phase # "down" /\ slot.timer
      BY <1>4 DEF TimerFires
    <2>2. control # "off"
      BY <2>1 DEF SlotInv, DisabledIsQuiet
    <2>3. CASE slot' = [slot EXCEPT !.timer = FALSE] /\ UNCHANGED cycles
      <3>1. slot'.promise = slot.promise /\ slot'.enabled = slot.enabled
        BY <1>0, <2>3 DEF TypeOK, Slot
      <3> QED
        BY <1>0, <2>1, <2>2, <2>3, <3>1
        DEF SlotInv, OneCyclePerSlot, DownIsEmpty, DisabledIsQuiet, OffIsDisabled, Running
    <2>4. CASE Launch(FALSE) /\ slot.promise = NoCycle
      BY <1>0, <2>1, <2>2, <2>4, LaunchKeepsSlot
    <2> QED
      BY <1>4, <2>3, <2>4 DEF TimerFires
  <1>5. ASSUME NEW c \in CliCycles, CliOnce(c) \/ CliDies(c) PROVE SlotInv'
    BY <1>0, <1>1, <1>5, SourceAssumption DEF CliOnce, CliDies, daemon, TypeOK, Cycles
  <1>6. ASSUME NEW c \in Cycles, CycleStep(c) PROVE SlotInv'
    <2>1. ASSUME NEW outcome \in {"healthy", "retry", "needs_attention"}, Finish(c, outcome)
          PROVE  SlotInv'
      BY <1>0, <1>6, <2>1, CycleStepForm, FinishKeepsSlot
    <2>2. CASE UNCHANGED daemon /\ cycles'[c].pc # "idle" /\ cycles'[c].asked = cycles[c].asked
      <3>1. /\ Running(c) /\ control' = control
            /\ \A d \in Cycles \ {c} : cycles'[d] = cycles[d]
        BY <1>0, <1>6, CycleStepForm
      <3>2. UNCHANGED <<phase, slot, disabling>>
        BY <2>2 DEF daemon
      <3>3. \A d \in DaemonCycles : /\ Running(d)' <=> Running(d)
                                    /\ cycles'[d].asked = cycles[d].asked
        BY <2>2, <3>1 DEF Running, Cycles
      <3> QED
        BY <1>0, <3>1, <3>2, <3>3, SlotUntouched
    <2> QED
      BY <1>0, <1>6, <2>1, <2>2, CycleStepForm
  <1>7. CASE Operator
    <2>1. CASE RunOnce
      BY <1>0, <2>1, LaunchKeepsSlot DEF RunOnce
    <2>2. CASE Enable
      <3>1. /\ slot'.promise = slot.promise /\ control' = "on"
            /\ UNCHANGED <<phase, disabling, cycles>>
        BY <1>0, <2>2 DEF Enable, Controlled, TypeOK, Slot
      <3> QED
        BY <1>0, <3>1
        DEF SlotInv, OneCyclePerSlot, DownIsEmpty, DisabledIsQuiet, OffIsDisabled, Running
    <2>3. CASE Disable
      <3>1. /\ slot'.promise = slot.promise /\ ~slot'.enabled /\ ~slot'.timer
            /\ disabling' = disabling \cup ({slot.promise} \ {NoCycle})
            /\ UNCHANGED <<phase, cycles>>
        BY <1>0, <2>3 DEF Disable, TypeOK, Slot
      <3>2. \A c \in DaemonCycles : Running(c) => c \in disabling'
        BY <3>1, SourceAssumption DEF SlotInv, OneCyclePerSlot, Cycles
      <3> QED
        BY <1>0, <3>1, <3>2
        DEF SlotInv, OneCyclePerSlot, DownIsEmpty, DisabledIsQuiet, OffIsDisabled, Running
    <2>4. CASE RebindBegin \/ BootBegin
      BY <1>1, <2>4 DEF RebindBegin, BootBegin, daemon
    <2>5. ASSUME NEW b, RebindCommit(b) \/ BootCommit(b) PROVE SlotInv'
      BY <1>1, <2>5 DEF RebindCommit, BootCommit, daemon
    <2> QED
      BY <1>7, <2>1, <2>2, <2>3, <2>4, <2>5 DEF Operator
  <1>8. CASE Start
    <2>1. /\ slot'.promise = slot.promise /\ slot'.enabled = slot.enabled
          /\ slot'.timer = (slot.timer \/ slot.enabled) /\ phase' = "up"
          /\ UNCHANGED <<control, disabling, cycles>>
      BY <1>0, <1>8 DEF Start, TypeOK, Slot
    <2> QED
      BY <1>0, <2>1
      DEF SlotInv, OneCyclePerSlot, DownIsEmpty, DisabledIsQuiet, OffIsDisabled, Running
  <1>9. CASE Stop
    <2>1. /\ slot'.promise = slot.promise /\ slot'.enabled = slot.enabled
          /\ ~slot'.timer /\ phase' = "stopping"
          /\ UNCHANGED <<control, disabling, cycles>>
      BY <1>0, <1>9 DEF Stop, TypeOK, Slot
    <2> QED
      BY <1>0, <2>1
      DEF SlotInv, OneCyclePerSlot, DownIsEmpty, DisabledIsQuiet, OffIsDisabled, Running
  <1>10. CASE Exit
    <2>1. \A c \in DaemonCycles : ~Running(c)'
      BY <1>10, ConstantRows DEF Exit, Running, Cycles
    <2>2. slot'.promise = NoCycle /\ ~slot'.enabled /\ ~slot'.timer
      BY <1>10 DEF Exit, DownSlot
    <2> QED
      BY <1>0, <2>1, <2>2, SourceAssumption
      DEF SlotInv, OneCyclePerSlot, DownIsEmpty, DisabledIsQuiet, OffIsDisabled, Cycles
  <1>11. CASE Restart
    <2>1. /\ slot'.promise = NoCycle /\ ~slot'.timer /\ slot'.enabled = Enabled(control)
          /\ phase' = "starting" /\ slot.promise = NoCycle /\ UNCHANGED <<control, cycles>>
      BY <1>11 DEF Restart, FreshSlot, SlotInv, DownIsEmpty
    <2>2. \A c \in DaemonCycles : ~Running(c)' /\ slot'.promise # c
      BY <2>1, SourceAssumption DEF SlotInv, OneCyclePerSlot, Running, Cycles
    <2>3. control = "off" => ~slot'.enabled
      BY <2>1 DEF Enabled
    <2> QED
      BY <1>0, <2>1, <2>2, <2>3
      DEF SlotInv, OneCyclePerSlot, DownIsEmpty, DisabledIsQuiet, OffIsDisabled
  <1> QED
    BY <1>2, <1>3, <1>4, <1>5, <1>6, <1>7, <1>8, <1>9, <1>10, <1>11 DEF Next

\* The invariant of the slot holds always.
LEMMA SlotInvHolds == Spec => []SlotInv
  <1> QED
    BY InitSlotInv, NextKeepsSlotInv, PTL DEF Spec

\* The database, the slot and the local variables of the cycles have their types.
THEOREM TypeCorrect == Spec => []TypeOK
  <1>1. SlotInv => TypeOK
    BY DEF SlotInv
  <1> QED
    BY SlotInvHolds, <1>1, PTL

\* The slot has at most one cycle under way, and its promise is that cycle.
THEOREM SlotHasOneCycle == Spec => []OneCyclePerSlot
  <1>1. SlotInv => OneCyclePerSlot
    BY DEF SlotInv
  <1> QED
    BY SlotInvHolds, <1>1, PTL

\* A source that was disabled has no timer, and no cycle that nobody asked or waits
\* for, across restarts.
THEOREM DisabledStaysQuiet == Spec => []DisabledIsQuiet
  <1>1. SlotInv => DisabledIsQuiet
    BY DEF SlotInv
  <1> QED
    BY SlotInvHolds, <1>1, PTL

------------------------------------------------------------------------------
(* The checkpoint.  A cycle that will commit knows that everything from the *)
(* start, or from the checkpoint it read, to its position is emitted; what  *)
(* it read is the checkpoint of today exactly if the revision still agrees, *)
(* since revisions only grow.  No cursor lies beyond the end of its log.    *)

Reads(c) == cycles[c].pc \in {"poll", "emit"}

CursorsExist ==
    /\ cp # NoCheckpoint => cp.cursor <= log[cp.ident]
    /\ \A b \in rebind \cup boot : b.cursor <= log[b.ident]
    /\ \A c \in Cycles : Reads(c) => cycles[c].done <= log[cycles[c].ident]
    /\ \A c \in Cycles : cycles[c].pc = "emit" =>
          cycles[c].done <= cycles[c].to /\ cycles[c].to <= log[cycles[c].ident]

RevisionsGrow ==
    /\ \A c \in Cycles : Reads(c) /\ cycles[c].rev # 0 =>
          cp # NoCheckpoint /\ cycles[c].rev <= cp.rev
    /\ rebind # {} => cp # NoCheckpoint

ReadIsEmitted ==
    \A c \in Cycles : Reads(c) =>
       /\ cycles[c].rev = 0 => Feed!Owed(cycles[c].ident, 0, cycles[c].done) \subseteq emitted
       /\ Matches(cycles[c].rev, cycles[c].ident) =>
             /\ cp.cursor <= cycles[c].done
             /\ Feed!Owed(cycles[c].ident, cp.cursor, cycles[c].done) \subseteq emitted

FeedInv == CursorsExist /\ RevisionsGrow /\ ReadIsEmitted /\ NothingSkipped

\* What is owed up to a position is owed up to an earlier one and from there on.
LEMMA OwedJoins ==
    ASSUME NEW i, NEW from \in Nat, NEW mid \in Nat, NEW to \in Nat, NEW S,
           Feed!Owed(i, from, mid) \subseteq S, Feed!Owed(i, mid, to) \subseteq S
    PROVE  Feed!Owed(i, from, to) \subseteq S
  <1> SUFFICES ASSUME NEW n \in from + 1 .. to PROVE <<i, n>> \in S
    BY DEF Feed!Owed
  <1>1. n \in from + 1 .. mid \/ n \in mid + 1 .. to
    OBVIOUS
  <1> QED
    BY <1>1 DEF Feed!Owed

\* What is owed up to the next position, when it has just been emitted.
LEMMA OwedNext ==
    ASSUME NEW i, NEW from \in Nat, NEW n \in Nat, NEW S, Feed!Owed(i, from, n) \subseteq S
    PROVE  Feed!Owed(i, from, n + 1) \subseteq S \cup {<<i, n + 1>>}
  <1> SUFFICES ASSUME NEW k \in from + 1 .. n + 1 PROVE <<i, k>> \in S \cup {<<i, n + 1>>}
    BY DEF Feed!Owed
  <1>1. k \in from + 1 .. n \/ k = n + 1
    OBVIOUS
  <1> QED
    BY <1>1 DEF Feed!Owed

\* Nothing is owed up to where one starts.
LEMMA OwedNothing ==
    ASSUME NEW i, NEW n \in Nat, NEW S
    PROVE  Feed!Owed(i, n, n) \subseteq S
  <1>1. n + 1 .. n = {}
    OBVIOUS
  <1> QED
    BY <1>1 DEF Feed!Owed

\* Nothing is owed initially.
LEMMA InitFeedInv == Init => FeedInv
  <1>1. Init => \A c \in Cycles : cycles[c].pc = "idle"
    BY ConstantRows DEF Init
  <1> QED
    BY <1>1 DEF Init, FeedInv, CursorsExist, RevisionsGrow, ReadIsEmitted, NothingSkipped, Reads

\* Steps that leave the checkpoint and the requests alone; cycles that go on reading
\* do not change what they know.
LEMMA FeedUntouched ==
    ASSUME FeedInv, TypeOK', UNCHANGED <<log, cp, waterline, rebind, boot>>,
           emitted \subseteq emitted',
           \A c \in Cycles : cycles'[c] = cycles[c] \/ cycles'[c].pc \notin {"poll", "emit"}
    PROVE  FeedInv'
  <1>1. \A c \in Cycles : Reads(c)' => cycles'[c] = cycles[c] /\ Reads(c)
    BY DEF Reads
  <1>2. \A c \in Cycles : cycles'[c].pc = "emit" => cycles'[c] = cycles[c]
    OBVIOUS
  <1>3. CursorsExist'
    BY <1>1, <1>2 DEF FeedInv, CursorsExist
  <1>4. RevisionsGrow' /\ ReadIsEmitted' /\ NothingSkipped'
    BY <1>1 DEF FeedInv, RevisionsGrow, ReadIsEmitted, NothingSkipped, Matches
  <1> QED
    BY <1>3, <1>4 DEF FeedInv

\* One cycle changes what it knows, of an unchanged checkpoint.
LEMMA FeedReadBy ==
    ASSUME FeedInv, TypeOK', NEW c \in Cycles,
           UNCHANGED <<log, cp, waterline, rebind, boot>>, emitted \subseteq emitted',
           \A d \in Cycles \ {c} : cycles'[d] = cycles[d],
           cycles'[c].done <= log[cycles'[c].ident],
           cycles'[c].pc = "emit" => cycles'[c].done <= cycles'[c].to /\ cycles'[c].to <= log[cycles'[c].ident],
           cycles'[c].rev # 0 => cp # NoCheckpoint /\ cycles'[c].rev <= cp.rev,
           cycles'[c].rev = 0 => Feed!Owed(cycles'[c].ident, 0, cycles'[c].done) \subseteq emitted',
           Matches(cycles'[c].rev, cycles'[c].ident) =>
              /\ cp.cursor <= cycles'[c].done
              /\ Feed!Owed(cycles'[c].ident, cp.cursor, cycles'[c].done) \subseteq emitted'
    PROVE  FeedInv'
  <1>1. \A d \in Cycles \ {c} : Reads(d)' <=> Reads(d)
    BY DEF Reads
  <1>2. CursorsExist'
    BY <1>1 DEF FeedInv, CursorsExist
  <1>3. RevisionsGrow'
    BY <1>1 DEF FeedInv, RevisionsGrow
  <1>4. ReadIsEmitted'
    <2> SUFFICES ASSUME NEW d \in Cycles, Reads(d)'
                 PROVE  /\ cycles'[d].rev = 0 => Feed!Owed(cycles'[d].ident, 0, cycles'[d].done) \subseteq emitted'
                        /\ Matches(cycles'[d].rev, cycles'[d].ident) =>
                              /\ cp.cursor <= cycles'[d].done
                              /\ Feed!Owed(cycles'[d].ident, cp.cursor, cycles'[d].done) \subseteq emitted'
      BY DEF ReadIsEmitted, Matches
    <2>1. CASE d = c
      BY <2>1
    <2>2. CASE d # c
      <3>1. cycles'[d] = cycles[d] /\ Reads(d)
        BY <1>1, <2>2
      <3> QED
        BY <3>1 DEF FeedInv, ReadIsEmitted
    <2> QED
      BY <2>1, <2>2
  <1>5. NothingSkipped'
    BY DEF FeedInv, NothingSkipped
  <1> QED
    BY <1>2, <1>3, <1>4, <1>5 DEF FeedInv

\* Where the checkpoint gets a revision of its own, no cycle that read an earlier one
\* will commit.
LEMMA FeedMoves ==
    ASSUME FeedInv, TypeOK, TypeOK', UNCHANGED <<log, emitted>>,
           \A c \in Cycles : cycles'[c] = cycles[c] \/ cycles'[c].pc \notin {"poll", "emit"},
           rebind' \subseteq rebind, boot' \subseteq boot,
           cp' # NoCheckpoint, cp # NoCheckpoint => cp'.rev = cp.rev + 1,
           cp'.cursor <= log[cp'.ident],
           Feed!Owed(cp'.ident, waterline', cp'.cursor) \subseteq emitted
    PROVE  FeedInv'
  <1>1. \A c \in Cycles : Reads(c)' => cycles'[c] = cycles[c] /\ Reads(c)
    BY DEF Reads
  <1>2. \A c \in Cycles : cycles'[c].pc = "emit" => cycles'[c] = cycles[c]
    OBVIOUS
  <1>3. CursorsExist'
    BY <1>1, <1>2 DEF FeedInv, CursorsExist
  <1>4. \A c \in Cycles : cycles[c].rev \in Nat
    BY DEF TypeOK, CycleRow
  <1>5. cp' \in Checkpoint /\ (cp # NoCheckpoint => cp \in Checkpoint)
    BY DEF TypeOK
  <1>6. cp'.rev \in Nat \ {0} /\ (cp # NoCheckpoint => cp.rev \in Nat /\ cp.rev < cp'.rev)
    BY <1>5 DEF Checkpoint
  <1>7. \A c \in Cycles : Reads(c) => cycles[c].rev < cp'.rev
    <2> SUFFICES ASSUME NEW c \in Cycles, Reads(c) PROVE cycles[c].rev < cp'.rev
      OBVIOUS
    <2>1. CASE cycles[c].rev = 0
      BY <2>1, <1>6
    <2>2. CASE cycles[c].rev # 0
      BY <2>2, <1>4, <1>6 DEF FeedInv, RevisionsGrow
    <2> QED
      BY <2>1, <2>2
  <1>8. RevisionsGrow'
    BY <1>1, <1>4, <1>6, <1>7 DEF RevisionsGrow
  <1>9. ReadIsEmitted'
    <2> SUFFICES ASSUME NEW c \in Cycles, Reads(c)'
                 PROVE  /\ cycles'[c].rev = 0 => Feed!Owed(cycles'[c].ident, 0, cycles'[c].done) \subseteq emitted'
                        /\ cp'.rev # cycles'[c].rev
      BY DEF ReadIsEmitted, Matches
    <2>1. cycles'[c] = cycles[c] /\ Reads(c)
      BY <1>1
    <2>2. cycles[c].rev < cp'.rev
      BY <1>7, <2>1
    <2> QED
      BY <2>1, <2>2, <1>4, <1>6 DEF FeedInv, ReadIsEmitted
  <1>10. NothingSkipped'
    BY DEF NothingSkipped, Feed!Owed
  <1> QED
    BY <1>3, <1>8, <1>9, <1>10 DEF FeedInv

\* Logs that grow.
LEMMA PublishKeepsFeed ==
    ASSUME FeedInv, TypeOK, TypeOK', NEW i \in Idents, Publish(i)
    PROVE  FeedInv'
  <1>1. /\ \A j \in Idents : log[j] \in Nat /\ log'[j] \in Nat /\ log[j] <= log'[j]
        /\ UNCHANGED <<cp, waterline, emitted, cycles, rebind, boot>>
    BY DEF Publish, TypeOK, stored
  <1>2. \A c \in Cycles : /\ cycles[c].ident \in Idents
                          /\ cycles[c].done \in Nat /\ cycles[c].to \in Nat
    BY DEF TypeOK, CycleRow
  <1>3. cp # NoCheckpoint => cp.ident \in Idents /\ cp.cursor \in Nat
    BY DEF TypeOK, Checkpoint
  <1>4. \A b \in rebind \cup boot : b.ident \in Idents /\ b.cursor \in Nat
    BY DEF TypeOK, Checkpoint
  <1>5. CursorsExist'
    <2>1. cp # NoCheckpoint => cp.cursor <= log'[cp.ident]
      BY <1>1, <1>3 DEF FeedInv, CursorsExist
    <2>2. \A b \in rebind \cup boot : b.cursor <= log'[b.ident]
      BY <1>1, <1>4 DEF FeedInv, CursorsExist
    <2>3. \A c \in Cycles : Reads(c) => cycles[c].done <= log'[cycles[c].ident]
      BY <1>1, <1>2 DEF FeedInv, CursorsExist
    <2>4. \A c \in Cycles : cycles[c].pc = "emit" =>
             cycles[c].done <= cycles[c].to /\ cycles[c].to <= log'[cycles[c].ident]
      BY <1>1, <1>2 DEF FeedInv, CursorsExist
    <2> QED
      BY <1>1, <2>1, <2>2, <2>3, <2>4 DEF CursorsExist, Reads
  <1>6. RevisionsGrow' /\ ReadIsEmitted' /\ NothingSkipped'
    BY <1>1 DEF FeedInv, RevisionsGrow, ReadIsEmitted, NothingSkipped, Matches, Reads
  <1> QED
    BY <1>5, <1>6 DEF FeedInv

\* A page starts where the checkpoint is, of which nothing is owed yet.
LEMMA BeginPageKeepsFeed ==
    ASSUME FeedInv, TypeOK, TypeOK', NEW c \in Cycles, NEW ident \in Idents, NEW page \in Nat,
           BeginPage(c, ident, page), UNCHANGED <<log, cp, waterline, emitted, rebind, boot>>
    PROVE  FeedInv'
  <1>1. CASE Finish(c, "needs_attention")
    BY <1>1, FinishType, FeedUntouched
  <1>2. CASE ~Finish(c, "needs_attention")
    <2>1. /\ cp # NoCheckpoint => cp.ident = ident
          /\ \A d \in Cycles \ {c} : cycles'[d] = cycles[d]
          /\ cycles'[c].pc = "poll" /\ cycles'[c].ident = ident
          /\ cycles'[c].rev = IF cp = NoCheckpoint THEN 0 ELSE cp.rev
          /\ cycles'[c].done = IF cp = NoCheckpoint THEN 0 ELSE cp.cursor
      BY <1>2, BeginPageType
    <2>2. cp # NoCheckpoint => cp.cursor \in Nat /\ cp.rev \in Nat \ {0} /\ cp.cursor <= log[cp.ident]
      BY DEF TypeOK, Checkpoint, FeedInv, CursorsExist
    <2>3. log[ident] \in Nat
      BY DEF TypeOK
    <2>4. CASE cp = NoCheckpoint
      <3>1. cycles'[c].rev = 0 /\ cycles'[c].done = 0
        BY <2>1, <2>4
      <3>2. Feed!Owed(ident, 0, 0) \subseteq emitted'
        BY OwedNothing
      <3> QED
        BY <2>1, <2>3, <2>4, <3>1, <3>2, FeedReadBy DEF Matches
    <2>5. CASE cp # NoCheckpoint
      <3>1. cycles'[c].rev = cp.rev /\ cycles'[c].done = cp.cursor /\ cp.ident = ident
        BY <2>1, <2>5
      <3>2. Feed!Owed(ident, cp.cursor, cp.cursor) \subseteq emitted'
        BY <2>2, <2>5, OwedNothing
      <3> QED
        BY <2>1, <2>2, <2>3, <2>5, <3>1, <3>2, FeedReadBy DEF Matches
    <2> QED
      BY <2>4, <2>5
  <1> QED
    BY <1>1, <1>2

\* A page ends within the log.
LEMMA PageArrivesKeepsFeed ==
    ASSUME FeedInv, TypeOK, TypeOK', NEW c \in Cycles, PageArrives(c)
    PROVE  FeedInv'
  <1> DEFINE r    == cycles[c]
             last == log[r.ident]
             to   == IF r.done + Limit < last THEN r.done + Limit ELSE last
  <1>1. /\ r.pc = "poll" /\ UNCHANGED <<log, cp, waterline, emitted, rebind, boot>>
    BY DEF PageArrives, upstream, stored
  <1>2. ASSUME NEW outcome \in {"retry", "needs_attention"}, Finish(c, outcome) PROVE FeedInv'
    BY <1>1, <1>2, FinishType, FeedUntouched
  <1>3. CASE cycles' = [cycles EXCEPT ![c].pc = "emit", ![c].to = to, ![c].more = to < last]
    <2>1. r \in CycleRow /\ r.done \in Nat /\ last \in Nat /\ r.done <= last
      BY <1>1 DEF TypeOK, CycleRow, FeedInv, CursorsExist, Reads
    <2>2. r.done <= to /\ to <= last /\ to \in Nat
      BY <2>1, SourceAssumption
    <2> HIDE DEF to, last
    <2>3. /\ \A d \in Cycles \ {c} : cycles'[d] = cycles[d]
          /\ cycles'[c].pc = "emit" /\ cycles'[c].to = to
          /\ cycles'[c].done = r.done /\ cycles'[c].ident = r.ident /\ cycles'[c].rev = r.rev
      BY <1>3 DEF TypeOK, CycleRow
    <2>4. /\ r.rev # 0 => cp # NoCheckpoint /\ r.rev <= cp.rev
          /\ r.rev = 0 => Feed!Owed(r.ident, 0, r.done) \subseteq emitted
          /\ Matches(r.rev, r.ident) =>
                cp.cursor <= r.done /\ Feed!Owed(r.ident, cp.cursor, r.done) \subseteq emitted
      BY <1>1 DEF FeedInv, RevisionsGrow, ReadIsEmitted, Reads
    <2>5. last = log[r.ident]
      BY DEF last
    <2> QED
      BY <1>1, <2>1, <2>2, <2>3, <2>4, <2>5, FeedReadBy
  <1> QED
    BY <1>2, <1>3 DEF PageArrives

\* An event is emitted before the cycle counts it.
LEMMA EmitEventKeepsFeed ==
    ASSUME FeedInv, TypeOK, TypeOK', NEW c \in Cycles, EmitEvent(c)
    PROVE  FeedInv'
  <1> DEFINE r == cycles[c]
  <1>1. /\ r.pc = "emit" /\ r.done < r.to /\ UNCHANGED <<log, cp, waterline, rebind, boot>>
    BY DEF EmitEvent, upstream
  <1>2. CASE Finish(c, "needs_attention")
    <2>1. emitted \subseteq emitted'
      BY DEF EmitEvent
    <2> QED
      BY <1>1, <1>2, <2>1, FinishType, FeedUntouched
  <1>3. CASE /\ emitted' = emitted \cup {<<r.ident, r.done + 1>>}
             /\ cycles' = [cycles EXCEPT ![c].done = @ + 1]
    <2>1. r \in CycleRow /\ r.done \in Nat /\ r.to \in Nat /\ r.ident \in Idents /\ r.to <= log[r.ident]
      BY <1>1 DEF TypeOK, CycleRow, FeedInv, CursorsExist
    <2>2. /\ \A d \in Cycles \ {c} : cycles'[d] = cycles[d]
          /\ cycles'[c].pc = "emit" /\ cycles'[c].to = r.to
          /\ cycles'[c].done = r.done + 1 /\ cycles'[c].ident = r.ident /\ cycles'[c].rev = r.rev
      BY <1>1, <1>3 DEF TypeOK, CycleRow
    <2>3. /\ r.rev # 0 => cp # NoCheckpoint /\ r.rev <= cp.rev
          /\ r.rev = 0 => Feed!Owed(r.ident, 0, r.done) \subseteq emitted
          /\ Matches(r.rev, r.ident) =>
                cp.cursor <= r.done /\ Feed!Owed(r.ident, cp.cursor, r.done) \subseteq emitted
      BY <1>1 DEF FeedInv, RevisionsGrow, ReadIsEmitted, Reads
    <2>4. cp # NoCheckpoint => cp.cursor \in Nat
      BY DEF TypeOK, Checkpoint
    <2>5. r.done + 1 <= r.to /\ r.done + 1 <= log[r.ident] /\ log[r.ident] \in Nat
      BY <1>1, <2>1 DEF TypeOK
    <2>6. r.rev = 0 => Feed!Owed(r.ident, 0, r.done + 1) \subseteq emitted'
      BY <1>3, <2>1, <2>3, OwedNext
    <2>7. Matches(r.rev, r.ident) =>
             cp.cursor <= r.done + 1 /\ Feed!Owed(r.ident, cp.cursor, r.done + 1) \subseteq emitted'
      BY <1>3, <2>1, <2>3, <2>4, OwedNext DEF Matches
    <2>8. emitted \subseteq emitted'
      BY <1>3
    <2> HIDE DEF r
    <2> QED
      BY <1>1, <2>1, <2>2, <2>3, <2>5, <2>6, <2>7, <2>8, FeedReadBy
  <1> QED
    BY <1>2, <1>3 DEF EmitEvent

\* A commit that takes effect moves the checkpoint past what was emitted.
LEMMA CommitKeepsFeed ==
    ASSUME FeedInv, TypeOK, TypeOK', NEW c \in Cycles, Commit(c)
    PROVE  FeedInv'
  <1> DEFINE r == cycles[c]
  <1>1. /\ r.pc = "emit" /\ r.done = r.to /\ UNCHANGED <<log, emitted, rebind, boot>>
        /\ Written(c) \/ UNCHANGED <<cp, waterline>>
    BY DEF Commit, upstream
  <1>2. r \in CycleRow /\ r.ident \in Idents /\ r.to \in Nat /\ r.rev \in Nat /\ r.to <= log[r.ident]
    BY <1>1 DEF TypeOK, CycleRow, FeedInv, CursorsExist
  <1>3. \A d \in Cycles : cycles'[d] = cycles[d] \/ cycles'[d].pc \notin {"poll", "emit"}
    <2>1. CASE cycles' = [cycles EXCEPT ![c].pc = "confirm"]
      BY <1>2, <2>1 DEF TypeOK, CycleRow
    <2>2. CASE Finish(c, "needs_attention")
      BY <2>2, FinishType
    <2> QED
      BY <2>1, <2>2 DEF Commit
  <1>4. /\ r.rev = 0 => Feed!Owed(r.ident, 0, r.to) \subseteq emitted
        /\ Matches(r.rev, r.ident) =>
              cp.cursor <= r.to /\ Feed!Owed(r.ident, cp.cursor, r.to) \subseteq emitted
    BY <1>1 DEF FeedInv, ReadIsEmitted, Reads
  <1> HIDE DEF r
  <1>5. CASE Written(c) /\ r.rev = 0 /\ cp = NoCheckpoint
    <2>1. cp' = [ident |-> r.ident, cursor |-> r.to, rev |-> 1] /\ waterline' = 0
      BY <1>5 DEF Written, r
    <2>2. cp' # NoCheckpoint
      BY <1>2, <2>1, SourceAssumption
    <2>3. cp'.ident = r.ident /\ cp'.cursor = r.to
      BY <2>1
    <2> QED
      BY <1>1, <1>2, <1>3, <1>4, <1>5, <2>1, <2>2, <2>3, FeedMoves
  <1>6. CASE Written(c) /\ r.rev # 0 /\ Matches(r.rev, r.ident)
    <2>1. cp' = [cp EXCEPT !.cursor = r.to, !.rev = @ + 1] /\ waterline' = waterline
      BY <1>6 DEF Written, r
    <2>2. cp \in Checkpoint /\ cp # NoCheckpoint /\ cp.ident = r.ident
      BY <1>6 DEF Matches, TypeOK
    <2>3. cp'.ident = cp.ident /\ cp'.cursor = r.to /\ cp'.rev = cp.rev + 1 /\ cp' \in Checkpoint
      <3>1. cp' \in Checkpoint
        BY <1>2, <2>1, <2>2, CheckpointAdvances
      <3> QED
        BY <2>1, <2>2, <3>1 DEF Checkpoint
    <2>4. cp' # NoCheckpoint
      BY <2>3, SourceAssumption DEF Checkpoint
    <2>5. waterline \in Nat /\ cp.cursor \in Nat
      BY <2>2 DEF TypeOK, Checkpoint
    <2>6. Feed!Owed(cp.ident, waterline, cp.cursor) \subseteq emitted
      BY <2>2 DEF FeedInv, NothingSkipped, Feed!Owed
    <2>7. Feed!Owed(cp.ident, waterline, r.to) \subseteq emitted
      BY <1>2, <1>4, <1>6, <2>2, <2>5, <2>6, OwedJoins
    <2> QED
      BY <1>1, <1>2, <1>3, <2>1, <2>2, <2>3, <2>4, <2>7, FeedMoves
  <1>7. CASE UNCHANGED <<cp, waterline>>
    BY <1>1, <1>3, <1>7, FeedUntouched
  <1> QED
    BY <1>1, <1>5, <1>6, <1>7 DEF Written, r

\* A new cursor is the end of a log when it is read, and within it when written.
LEMMA RequestsKeepFeed ==
    ASSUME FeedInv, TypeOK, TypeOK',
           \/ RebindBegin \/ BootBegin
           \/ \E b \in rebind : RebindCommit(b)
           \/ \E b \in boot : BootCommit(b)
    PROVE  FeedInv'
  <1>0. live \in Idents /\ log[live] \in Nat
    BY DEF TypeOK
  <1>1. CASE RebindBegin \/ BootBegin
    <2>1. /\ UNCHANGED <<log, cp, waterline, emitted, cycles>>
          /\ \A b \in rebind' \cup boot' : b.cursor <= log[b.ident]
          /\ rebind' # {} => cp # NoCheckpoint
      <3>1. CASE RebindBegin
        BY <1>0, <3>1 DEF RebindBegin, FeedInv, CursorsExist, upstream, stored
      <3>2. CASE BootBegin
        BY <1>0, <3>2 DEF BootBegin, FeedInv, CursorsExist, RevisionsGrow, upstream, stored
      <3> QED
        BY <1>1, <3>1, <3>2
    <2>2. CursorsExist'
      BY <2>1 DEF FeedInv, CursorsExist, Reads
    <2> QED
      BY <2>1, <2>2 DEF FeedInv, RevisionsGrow, ReadIsEmitted, NothingSkipped, Matches, Reads
  <1>2. ASSUME NEW b \in rebind, RebindCommit(b) PROVE FeedInv'
    <2>1. rebind' = {} /\ UNCHANGED <<log, emitted, cycles, boot>>
      BY <1>2 DEF RebindCommit, upstream
    <2>2. b \in Checkpoint /\ b.cursor \in Nat /\ b.cursor <= log[b.ident]
      BY DEF TypeOK, Checkpoint, FeedInv, CursorsExist
    <2>3. CASE /\ cp # NoCheckpoint /\ cp.rev = b.rev
               /\ cp' = [b EXCEPT !.rev = @ + 1] /\ waterline' = b.cursor
      <3>1. cp' \in Checkpoint /\ cp'.ident = b.ident /\ cp'.cursor = b.cursor /\ cp'.rev = b.rev + 1
        <4>1. cp' \in Checkpoint
          BY <2>2, <2>3, CheckpointAdvances
        <4> QED
          BY <2>2, <2>3, <4>1 DEF Checkpoint
      <3>2. cp' # NoCheckpoint
        BY <3>1, SourceAssumption DEF Checkpoint
      <3>3. Feed!Owed(b.ident, b.cursor, b.cursor) \subseteq emitted
        BY <2>2, OwedNothing
      <3> QED
        BY <2>1, <2>2, <2>3, <3>1, <3>2, <3>3, FeedMoves
    <2>4. CASE UNCHANGED <<cp, waterline>>
      BY <2>1, <2>4
      DEF FeedInv, CursorsExist, RevisionsGrow, ReadIsEmitted, NothingSkipped, Matches, Reads
    <2> QED
      BY <1>2, <2>3, <2>4 DEF RebindCommit
  <1>3. ASSUME NEW b \in boot, BootCommit(b) PROVE FeedInv'
    <2>1. boot' = {} /\ UNCHANGED <<log, emitted, cycles, rebind>>
      BY <1>3 DEF BootCommit, upstream
    <2>2. b.ident \in Idents /\ b.cursor \in Nat /\ b.cursor <= log[b.ident]
      BY DEF TypeOK, FeedInv, CursorsExist
    <2>3. CASE /\ cp = NoCheckpoint /\ waterline' = b.cursor
               /\ cp' = [ident |-> b.ident, cursor |-> b.cursor, rev |-> 1]
      <3>1. cp' # NoCheckpoint
        BY <2>2, <2>3, SourceAssumption
      <3>2. cp'.ident = b.ident /\ cp'.cursor = b.cursor
        BY <2>3
      <3>3. Feed!Owed(b.ident, b.cursor, b.cursor) \subseteq emitted
        BY <2>2, OwedNothing
      <3> QED
        BY <2>1, <2>2, <2>3, <3>1, <3>2, <3>3, FeedMoves
    <2>4. CASE UNCHANGED <<cp, waterline>>
      BY <2>1, <2>4
      DEF FeedInv, CursorsExist, RevisionsGrow, ReadIsEmitted, NothingSkipped, Matches, Reads
    <2> QED
      BY <1>3, <2>3, <2>4 DEF BootCommit
  <1> QED
    BY <1>1, <1>2, <1>3

\* Every step keeps what cycles know of the feed.
LEMMA NextKeepsFeedInv == FeedInv /\ TypeOK /\ TypeOK' /\ [Next]_vars => FeedInv'
  <1> SUFFICES ASSUME FeedInv, TypeOK, TypeOK', [Next]_vars PROVE FeedInv'
    OBVIOUS
  <1>1. CASE /\ UNCHANGED <<log, cp, waterline, emitted, rebind, boot>>
             /\ \A c \in Cycles : cycles'[c] = cycles[c] \/ cycles'[c].pc \notin {"poll", "emit"}
    BY <1>1, FeedUntouched
  <1>2. CASE UNCHANGED vars
    BY <1>1, <1>2 DEF vars
  <1>3. ASSUME NEW i \in Idents, Publish(i) \/ ChangeIdentity(i) PROVE FeedInv'
    BY <1>1, <1>3, PublishKeepsFeed DEF ChangeIdentity, stored
  <1>4. CASE TimerFires \/ RunOnce
    <2>1. UNCHANGED <<log, cp, waterline, emitted, rebind, boot>>
      BY <1>4 DEF TimerFires, RunOnce, upstream, stored
    <2>2. ASSUME NEW asked \in BOOLEAN, Launch(asked) PROVE FeedInv'
      <3>1. PICK c \in DaemonCycles : cycles' = [cycles EXCEPT ![c] = Launched(asked)]
        BY <2>2, LaunchType
      <3>2. \A d \in Cycles : cycles'[d] = cycles[d] \/ cycles'[d].pc = "connect"
        BY <3>1, ConstantRows DEF TypeOK
      <3> QED
        BY <1>1, <2>1, <3>2
    <2>3. CASE UNCHANGED cycles
      BY <1>1, <2>1, <2>3
    <2> QED
      BY <1>4, <2>2, <2>3 DEF TimerFires, RunOnce
  <1>5. ASSUME NEW c \in CliCycles, CliOnce(c) \/ CliDies(c) PROVE FeedInv'
    <2>1. \A d \in Cycles : cycles'[d] = cycles[d] \/ cycles'[d].pc \in {"connect", "idle"}
      BY <1>5, ConstantRows DEF CliOnce, CliDies, TypeOK
    <2> QED
      BY <1>1, <1>5, <2>1 DEF CliOnce, CliDies, upstream, stored
  <1>6. ASSUME NEW c \in Cycles, CycleStep(c) PROVE FeedInv'
    <2>1. CASE Connect(c)
      <3>1. ASSUME NEW outcome \in {"retry", "needs_attention"}, Finish(c, outcome) PROVE FeedInv'
        BY <2>1, <3>1, FinishType, FeedUntouched DEF Connect, upstream, stored
      <3>2. CASE BeginPage(c, live, 1)
        <4>1. live \in Idents /\ UNCHANGED <<log, cp, waterline, emitted, rebind, boot>>
          BY <2>1 DEF Connect, upstream, stored, TypeOK
        <4> QED
          BY <3>2, <4>1, BeginPageKeepsFeed
      <3> QED
        BY <2>1, <3>1, <3>2 DEF Connect
    <2>2. CASE NextPage(c)
      <3>1. /\ cycles[c].ident \in Idents /\ cycles[c].page \in Nat
            /\ UNCHANGED <<log, cp, waterline, emitted, rebind, boot>>
        BY <2>2 DEF NextPage, upstream, stored, TypeOK, CycleRow
      <3>2. CASE Finish(c, "needs_attention")
        BY <3>1, <3>2, FinishType, FeedUntouched
      <3> QED
        BY <2>2, <3>1, <3>2, BeginPageKeepsFeed DEF NextPage
    <2>3. CASE Confirm(c)
      <3>1. UNCHANGED <<log, cp, waterline, emitted, rebind, boot>>
        BY <2>3 DEF Confirm, upstream, stored
      <3>2. ASSUME NEW outcome \in {"healthy", "needs_attention"}, Finish(c, outcome) PROVE FeedInv'
        BY <3>1, <3>2, FinishType, FeedUntouched
      <3>3. CASE cycles' = [cycles EXCEPT ![c] = [IdleCycle EXCEPT
                   !.pc = "next", !.ident = cycles[c].ident, !.page = cycles[c].page + 1,
                   !.asked = cycles[c].asked]]
        <4> DEFINE row == [IdleCycle EXCEPT
                   !.pc = "next", !.ident = cycles[c].ident, !.page = cycles[c].page + 1,
                   !.asked = cycles[c].asked]
        <4>1. row.pc = "next"
          <5>1. IdleCycle \in CycleRow
            BY ConstantRows
          <5> QED
            BY <5>1 DEF CycleRow
        <4> HIDE DEF row
        <4>2. \A d \in Cycles : cycles'[d] = cycles[d] \/ cycles'[d].pc = "next"
          BY <3>3, <4>1 DEF TypeOK, row
        <4> QED
          BY <1>1, <3>1, <4>2
      <3> QED
        BY <2>3, <3>2, <3>3 DEF Confirm
    <2> QED
      BY <1>6, <2>1, <2>2, <2>3, PageArrivesKeepsFeed, EmitEventKeepsFeed, CommitKeepsFeed DEF CycleStep
  <1>7. CASE Operator
    <2>1. CASE Enable \/ Disable
      BY <1>1, <2>1 DEF Enable, Disable, upstream, stored
    <2> QED
      BY <1>4, <1>7, <2>1, RequestsKeepFeed DEF Operator
  <1>8. CASE Start \/ Stop \/ Restart
    BY <1>1, <1>8 DEF Start, Stop, Restart, upstream, stored
  <1>9. CASE Exit
    <2>1. \A c \in Cycles : cycles'[c] = cycles[c] \/ cycles'[c].pc = "idle"
      BY <1>9, ConstantRows DEF Exit
    <2>2. rebind' = {} /\ UNCHANGED <<log, cp, waterline, emitted, boot>>
      BY <1>9 DEF Exit, upstream, stored
    <2>3. \A c \in Cycles : Reads(c)' => cycles'[c] = cycles[c] /\ Reads(c)
      BY <2>1 DEF Reads
    <2>4. \A c \in Cycles : cycles'[c].pc = "emit" => cycles'[c] = cycles[c]
      BY <2>1
    <2>5. CursorsExist'
      BY <2>2, <2>3, <2>4 DEF FeedInv, CursorsExist
    <2> QED
      BY <2>2, <2>3, <2>5 DEF FeedInv, RevisionsGrow, ReadIsEmitted, NothingSkipped, Matches
  <1> QED
    BY <1>2, <1>3, <1>4, <1>5, <1>6, <1>7, <1>8, <1>9 DEF Next

\* Everything between the waterline of the present binding and the checkpoint is
\* stored, whatever pollers, rebinds and crashes came between.
THEOREM NothingIsSkipped == Spec => []NothingSkipped
  <1>1. FeedInv => NothingSkipped
    BY DEF FeedInv
  <1>2. SlotInv => TypeOK
    BY DEF SlotInv
  <1> QED
    BY SlotInvHolds, InitFeedInv, NextKeepsFeedInv, <1>1, <1>2, PTL DEF Spec

------------------------------------------------------------------------------
(* The refinement.  Only a publication, an emitted event, a commit that     *)
(* takes effect, a rebind and a bootstrap are steps of the feed.            *)

\* An emitted event is one that upstream holds.
LEMMA EmitImplements ==
    ASSUME FeedInv, TypeOK, NEW c \in Cycles, EmitEvent(c)
    PROVE  [Feed!Next]_(Feed!vars)
  <1> DEFINE r == cycles[c]
  <1>1. r.pc = "emit" /\ r.done < r.to /\ UNCHANGED <<log, cp, waterline>>
    BY DEF EmitEvent, upstream
  <1>2. r.ident \in Idents /\ r.done + 1 \in 1 .. log[r.ident]
    <2>1. r.ident \in Idents /\ r.done \in Nat /\ r.to \in Nat /\ r.to <= log[r.ident] /\ log[r.ident] \in Nat
      BY <1>1 DEF TypeOK, CycleRow, FeedInv, CursorsExist
    <2> QED
      BY <1>1, <2>1
  <1>3. \/ emitted' = emitted \cup {<<r.ident, r.done + 1>>}
        \/ UNCHANGED emitted
    BY DEF EmitEvent
  <1> HIDE DEF r
  <1>4. CASE emitted' = emitted \cup {<<r.ident, r.done + 1>>}
    BY <1>1, <1>2, <1>4 DEF Feed!Next, Feed!Emit
  <1>5. CASE UNCHANGED emitted
    BY <1>1, <1>5 DEF Feed!vars
  <1> QED
    BY <1>3, <1>4, <1>5

\* A commit starts the feed from nothing or advances it, if it takes effect.
LEMMA CommitImplements ==
    ASSUME FeedInv, TypeOK, NEW c \in Cycles, Commit(c)
    PROVE  [Feed!Next]_(Feed!vars)
  <1> DEFINE r == cycles[c]
  <1>1. /\ r.pc = "emit" /\ r.done = r.to /\ UNCHANGED <<log, emitted>>
        /\ Written(c) \/ UNCHANGED <<cp, waterline>>
    BY DEF Commit, upstream
  <1>2. /\ r.ident \in Idents /\ r.to \in Nat /\ r.rev \in Nat
        /\ log[r.ident] \in Nat /\ r.to <= log[r.ident]
    BY <1>1 DEF TypeOK, CycleRow, FeedInv, CursorsExist
  <1>3. /\ r.rev = 0 => Feed!Owed(r.ident, 0, r.to) \subseteq emitted
        /\ Matches(r.rev, r.ident) =>
              cp.cursor <= r.to /\ Feed!Owed(r.ident, cp.cursor, r.to) \subseteq emitted
    BY <1>1 DEF FeedInv, ReadIsEmitted, Reads
  <1>4. CASE Written(c) /\ r.rev = 0 /\ cp = NoCheckpoint
    <2>1. cp' = [ident |-> r.ident, cursor |-> r.to, rev |-> 1] /\ waterline' = 0
      BY <1>4 DEF Written
    <2> HIDE DEF r
    <2>2. Feed!Start(r.ident, 0, r.to)
      BY <1>1, <1>3, <1>4, <2>1 DEF Feed!Start
    <2>3. r.to \in 0 .. log[r.ident] /\ 0 \in 0 .. r.to
      BY <1>2
    <2> QED
      BY <1>2, <2>2, <2>3 DEF Feed!Next
  <1>5. CASE Written(c) /\ r.rev # 0 /\ Matches(r.rev, r.ident)
    <2>1. cp' = [cp EXCEPT !.cursor = r.to, !.rev = @ + 1] /\ waterline' = waterline
      BY <1>5 DEF Written
    <2> HIDE DEF r
    <2>2. cp # NoCheckpoint /\ cp.ident = r.ident /\ cp.cursor \in Nat
      BY <1>5 DEF Matches, TypeOK, Checkpoint
    <2>3. r.to \in cp.cursor .. log[cp.ident] /\ r.to \in 0 .. log[cp.ident]
      BY <1>2, <1>3, <1>5, <2>2
    <2>4. Feed!Advance(r.to)
      BY <1>1, <1>3, <1>5, <2>1, <2>2, <2>3 DEF Feed!Advance
    <2> QED
      BY <1>2, <2>2, <2>3, <2>4 DEF Feed!Next
  <1>6. CASE UNCHANGED <<cp, waterline>>
    BY <1>1, <1>6 DEF Feed!vars
  <1> QED
    BY <1>1, <1>4, <1>5, <1>6 DEF Written

\* A rebind or a bootstrap begins a binding where its log ended.
LEMMA RequestsImplement ==
    ASSUME FeedInv, TypeOK,
           \/ \E b \in rebind : RebindCommit(b)
           \/ \E b \in boot : BootCommit(b)
    PROVE  [Feed!Next]_(Feed!vars)
  <1>1. UNCHANGED <<log, emitted>>
    BY DEF RebindCommit, BootCommit, upstream
  <1>2. ASSUME NEW b \in rebind, RebindCommit(b) PROVE [Feed!Next]_(Feed!vars)
    <2>1. b \in Checkpoint /\ b.ident \in Idents /\ b.cursor \in 0 .. log[b.ident]
      BY DEF TypeOK, Checkpoint, FeedInv, CursorsExist
    <2>2. CASE /\ cp # NoCheckpoint /\ cp.rev = b.rev
               /\ cp' = [b EXCEPT !.rev = @ + 1] /\ waterline' = b.cursor
      <3>1. cp' = [ident |-> b.ident, cursor |-> b.cursor, rev |-> cp.rev + 1]
        BY <2>1, <2>2 DEF Checkpoint
      <3>2. Feed!Rebind(b.ident, b.cursor)
        BY <1>1, <2>1, <2>2, <3>1 DEF Feed!Rebind
      <3> QED
        BY <2>1, <3>2 DEF Feed!Next
    <2>3. CASE UNCHANGED <<cp, waterline>>
      BY <1>1, <2>3 DEF Feed!vars
    <2> QED
      BY <1>2, <2>2, <2>3 DEF RebindCommit
  <1>3. ASSUME NEW b \in boot, BootCommit(b) PROVE [Feed!Next]_(Feed!vars)
    <2>1. b.ident \in Idents /\ b.cursor \in 0 .. log[b.ident] /\ b.cursor \in 0 .. b.cursor /\ b.cursor \in Nat
      BY DEF TypeOK, FeedInv, CursorsExist
    <2>2. CASE /\ cp = NoCheckpoint /\ waterline' = b.cursor
               /\ cp' = [ident |-> b.ident, cursor |-> b.cursor, rev |-> 1]
      <3>1. Feed!Owed(b.ident, b.cursor, b.cursor) \subseteq emitted
        BY <2>1, OwedNothing
      <3>2. Feed!Start(b.ident, b.cursor, b.cursor)
        BY <1>1, <2>2, <3>1 DEF Feed!Start
      <3> QED
        BY <2>1, <3>2 DEF Feed!Next
    <2>3. CASE UNCHANGED <<cp, waterline>>
      BY <1>1, <2>3 DEF Feed!vars
    <2> QED
      BY <1>3, <2>2, <2>3 DEF BootCommit
  <1> QED
    BY <1>2, <1>3

\* Every step is a step of the feed or leaves it alone.
LEMMA NextImplementsFeed == FeedInv /\ TypeOK /\ [Next]_vars => [Feed!Next]_(Feed!vars)
  <1> SUFFICES ASSUME FeedInv, TypeOK, [Next]_vars PROVE [Feed!Next]_(Feed!vars)
    OBVIOUS
  <1>1. CASE UNCHANGED <<log, cp, waterline, emitted>>
    BY <1>1 DEF Feed!vars
  <1>2. CASE UNCHANGED vars
    BY <1>1, <1>2 DEF vars
  <1>3. ASSUME NEW i \in Idents, Publish(i) PROVE [Feed!Next]_(Feed!vars)
    <2>1. Feed!Publish(i)
      BY <1>3 DEF Publish, stored, Feed!Publish
    <2> QED
      BY <2>1 DEF Feed!Next
  <1>4. ASSUME NEW i \in Idents, ChangeIdentity(i) PROVE [Feed!Next]_(Feed!vars)
    BY <1>1, <1>4 DEF ChangeIdentity, stored
  <1>5. ASSUME NEW c \in CliCycles, CliOnce(c) \/ CliDies(c) PROVE [Feed!Next]_(Feed!vars)
    BY <1>1, <1>5 DEF CliOnce, CliDies, upstream, stored
  <1>6. ASSUME NEW c \in Cycles, CycleStep(c) PROVE [Feed!Next]_(Feed!vars)
    <2>1. CASE Connect(c) \/ NextPage(c) \/ PageArrives(c) \/ Confirm(c)
      BY <1>1, <2>1 DEF Connect, NextPage, PageArrives, Confirm, upstream, stored
    <2> QED
      BY <1>6, <2>1, EmitImplements, CommitImplements DEF CycleStep
  <1>7. CASE Operator
    <2>1. CASE RunOnce \/ Enable \/ Disable \/ RebindBegin \/ BootBegin
      BY <1>1, <2>1 DEF RunOnce, Enable, Disable, RebindBegin, BootBegin, upstream, stored
    <2> QED
      BY <1>7, <2>1, RequestsImplement DEF Operator
  <1>8. CASE TimerFires \/ Start \/ Stop \/ Exit \/ Restart
    BY <1>1, <1>8 DEF TimerFires, Start, Stop, Exit, Restart, upstream, stored
  <1> QED
    BY <1>2, <1>3, <1>4, <1>5, <1>6, <1>7, <1>8 DEF Next

\* Pollers of several processes, rebinds and bootstraps together implement the
\* durable feed: none moves the cursor back, past an item that was not emitted, or
\* onto another identity.
THEOREM FeedIsDurable == Spec => ImplementsFeed
  <1>1. Init => Feed!Init
    BY SourceAssumption DEF Init, Feed!Init
  <1>2. SlotInv => TypeOK
    BY DEF SlotInv
  <1> QED
    BY SlotInvHolds, InitFeedInv, NextKeepsFeedInv, NextImplementsFeed, <1>1, <1>2, PTL
    DEF Spec, ImplementsFeed, Feed!Spec
=============================================================================
