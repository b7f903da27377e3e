---------------------- MODULE AttentionChannels_proofs ----------------------
(***************************************************************************)
(* Proofs about AttentionChannels, for every set of channels, endpoints    *)
(* and calls, however many of them are under way, and every limit.  The    *)
(* set of channels may be infinite: a call names finitely many.  First the *)
(* types, then what the rows of the watch and the calls that have read     *)
(* them know of each other, and the limit on channels.                     *)
(***************************************************************************)
EXTENDS AttentionChannels, FiniteSetTheorems, TLAPS

------------------------------------------------------------------------------
(* What holds between the rows and the calls that have read them.           *)

\* The limit counts a finite set.
WithinLimit == IsFiniteSet(Active) /\ ChannelLimitHolds

DeletedIsUnbound == \A c \in Channels : status[c] = "deleted" => bindings[c] = Unbound

\* The row of the watch does not exist, or it has been armed.
WatchIsArmed == IF watch.st = "none" THEN watch = NoWatch ELSE watch.epoch >= 1

\* What a call has read of the row of the watch is no newer than the row, and an epoch
\* that is still the row's has not lost its activity.
Fits(r) ==
    /\ r.op = "configure" /\ r.how # "insert" => watch.st # "none"
    /\ r.op = "observe" => r.bound # Unbound
    /\ r.op = "fire" => /\ r.epoch <= watch.epoch
                        /\ r.epoch = watch.epoch => watch.active

CallsFit == \A p \in Procs : Fits(calls[p])

\* The latest claim is of an earlier epoch, or it is the one of the row.
LatestFits ==
    /\ latest[2] <= watch.epoch
    /\ latest[2] = watch.epoch => watch.st = "none" \/ (watch.fired /\ latest[3] = watch.seq)
    /\ status[Watched] # "deleted" => latest[1] <= bindings[Watched].gen

ChannelInv ==
    /\ TypeOK /\ WithinLimit /\ DeletedIsUnbound
    /\ EvidenceIsCurrent /\ WatchIsArmed /\ CallsFit /\ LatestFits

------------------------------------------------------------------------------
(* Types.                                                                   *)

LEMMA ConstantRows ==
    /\ None \notin Channels /\ None \notin Endpoints
    /\ MaxGen \in Nat \ {0} /\ MaxEpoch \in Nat \ {0} /\ MaxSeq \in Nat \ {0}
    /\ MaxChannels \in Nat \ {0}
    /\ Unbound \in Binding /\ NoWatch \in Watch /\ Idle \in Call
  <1>1. None \notin Channels /\ None \notin Endpoints
    BY ChannelsAssumption
  <1>2. /\ MaxGen \in Nat \ {0} /\ MaxEpoch \in Nat \ {0} /\ MaxSeq \in Nat \ {0}
        /\ MaxChannels \in Nat \ {0}
    BY ChannelsAssumption
  <1>3. NoWatch \in Watch
    BY <1>2 DEF NoWatch, Watch, Modes
  <1> QED
    BY <1>1, <1>2, <1>3 DEF Binding, Call

LEMMA BindingFields ==
    ASSUME NEW b \in Binding
    PROVE  /\ b.ep \in Endpoints \cup {None} /\ b.gen \in 0..MaxGen /\ b.gen \in Nat
           /\ b # Unbound => b.ep \in Endpoints /\ b.gen \in 1..MaxGen
           /\ b = Unbound => b.ep = None /\ b.gen = 0
  BY ConstantRows DEF Binding, Unbound

LEMMA WatchFields ==
    ASSUME NEW w \in Watch
    PROVE  /\ w.st \in {"none", "on", "off"} /\ w.mode \in Modes
           /\ w.ep \in Endpoints \cup {None} /\ w.gen \in 0..MaxGen
           /\ w.epoch \in 0..MaxEpoch /\ w.seq \in 0..MaxSeq
           /\ w.gen \in Nat /\ w.epoch \in Nat /\ w.seq \in Nat
           /\ w.active \in BOOLEAN /\ w.fired \in BOOLEAN /\ w.due \in BOOLEAN
  <1>1. /\ w.st \in {"none", "on", "off"} /\ w.mode \in Modes
        /\ w.ep \in Endpoints \cup {None} /\ w.gen \in 0..MaxGen
        /\ w.epoch \in 0..MaxEpoch /\ w.seq \in 0..MaxSeq
        /\ w.active \in BOOLEAN /\ w.fired \in BOOLEAN /\ w.due \in BOOLEAN
    BY DEF Watch
  <1> QED
    BY <1>1, ConstantRows

\* The kinds of calls.
TakeoverCalls  == [op: {"takeover"}, ch: Channels, ep: Endpoints, gen: 0..MaxGen]
SessionCalls   == UNION {[op: {"session"}, ep: Endpoints, gens: [s -> 0..MaxGen]] : s \in Sessions}
ConfigureCalls == [op: {"configure"}, how: {"insert", "enable", "change"}, on: BOOLEAN,
                   mode: Modes, due: BOOLEAN, bound: Binding]
ObserveCalls   == [op: {"observe"}, own: BOOLEAN, baseline: BOOLEAN, bound: Binding]
FireCalls      == [op: {"fire"}, mode: Modes, ep: Endpoints, gen: 1..MaxGen,
                   epoch: 1..MaxEpoch, fired: BOOLEAN, seq: 0..MaxSeq]

LEMMA CallKinds ==
    Call = {Idle} \cup TakeoverCalls \cup SessionCalls \cup ConfigureCalls \cup ObserveCalls
                \cup FireCalls
  BY DEF Call, TakeoverCalls, SessionCalls, ConfigureCalls, ObserveCalls, FireCalls

\* What each kind of call has read.
LEMMA CallFields ==
    ASSUME NEW r \in Call
    PROVE  /\ r.op = "takeover" =>
                 r.ch \in Channels /\ r.ep \in Endpoints /\ r.gen \in 0..MaxGen
           /\ r.op = "session" =>
                 r.ep \in Endpoints /\ \E s \in Sessions : r.gens \in [s -> 0..MaxGen]
           /\ r.op = "configure" =>
                 /\ r.how \in {"insert", "enable", "change"} /\ r.on \in BOOLEAN
                 /\ r.mode \in Modes /\ r.due \in BOOLEAN /\ r.bound \in Binding
           /\ r.op = "observe" =>
                 r.own \in BOOLEAN /\ r.baseline \in BOOLEAN /\ r.bound \in Binding
           /\ r.op = "fire" =>
                 /\ r.mode \in Modes /\ r.ep \in Endpoints /\ r.gen \in 1..MaxGen
                 /\ r.epoch \in 1..MaxEpoch /\ r.fired \in BOOLEAN /\ r.seq \in 0..MaxSeq
  <1> DEFINE Goal ==
           /\ r.op = "takeover" =>
                 r.ch \in Channels /\ r.ep \in Endpoints /\ r.gen \in 0..MaxGen
           /\ r.op = "session" =>
                 r.ep \in Endpoints /\ \E s \in Sessions : r.gens \in [s -> 0..MaxGen]
           /\ r.op = "configure" =>
                 /\ r.how \in {"insert", "enable", "change"} /\ r.on \in BOOLEAN
                 /\ r.mode \in Modes /\ r.due \in BOOLEAN /\ r.bound \in Binding
           /\ r.op = "observe" =>
                 r.own \in BOOLEAN /\ r.baseline \in BOOLEAN /\ r.bound \in Binding
           /\ r.op = "fire" =>
                 /\ r.mode \in Modes /\ r.ep \in Endpoints /\ r.gen \in 1..MaxGen
                 /\ r.epoch \in 1..MaxEpoch /\ r.fired \in BOOLEAN /\ r.seq \in 0..MaxSeq
  <1>1. r \in {Idle} \cup TakeoverCalls \cup SessionCalls \cup ConfigureCalls \cup ObserveCalls
            \cup FireCalls
    BY CallKinds
  <1>2. r = Idle => Goal
    BY DEF Idle
  <1>3. r \in TakeoverCalls => Goal
    BY DEF TakeoverCalls
  <1>4. r \in SessionCalls => Goal
    <2>1. ASSUME NEW s \in Sessions,
                 r \in [op: {"session"}, ep: Endpoints, gens: [s -> 0..MaxGen]]
          PROVE  Goal
      BY <2>1
    <2> HIDE DEF Goal
    <2> QED
      BY <2>1 DEF SessionCalls
  <1>5. r \in ConfigureCalls => Goal
    BY DEF ConfigureCalls
  <1>6. r \in ObserveCalls => Goal
    BY DEF ObserveCalls
  <1>7. r \in FireCalls => Goal
    BY DEF FireCalls
  <1>8. Goal
    <2> HIDE DEF Goal
    <2> QED
      BY <1>1, <1>2, <1>3, <1>4, <1>5, <1>6, <1>7
  <1> QED
    BY <1>8

LEMMA TakeoverCall ==
    ASSUME NEW c \in Channels, NEW e \in Endpoints, NEW g \in 0..MaxGen
    PROVE  [op |-> "takeover", ch |-> c, ep |-> e, gen |-> g] \in Call
  BY CallKinds DEF TakeoverCalls

LEMMA SessionCall ==
    ASSUME NEW e \in Endpoints, NEW s \in Sessions, NEW g \in [s -> 0..MaxGen]
    PROVE  [op |-> "session", ep |-> e, gens |-> g] \in Call
  <1>1. [op |-> "session", ep |-> e, gens |-> g]
            \in [op: {"session"}, ep: Endpoints, gens: [s -> 0..MaxGen]]
    OBVIOUS
  <1> QED
    BY <1>1, CallKinds DEF SessionCalls

LEMMA ConfigureCall ==
    ASSUME NEW how \in {"insert", "enable", "change"}, NEW on \in BOOLEAN, NEW mode \in Modes,
           NEW due \in BOOLEAN, NEW b \in Binding
    PROVE  [op |-> "configure", how |-> how, on |-> on, mode |-> mode, due |-> due, bound |-> b]
              \in Call
  <1>1. [op |-> "configure", how |-> how, on |-> on, mode |-> mode, due |-> due, bound |-> b]
            \in [op: {"configure"}, how: {"insert", "enable", "change"}, on: BOOLEAN,
                mode: Modes, due: BOOLEAN, bound: Binding]
    OBVIOUS
  <1> QED
    BY <1>1, CallKinds DEF ConfigureCalls

LEMMA ObserveCall ==
    ASSUME NEW own \in BOOLEAN, NEW baseline \in BOOLEAN, NEW b \in Binding
    PROVE  [op |-> "observe", own |-> own, bound |-> b, baseline |-> baseline] \in Call
  <1>1. [op |-> "observe", own |-> own, bound |-> b, baseline |-> baseline]
            \in [op: {"observe"}, own: BOOLEAN, baseline: BOOLEAN, bound: Binding]
    OBVIOUS
  <1> QED
    BY <1>1, CallKinds DEF ObserveCalls

LEMMA FireCall ==
    ASSUME NEW mode \in Modes, NEW e \in Endpoints, NEW g \in 1..MaxGen,
           NEW n \in 1..MaxEpoch, NEW fired \in BOOLEAN, NEW s \in 0..MaxSeq
    PROVE  [op |-> "fire", mode |-> mode, ep |-> e, gen |-> g, epoch |-> n, fired |-> fired,
            seq |-> s] \in Call
  <1>1. [op |-> "fire", mode |-> mode, ep |-> e, gen |-> g, epoch |-> n, fired |-> fired,
         seq |-> s] \in [op: {"fire"}, mode: Modes, ep: Endpoints, gen: 1..MaxGen,
                         epoch: 1..MaxEpoch, fired: BOOLEAN, seq: 0..MaxSeq]
    OBVIOUS
  <1> QED
    BY <1>1, CallKinds DEF FireCalls

LEMMA InitChannelInv == Init => ChannelInv
  <1> SUFFICES ASSUME Init PROVE ChannelInv
    OBVIOUS
  <1>1. TypeOK
    BY ConstantRows DEF Init, TypeOK
  <1>2. WithinLimit
    <2>1. Active = {}
      BY DEF Active, Init
    <2> QED
      BY <2>1, FS_EmptySet, ConstantRows DEF WithinLimit, ChannelLimitHolds
  <1>3. DeletedIsUnbound /\ EvidenceIsCurrent /\ WatchIsArmed /\ CallsFit /\ LatestFits
    BY ChannelsAssumption DEF Init, DeletedIsUnbound, EvidenceIsCurrent, WatchIsArmed, CallsFit,
       Fits, LatestFits, NoWatch, Idle, Unbound
  <1> QED
    BY <1>1, <1>2, <1>3 DEF ChannelInv

------------------------------------------------------------------------------
(* The row of the watch.                                                    *)

LEMMA RearmedFields ==
    ASSUME NEW w \in Watch
    PROVE  /\ Rearmed(w).epoch = w.epoch + 1 /\ Rearmed(w).st = w.st
           /\ Rearmed(w).mode = w.mode /\ Rearmed(w).seq = w.seq
           /\ Rearmed(w).active = FALSE /\ Rearmed(w).fired = FALSE
           /\ w.epoch + 1 <= MaxEpoch => Rearmed(w) \in Watch
  <1>1. /\ Rearmed(w).epoch = w.epoch + 1 /\ Rearmed(w).st = w.st
        /\ Rearmed(w).mode = w.mode /\ Rearmed(w).seq = w.seq
        /\ Rearmed(w).active = FALSE /\ Rearmed(w).fired = FALSE
    BY DEF Rearmed, Watch
  <1>2. ASSUME w.epoch + 1 <= MaxEpoch PROVE Rearmed(w) \in Watch
    <2>1. w.epoch + 1 \in 0..MaxEpoch
      BY <1>2, WatchFields, ConstantRows
    <2>2. None \in Endpoints \cup {None} /\ 0 \in 0..MaxGen
      BY ConstantRows
    <2> QED
      BY <2>1, <2>2 DEF Rearmed, Watch
  <1> QED
    BY <1>1, <1>2

\* A row that is deleted, taken over, or configured for a binding.
LEMMA RowReplaced ==
    ASSUME NEW w \in Watch, NEW s \in 0..MaxSeq, NEW ep \in Endpoints \cup {None},
           NEW gen \in 0..MaxGen, NEW st \in {"none", "on", "off"}
    PROVE  /\ [w EXCEPT !.st = st] \in Watch
           /\ [w EXCEPT !.seq = s] \in Watch
           /\ [w EXCEPT !.ep = ep, !.gen = gen, !.seq = s] \in Watch
  BY DEF Watch

\* How the row changes in a step that creates no claim: it never goes back to an earlier
\* epoch, an epoch keeps its activity, and one that has created a claim keeps the sequence.
Moves(w, v) ==
    /\ v.epoch >= w.epoch /\ v.seq <= w.seq
    /\ w.st # "none" => v.st # "none"
    /\ IF v.st = "none" THEN v = NoWatch ELSE v.epoch >= 1
    /\ v.epoch = w.epoch =>
          /\ w.active => v.active
          /\ v = w \/ w.st # "none"
          /\ w.fired => v.fired /\ v.seq = w.seq

LEMMA MovesNot ==
    ASSUME WatchIsArmed, watch \in Watch
    PROVE  Moves(watch, watch)
  BY WatchFields DEF Moves, WatchIsArmed

\* A row that is armed again.
LEMMA MovesRearmed ==
    ASSUME NEW w \in Watch, NEW v \in Watch,
           v.epoch = w.epoch + 1, v.seq <= w.seq, v.st # "none"
    PROVE  Moves(w, v)
  BY WatchFields DEF Moves

\* Such a step keeps what the calls and the latest claim know, when the bindings of a
\* channel that is not deleted do not go back.
LEMMA MovesKeep ==
    ASSUME ChannelInv, watch' \in Watch, bindings' \in [Channels -> Binding],
           Moves(watch, watch'), UNCHANGED latest,
           \A p \in Procs : calls'[p] = Idle \/ calls'[p] = calls[p],
           status'[Watched] # "deleted" =>
               status[Watched] # "deleted" /\ bindings'[Watched].gen >= bindings[Watched].gen
    PROVE  WatchIsArmed' /\ CallsFit' /\ LatestFits'
  <1>1. /\ watch.epoch \in Nat /\ watch'.epoch \in Nat /\ watch.seq \in Nat /\ watch'.seq \in Nat
        /\ watch.fired \in BOOLEAN /\ watch'.fired \in BOOLEAN
    BY WatchFields DEF ChannelInv, TypeOK
  <1>2. WatchIsArmed'
    BY DEF Moves, WatchIsArmed
  <1>3. CallsFit'
    <2>1. ASSUME NEW p \in Procs PROVE Fits(calls[p])'
      <3>1. calls'[p] = Idle => Fits(calls[p])'
        BY DEF Fits, Idle
      <3>2. calls'[p] = calls[p] /\ Fits(calls[p]) => Fits(calls[p])'
        <4>1. calls[p] \in Call
          BY DEF ChannelInv, TypeOK
        <4>2. calls[p].op = "fire" => calls[p].epoch \in Nat
          BY <4>1, CallFields, ConstantRows
        <4> QED
          BY <1>1, <4>2 DEF Fits, Moves
      <3> QED
        BY <3>1, <3>2 DEF ChannelInv, CallsFit
    <2> QED
      BY <2>1 DEF CallsFit
  <1>4. LatestFits'
    <2>1. latest[1] \in Nat /\ latest[2] \in Nat /\ latest[3] \in Nat
      BY ConstantRows DEF ChannelInv, TypeOK
    <2>2. latest'[2] <= watch'.epoch
      BY <1>1, <2>1 DEF ChannelInv, LatestFits, Moves
    <2>3. ASSUME latest'[2] = watch'.epoch
          PROVE  watch'.st = "none" \/ (watch'.fired /\ latest'[3] = watch'.seq)
      <3>1. latest[2] = watch.epoch /\ watch'.epoch = watch.epoch
        BY <1>1, <2>1, <2>3 DEF ChannelInv, LatestFits, Moves
      <3> QED
        BY <1>1, <3>1 DEF ChannelInv, LatestFits, Moves
    <2>4. status'[Watched] # "deleted" => latest'[1] <= bindings'[Watched].gen
      <3>1. ASSUME status'[Watched] # "deleted" PROVE bindings'[Watched].gen >= latest[1]
        <4>1. bindings[Watched].gen \in Nat /\ bindings'[Watched].gen \in Nat
          BY ChannelsAssumption, BindingFields DEF ChannelInv, TypeOK
        <4> QED
          BY <2>1, <3>1, <4>1 DEF ChannelInv, LatestFits
      <3> QED
        BY <3>1
    <2> QED
      BY <2>2, <2>3, <2>4 DEF LatestFits
  <1> QED
    BY <1>2, <1>3, <1>4

\* A takeover of some channels, each at the next generation: the rows keep their types,
\* the count of the watch starts again if it is among them, and what was believed ends.
LEMMA TakeOverEffect ==
    ASSUME ChannelInv, NEW e \in Endpoints, NEW s \in SUBSET Channels,
           NEW gens \in [s -> 0..MaxGen], TakeOver(e, gens)
    PROVE  /\ bindings' \in [Channels -> Binding] /\ presence' \in Binding /\ watch' \in Watch
           /\ \A c \in s : bindings'[c] = [ep |-> e, gen |-> gens[c] + 1]
           /\ \A c \in Channels \ s : bindings'[c] = bindings[c]
           /\ Moves(watch, watch')
           /\ Watched \in s => presence' = Unbound /\ ~watch'.active
           /\ Watched \notin s => presence' = presence /\ watch' = watch
           /\ watch'.st = watch.st
  <1>t. /\ watch \in Watch /\ presence \in Binding /\ bindings \in [Channels -> Binding]
        /\ WatchIsArmed
    BY DEF ChannelInv, TypeOK
  <1>1. ASSUME NEW c \in Channels
        PROVE  /\ c \in s => bindings'[c] = [ep |-> e, gen |-> gens[c] + 1]
               /\ c \notin s => bindings'[c] = bindings[c]
               /\ bindings'[c] \in Binding
    <2>1. /\ c \in s => bindings'[c] = [ep |-> e, gen |-> gens[c] + 1]
          /\ c \notin s => bindings'[c] = bindings[c]
      BY DEF TakeOver
    <2>2. ASSUME c \in s PROVE [ep |-> e, gen |-> gens[c] + 1] \in Binding
      <3>1. gens[c] + 1 \in 1..MaxGen
        BY <2>2, ConstantRows DEF TakeOver
      <3> QED
        BY <3>1 DEF Binding
    <2> QED
      BY <1>t, <2>1, <2>2
  <1>2. bindings' \in [Channels -> Binding]
    BY <1>1 DEF TakeOver
  <1>3. presence' \in Binding
    BY <1>t, ConstantRows DEF TakeOver
  <1>4. CASE Watched \in s /\ watch.st # "none"
    <2>1. watch' = [Rearmed(watch) EXCEPT !.seq = 0] /\ watch'.epoch <= MaxEpoch
          /\ presence' = Unbound
      BY <1>4 DEF TakeOver
    <2>2. /\ watch'.epoch = watch.epoch + 1 /\ watch'.st = watch.st /\ watch'.seq = 0
          /\ watch'.active = FALSE
      <3>1. /\ Rearmed(watch).epoch = watch.epoch + 1 /\ Rearmed(watch).st = watch.st
            /\ Rearmed(watch).active = FALSE
        BY <1>t, RearmedFields
      <3> QED
        BY <2>1, <3>1 DEF Rearmed
    <2>3. watch' \in Watch
      <3>1. 0 \in 0..MaxSeq
        BY ConstantRows
      <3>2. Rearmed(watch) \in Watch
        BY <1>t, <2>1, <2>2, RearmedFields
      <3> QED
        BY <2>1, <3>1, <3>2 DEF Watch
    <2>4. Moves(watch, watch')
      BY <1>t, <1>4, <2>2, <2>3, MovesRearmed, WatchFields
    <2> QED
      BY <1>1, <1>2, <1>3, <1>4, <2>1, <2>2, <2>3, <2>4
  <1>5. CASE ~(Watched \in s /\ watch.st # "none")
    <2>1. watch' = watch /\ presence' = IF Watched \in s THEN Unbound ELSE presence
      BY <1>5 DEF TakeOver
    <2>2. Watched \in s => ~watch.active
      BY <1>t, <1>5 DEF WatchIsArmed, NoWatch
    <2> QED
      BY <1>1, <1>2, <1>3, <1>t, <2>1, <2>2, MovesNot
  <1> QED
    BY <1>4, <1>5

\* What configureActivityWatch writes.
LEMMA ConfiguredEffect ==
    ASSUME ChannelInv, NEW r \in Call, r.op = "configure", Fits(r),
           Configured(r).epoch <= MaxEpoch
    PROVE  /\ Configured(r) \in Watch /\ Moves(watch, Configured(r))
           /\ Configured(r).active =>
                 watch.active /\ Configured(r).ep = watch.ep /\ Configured(r).gen = watch.gen
  <1>t. watch \in Watch /\ WatchIsArmed
    BY DEF ChannelInv, TypeOK
  <1>r. /\ r.how \in {"insert", "enable", "change"} /\ r.on \in BOOLEAN
        /\ r.mode \in Modes /\ r.due \in BOOLEAN /\ r.bound \in Binding
    BY CallFields
  <1> DEFINE bare  == [watch EXCEPT !.st = IF r.on THEN "on" ELSE "off", !.mode = r.mode]
             armed == [Rearmed(bare) EXCEPT !.ep = r.bound.ep, !.gen = r.bound.gen, !.seq = 0]
             kept  == [bare EXCEPT !.due = r.due]
  <1>1. /\ bare \in Watch /\ bare.epoch = watch.epoch /\ bare.st # "none"
        /\ bare.active = watch.active /\ bare.fired = watch.fired /\ bare.seq = watch.seq
        /\ bare.ep = watch.ep /\ bare.gen = watch.gen
    BY <1>t, <1>r DEF Watch
  <1>2. /\ Configured(r) = watch \/ Configured(r) = armed \/ Configured(r) = kept
        /\ Configured(r) = watch \/ Configured(r) = armed \/ r.how = "change"
    BY <1>r DEF Configured
  <1>3. CASE Configured(r) = watch
    BY <1>3, <1>t, MovesNot
  <1>4. CASE Configured(r) = armed
    <2> HIDE DEF bare
    <2>1. /\ Rearmed(bare).epoch = bare.epoch + 1 /\ Rearmed(bare).st = bare.st
          /\ Rearmed(bare).active = FALSE
          /\ bare.epoch + 1 <= MaxEpoch => armed \in Watch
      <3>1. /\ r.bound.ep \in Endpoints \cup {None} /\ r.bound.gen \in 0..MaxGen /\ 0 \in 0..MaxSeq
        BY <1>r, BindingFields, ConstantRows
      <3>2. Rearmed(bare) \in Watch => armed \in Watch
        BY <3>1, RowReplaced
      <3> HIDE DEF armed
      <3> QED
        BY <1>1, <3>2, RearmedFields
    <2>2. /\ armed.epoch = Rearmed(bare).epoch /\ armed.st = Rearmed(bare).st
          /\ armed.active = Rearmed(bare).active /\ armed.seq = 0
      BY DEF Rearmed
    <2> HIDE DEF armed
    <2>3. armed \in Watch /\ armed.epoch = watch.epoch + 1 /\ armed.st # "none" /\ ~armed.active
      BY <1>1, <1>4, <2>1, <2>2
    <2>4. Moves(watch, armed)
      BY <1>t, <2>2, <2>3, MovesRearmed, WatchFields
    <2> QED
      BY <1>4, <2>3, <2>4
  <1>5. CASE Configured(r) = kept /\ r.how = "change"
    <2>1. watch.st # "none" /\ watch.epoch >= 1
      BY <1>5, <1>t DEF Fits, WatchIsArmed
    <2>2. /\ kept \in Watch /\ kept.epoch = watch.epoch /\ kept.st # "none"
          /\ kept.active = watch.active /\ kept.fired = watch.fired /\ kept.seq = watch.seq
          /\ kept.ep = watch.ep /\ kept.gen = watch.gen
      BY <1>1, <1>r DEF Watch
    <2> HIDE DEF kept
    <2>3. Moves(watch, kept)
      BY <1>t, <2>1, <2>2, WatchFields DEF Moves
    <2> QED
      BY <1>5, <2>2, <2>3
  <1> QED
    BY <1>2, <1>3, <1>4, <1>5

\* What the observation of an activity writes for the binding it was made under.
LEMMA ObservedEffect ==
    ASSUME ChannelInv, NEW r \in Call, r.op = "observe", Fits(r), watch.st = "on",
           NEW w \in Observed(r), w.epoch <= MaxEpoch
    PROVE  /\ w \in Watch /\ Moves(watch, w) /\ w.st = "on"
           /\ \/ w.ep = r.bound.ep /\ w.gen = r.bound.gen
              \/ w.active = watch.active /\ w.ep = watch.ep /\ w.gen = watch.gen
  <1>t. watch \in Watch /\ WatchIsArmed /\ watch.epoch >= 1
    BY DEF ChannelInv, TypeOK, WatchIsArmed
  <1>r. r.bound \in Binding /\ r.bound # Unbound /\ r.bound.ep \in Endpoints
        /\ r.bound.gen \in 0..MaxGen
    BY CallFields, BindingFields DEF Fits
  <1>1. CASE w = Baseline(watch, r.bound)
    <2> DEFINE n == IF watch.fired THEN watch.epoch + 1 ELSE watch.epoch
    <2>1. w = [watch EXCEPT !.ep = r.bound.ep, !.gen = r.bound.gen, !.active = TRUE,
                            !.fired = FALSE, !.seq = 0, !.due = FALSE, !.epoch = n]
      BY <1>1, <1>t DEF Baseline, Watch
    <2>2. n \in Nat /\ n >= watch.epoch /\ (watch.fired => n = watch.epoch + 1)
      BY <1>t, WatchFields
    <2> HIDE DEF n
    <2>3. /\ w.epoch = n /\ w.st = watch.st /\ w.seq = 0 /\ w.active /\ ~w.fired
          /\ w.ep = r.bound.ep /\ w.gen = r.bound.gen
      BY <2>1, <1>t DEF Watch
    <2>4. n \in 0..MaxEpoch /\ 0 \in 0..MaxSeq
      BY <2>2, <2>3, ConstantRows
    <2>5. w \in Watch
      BY <2>1, <2>4, <1>t, <1>r DEF Watch
    <2>6. Moves(watch, w)
      BY <2>2, <2>3, <1>t, WatchFields DEF Moves
    <2> QED
      BY <2>3, <2>5, <2>6
  <1>2. CASE w = watch
    BY <1>2, <1>t, MovesNot
  <1>3. CASE w = [watch EXCEPT !.active = TRUE] /\ IsBoundTo(watch, r.bound)
    <2>1. /\ w \in Watch /\ w.epoch = watch.epoch /\ w.st = watch.st /\ w.seq = watch.seq
          /\ w.active /\ w.fired = watch.fired /\ w.ep = watch.ep /\ w.gen = watch.gen
      BY <1>3, <1>t DEF Watch
    <2>2. Moves(watch, w)
      BY <2>1, <1>t, WatchFields DEF Moves
    <2> QED
      BY <1>3, <2>1, <2>2 DEF IsBoundTo
  <1>4. ASSUME NEW due \in BOOLEAN, w = [watch EXCEPT !.due = due]
        PROVE  /\ w \in Watch /\ Moves(watch, w) /\ w.st = "on"
               /\ w.active = watch.active /\ w.ep = watch.ep /\ w.gen = watch.gen
    <2>1. /\ w \in Watch /\ w.epoch = watch.epoch /\ w.st = watch.st /\ w.seq = watch.seq
          /\ w.active = watch.active /\ w.fired = watch.fired
          /\ w.ep = watch.ep /\ w.gen = watch.gen
      BY <1>4, <1>t DEF Watch
    <2>2. Moves(watch, w)
      BY <2>1, <1>t, WatchFields DEF Moves
    <2> QED
      BY <2>1, <2>2
  <1>5. \/ w = Baseline(watch, r.bound) \/ w = watch
        \/ w = [watch EXCEPT !.active = TRUE] /\ IsBoundTo(watch, r.bound)
        \/ \E due \in BOOLEAN : w = [watch EXCEPT !.due = due]
    <2>1. [watch EXCEPT !.due = @ \/ (watch.mode = "repeat" /\ watch.fired)]
            = [watch EXCEPT !.due = watch.due \/ (watch.mode = "repeat" /\ watch.fired)]
      BY <1>t DEF Watch
    <2>2. (watch.due \/ (watch.mode = "repeat" /\ watch.fired)) \in BOOLEAN
      OBVIOUS
    <2> QED
      BY <2>1, <2>2, Zenon DEF Observed
  <1> QED
    BY <1>1, <1>2, <1>3, <1>4, <1>5

\* A write that registers the channels it names stays within the limit.
LEMMA RegisterKeeps ==
    ASSUME ChannelInv, NEW chans \in SUBSET Channels, IsFiniteSet(chans), MayRegister(chans),
           Register(chans)
    PROVE  /\ status' \in [Channels -> {"absent", "active", "deleted"}]
           /\ WithinLimit'
           /\ \A c \in Channels : c \in chans => status'[c] = "active" /\ status[c] # "deleted"
           /\ \A c \in Channels : c \notin chans => status'[c] = status[c]
  <1> DEFINE new == {c \in chans : status[c] = "absent"}
  <1>1. /\ status' \in [Channels -> {"absent", "active", "deleted"}]
        /\ \A c \in Channels : c \in chans => status'[c] = "active" /\ status[c] # "deleted"
        /\ \A c \in Channels : c \notin chans => status'[c] = status[c]
    BY DEF Register, MayRegister, ChannelInv, TypeOK
  <1>2. Active' = Active \cup new /\ Active \cap new = {}
    BY <1>1 DEF Active, MayRegister, ChannelInv, TypeOK
  <1>3. IsFiniteSet(Active) /\ IsFiniteSet(new) /\ Cardinality(Active) <= MaxChannels
    BY FS_Subset DEF ChannelInv, WithinLimit, ChannelLimitHolds
  <1>4. IsFiniteSet(Active \cup new)
        /\ Cardinality(Active \cup new) = Cardinality(Active) + Cardinality(new)
    <2>1. Cardinality(Active \cap new) = 0
      BY <1>2, FS_EmptySet
    <2>2. Cardinality(Active) \in Nat /\ Cardinality(new) \in Nat
      BY <1>3, FS_CardinalityType
    <2> HIDE DEF new
    <2>3. /\ IsFiniteSet(Active \cup new)
          /\ Cardinality(Active \cup new)
                = Cardinality(Active) + Cardinality(new) - Cardinality(Active \cap new)
      BY <1>3, FS_Union
    <2> QED
      BY <2>1, <2>2, <2>3
  <1>5. Cardinality(Active) + Cardinality(new) <= MaxChannels
    <2>1. CASE new = {}
      <3>1. Cardinality(new) = 0
        BY <2>1, FS_EmptySet
      <3> QED
        BY <1>3, <3>1, FS_CardinalityType
    <2>2. CASE new # {}
      BY <2>2 DEF MayRegister
    <2> QED
      BY <2>1, <2>2
  <1> QED
    BY <1>1, <1>2, <1>4, <1>5 DEF WithinLimit, ChannelLimitHolds

\* Deleting one, or none, does so as well.
LEMMA ActiveShrinks ==
    ASSUME WithinLimit, TypeOK, \A c \in Channels : status'[c] = "active" => status[c] = "active"
    PROVE  WithinLimit'
  <1>1. Active' \subseteq Active
    BY DEF Active
  <1>2. IsFiniteSet(Active') /\ Cardinality(Active') <= Cardinality(Active)
    BY <1>1, FS_Subset DEF WithinLimit
  <1>3. Cardinality(Active') \in Nat /\ Cardinality(Active) \in Nat
    BY <1>2, FS_CardinalityType DEF WithinLimit
  <1> QED
    BY <1>2, <1>3, ConstantRows DEF WithinLimit, ChannelLimitHolds

------------------------------------------------------------------------------
(* The steps.                                                               *)

\* What BindingsAdvance and EveryFireIsAClaim say of one step.
Advances ==
    \A c \in Channels :
        /\ status[c] = "deleted" => status'[c] = "deleted" /\ bindings'[c] = Unbound
        /\ bindings'[c] # bindings[c] =>
              \/ bindings'[c].gen = bindings[c].gen + 1
              \/ status'[c] = "deleted" /\ bindings'[c] = Unbound

Claims ==
    /\ watch'.seq > watch.seq => Later(latest', latest)
    /\ latest' # latest => IsBoundTo(watch, bindings[Watched]) /\ Watched \in Active

GoodStep == ChannelInv' /\ Advances /\ Claims

LEMMA CallEnds ==
    ASSUME TypeOK, NEW p \in Procs, Return(p)
    PROVE  /\ calls' \in [Procs -> Call]
           /\ \A q \in Procs : calls'[q] = Idle \/ calls'[q] = calls[q]
  BY ConstantRows DEF Return, TypeOK

\* Nothing is written: the call ends, or it never was.
LEMMA NothingWritten ==
    ASSUME ChannelInv, UNCHANGED <<status, bindings, presence, watch, latest>>,
           calls' \in [Procs -> Call],
           \A q \in Procs : calls'[q] = Idle \/ calls'[q] = calls[q]
    PROVE  GoodStep
  <1>1. TypeOK'
    BY DEF ChannelInv, TypeOK
  <1>2. WithinLimit' /\ DeletedIsUnbound' /\ EvidenceIsCurrent' /\ WatchIsArmed' /\ LatestFits'
    BY DEF ChannelInv, WithinLimit, ChannelLimitHolds, Active, DeletedIsUnbound,
       EvidenceIsCurrent, IsBoundTo, WatchIsArmed, LatestFits
  <1>3. CallsFit'
    BY DEF ChannelInv, CallsFit, Fits, Idle
  <1>4. Advances
    BY DEF Advances, ChannelInv, DeletedIsUnbound
  <1>5. Claims
    BY WatchFields DEF Claims, ChannelInv, TypeOK
  <1> QED
    BY <1>1, <1>2, <1>3, <1>4, <1>5 DEF GoodStep, ChannelInv

\* A call begins with what it reads.
LEMMA BeginKeeps ==
    ASSUME ChannelInv, NEW p \in Procs, NEW call \in Call, Fits(call), Begin(p, call),
           UNCHANGED <<status, bindings, presence, watch, latest>>
    PROVE  GoodStep
  <1>1. /\ calls' \in [Procs -> Call]
        /\ calls'[p] = call /\ \A q \in Procs \ {p} : calls'[q] = calls[q]
    BY DEF Begin, ChannelInv, TypeOK
  <1>2. TypeOK'
    BY <1>1 DEF ChannelInv, TypeOK
  <1>3. WithinLimit' /\ DeletedIsUnbound' /\ EvidenceIsCurrent' /\ WatchIsArmed' /\ LatestFits'
    BY DEF ChannelInv, WithinLimit, ChannelLimitHolds, Active, DeletedIsUnbound,
       EvidenceIsCurrent, IsBoundTo, WatchIsArmed, LatestFits
  <1>4. CallsFit'
    BY <1>1 DEF ChannelInv, CallsFit, Fits
  <1>5. Advances
    BY DEF Advances, ChannelInv, DeletedIsUnbound
  <1>6. Claims
    BY WatchFields DEF Claims, ChannelInv, TypeOK
  <1> QED
    BY <1>2, <1>3, <1>4, <1>5, <1>6 DEF GoodStep, ChannelInv

\* The transaction of a takeover or of a registration, at the generations it had read.
LEMMA BindingCommits ==
    ASSUME ChannelInv, NEW p \in Procs, NEW e \in Endpoints, NEW s \in SUBSET Channels,
           IsFiniteSet(s), NEW gens \in [s -> 0..MaxGen],
           TakeOver(e, gens), \A c \in s : bindings[c].gen = gens[c],
           MayRegister(s), Register(s), Return(p), UNCHANGED latest
    PROVE  GoodStep
  <1>1. /\ bindings' \in [Channels -> Binding] /\ presence' \in Binding /\ watch' \in Watch
        /\ \A c \in s : bindings'[c] = [ep |-> e, gen |-> gens[c] + 1]
        /\ \A c \in Channels \ s : bindings'[c] = bindings[c]
        /\ Moves(watch, watch')
        /\ Watched \in s => presence' = Unbound /\ ~watch'.active
        /\ Watched \notin s => presence' = presence /\ watch' = watch
        /\ watch'.st = watch.st
    BY TakeOverEffect
  <1>2. /\ status' \in [Channels -> {"absent", "active", "deleted"}]
        /\ WithinLimit'
        /\ \A c \in Channels : c \in s => status'[c] = "active" /\ status[c] # "deleted"
        /\ \A c \in Channels : c \notin s => status'[c] = status[c]
    BY RegisterKeeps
  <1>3. ASSUME NEW c \in s PROVE bindings'[c].gen = bindings[c].gen + 1
    <2>1. bindings'[c] = [ep |-> e, gen |-> gens[c] + 1]
      BY <1>1
    <2>2. bindings'[c].gen = gens[c] + 1
      BY <2>1
    <2> QED
      BY <2>2
  <1>4. /\ calls' \in [Procs -> Call]
        /\ \A q \in Procs : calls'[q] = Idle \/ calls'[q] = calls[q]
    BY CallEnds DEF ChannelInv
  <1>5. TypeOK'
    BY <1>1, <1>2, <1>4 DEF ChannelInv, TypeOK
  <1>6. DeletedIsUnbound'
    BY <1>1, <1>2 DEF ChannelInv, DeletedIsUnbound
  <1>7. EvidenceIsCurrent'
    <2>1. Watched \in Channels
      BY ChannelsAssumption
    <2>2. CASE Watched \in s
      BY <1>1, <1>2, <2>1, <2>2 DEF EvidenceIsCurrent
    <2>3. CASE Watched \notin s
      BY <1>1, <1>2, <2>1, <2>3 DEF EvidenceIsCurrent, IsBoundTo, ChannelInv
    <2> QED
      BY <2>2, <2>3
  <1>8. WatchIsArmed' /\ CallsFit' /\ LatestFits'
    <2>1. Watched \in Channels /\ bindings[Watched].gen \in Nat
      BY ChannelsAssumption, BindingFields DEF ChannelInv, TypeOK
    <2>2. status'[Watched] # "deleted" =>
             status[Watched] # "deleted" /\ bindings'[Watched].gen >= bindings[Watched].gen
      BY <1>1, <1>2, <1>3, <2>1
    <2> QED
      BY <1>1, <1>4, <2>2, MovesKeep
  <1>9. Advances
    BY <1>1, <1>2, <1>3 DEF Advances, ChannelInv, DeletedIsUnbound
  <1>10. Claims
    BY <1>1, WatchFields DEF Claims, Moves, ChannelInv, TypeOK
  <1> QED
    BY <1>2, <1>5, <1>6, <1>7, <1>8, <1>9, <1>10 DEF GoodStep, ChannelInv

\* A step that writes the row of the watch and no binding, and no claim.
LEMMA WatchWritten ==
    ASSUME ChannelInv, TypeOK', UNCHANGED <<bindings, presence, latest>>, WithinLimit',
           \A q \in Procs : calls'[q] = Idle \/ calls'[q] = calls[q],
           \A c \in Channels : status'[c] = "deleted" <=> status[c] = "deleted",
           Moves(watch, watch'),
           watch'.active => IsBoundTo(watch', bindings[Watched]),
           status[Watched] = "deleted" => watch'.st # "on"
    PROVE  GoodStep
  <1>1. Watched \in Channels /\ bindings[Watched].gen \in Nat
    BY ChannelsAssumption, BindingFields DEF ChannelInv, TypeOK
  <1>2. WatchIsArmed' /\ CallsFit' /\ LatestFits'
    BY <1>1, MovesKeep DEF TypeOK
  <1>3. DeletedIsUnbound' /\ EvidenceIsCurrent'
    BY <1>1 DEF ChannelInv, DeletedIsUnbound, EvidenceIsCurrent, IsBoundTo
  <1>4. Advances
    BY DEF Advances, ChannelInv, DeletedIsUnbound
  <1>5. Claims
    BY WatchFields DEF Claims, Moves, ChannelInv, TypeOK
  <1> QED
    BY <1>2, <1>3, <1>4, <1>5 DEF GoodStep, ChannelInv

LEMMA DeleteKeeps ==
    ASSUME ChannelInv, NEW c \in Channels, NEW force \in BOOLEAN, DeleteChannel(c, force)
    PROVE  GoodStep
  <1>t. /\ watch \in Watch /\ presence \in Binding /\ WatchIsArmed /\ Watched \in Channels
        /\ bindings \in [Channels -> Binding]
        /\ status \in [Channels -> {"absent", "active", "deleted"}]
    BY ChannelsAssumption DEF ChannelInv, TypeOK
  <1>1. /\ status' = [status EXCEPT ![c] = "deleted"]
        /\ bindings' = [bindings EXCEPT ![c] = Unbound]
        /\ presence' = IF c = Watched THEN Unbound ELSE presence
        /\ UNCHANGED <<latest, calls>>
    BY DEF DeleteChannel
  <1>2. /\ watch' \in Watch /\ Moves(watch, watch')
        /\ c # Watched => watch' = watch
        /\ c = Watched => ~watch'.active /\ watch'.st # "on"
    <2>1. CASE c = Watched /\ watch.st # "none"
      <3>1. watch' = [Rearmed(watch) EXCEPT !.st = "off"] /\ watch'.epoch <= MaxEpoch
        BY <2>1 DEF DeleteChannel
      <3>2. /\ Rearmed(watch).epoch = watch.epoch + 1 /\ Rearmed(watch).seq = watch.seq
            /\ Rearmed(watch).active = FALSE
            /\ watch.epoch + 1 <= MaxEpoch => Rearmed(watch) \in Watch
        BY <1>t, RearmedFields
      <3>3. /\ watch'.epoch = Rearmed(watch).epoch /\ watch'.seq = Rearmed(watch).seq
            /\ watch'.active = Rearmed(watch).active /\ watch'.st = "off"
        BY <3>1 DEF Rearmed
      <3>4. watch' \in Watch
        <4>1. Rearmed(watch) \in Watch
          BY <3>1, <3>2, <3>3
        <4> QED
          BY <3>1, <4>1 DEF Watch
      <3>5. watch'.epoch = watch.epoch + 1 /\ watch'.seq = watch.seq /\ watch'.st # "none"
        BY <3>2, <3>3
      <3>6. Moves(watch, watch')
        <4>1. watch'.seq <= watch.seq
          BY <1>t, <3>5, WatchFields
        <4> QED
          BY <1>t, <3>4, <3>5, <4>1, MovesRearmed
      <3> QED
        BY <2>1, <3>2, <3>3, <3>4, <3>6
    <2>2. CASE ~(c = Watched /\ watch.st # "none")
      <3>1. watch' = watch
        BY <2>2 DEF DeleteChannel
      <3> QED
        BY <2>2, <3>1, <1>t, MovesNot DEF WatchIsArmed, NoWatch
    <2> QED
      BY <2>1, <2>2
  <1>3. TypeOK'
    BY <1>1, <1>2, <1>t, ConstantRows DEF ChannelInv, TypeOK
  <1>4. WithinLimit'
    BY <1>1, <1>t, ActiveShrinks DEF ChannelInv
  <1>5. DeletedIsUnbound'
    BY <1>1, <1>t DEF ChannelInv, DeletedIsUnbound
  <1>6. EvidenceIsCurrent'
    BY <1>1, <1>2, <1>t DEF ChannelInv, EvidenceIsCurrent, IsBoundTo
  <1>7. WatchIsArmed' /\ CallsFit' /\ LatestFits'
    <2>1. bindings[Watched].gen \in Nat
      BY <1>t, BindingFields
    <2>2. status'[Watched] # "deleted" =>
             status[Watched] # "deleted" /\ bindings'[Watched].gen >= bindings[Watched].gen
      BY <1>1, <1>t, <2>1
    <2> QED
      BY <1>1, <1>2, <1>3, <2>2, MovesKeep DEF TypeOK
  <1>8. Advances
    <2>1. ASSUME NEW d \in Channels
          PROVE  /\ status[d] = "deleted" => status'[d] = "deleted" /\ bindings'[d] = Unbound
                 /\ bindings'[d] # bindings[d] => status'[d] = "deleted" /\ bindings'[d] = Unbound
      BY <1>1, <1>t DEF ChannelInv, DeletedIsUnbound
    <2> QED
      BY <2>1 DEF Advances
  <1>9. Claims
    BY <1>1, <1>2, <1>t, WatchFields DEF Claims, Moves
  <1> QED
    BY <1>3, <1>4, <1>5, <1>6, <1>7, <1>8, <1>9 DEF GoodStep, ChannelInv

\* A firing creates the claim of the row it has read, which is the row still.
LEMMA FireKeeps ==
    ASSUME ChannelInv, NEW p \in Procs, FireCommit(p)
    PROVE  GoodStep
  <1> DEFINE row == calls[p]
             n   == SequenceOf(row)
  <1>t. /\ watch \in Watch /\ WatchIsArmed /\ Watched \in Channels
        /\ latest[1] \in Nat /\ latest[2] \in Nat /\ latest[3] \in Nat
    BY ChannelsAssumption, ConstantRows DEF ChannelInv, TypeOK
  <1>r. /\ row \in Call /\ row.op = "fire" /\ Fits(row)
        /\ row.mode \in Modes /\ row.gen \in 1..MaxGen
        /\ row.epoch \in 1..MaxEpoch /\ row.fired \in BOOLEAN /\ row.seq \in 0..MaxSeq
    BY CallFields DEF ChannelInv, TypeOK, CallsFit, FireCommit
  <1>c. /\ calls' \in [Procs -> Call]
        /\ \A q \in Procs : calls'[q] = Idle \/ calls'[q] = calls[q]
    BY CallEnds DEF ChannelInv, FireCommit
  <1>s. UNCHANGED <<status, bindings, presence>>
    BY DEF FireCommit
  <1>1. CASE ~StillDue(row)
    BY <1>1, <1>c, NothingWritten DEF FireCommit
  <1>2. CASE StillDue(row)
    <2>1. /\ latest' = <<row.gen, row.epoch, n>>
          /\ watch' = [watch EXCEPT !.fired = TRUE, !.seq = n, !.due = row.mode = "repeat"]
          /\ n <= MaxSeq
      BY <1>2 DEF FireCommit, ClaimOf
    <2>2. n = IF watch.fired THEN watch.seq + 1 ELSE 1
      BY <1>2 DEF SequenceOf, StillDue
    <2>3. n \in Nat /\ n >= 1 /\ n \in 0..MaxSeq
      BY <2>1, <2>2, <1>t, WatchFields, ConstantRows
    <2> HIDE DEF n
    <2>4. /\ row.epoch = watch.epoch /\ row.gen = watch.gen /\ watch.active
          /\ watch.st = "on" /\ status[Watched] = "active"
      BY <1>2, <1>r DEF StillDue, Fits
    <2>5. IsBoundTo(watch, bindings[Watched]) /\ bindings[Watched].gen = watch.gen
      BY <2>4 DEF ChannelInv, EvidenceIsCurrent, IsBoundTo
    <2>6. /\ watch' \in Watch /\ watch'.st = watch.st /\ watch'.epoch = watch.epoch
          /\ watch'.active = watch.active /\ watch'.fired /\ watch'.seq = n
          /\ watch'.ep = watch.ep /\ watch'.gen = watch.gen
      <3>1. (row.mode = "repeat") \in BOOLEAN
        OBVIOUS
      <3> HIDE DEF row
      <3> QED
        BY <1>t, <2>1, <2>3, <3>1 DEF Watch
    <2>7. latest'[1] = watch.gen /\ latest'[2] = watch.epoch /\ latest'[3] = n
      BY <2>1, <2>4
    <2>8. latest' \in (0..MaxGen) \X (0..MaxEpoch) \X (0..MaxSeq)
      BY <2>1, <2>3, <1>r, ConstantRows
    <2>9. TypeOK'
      BY <1>c, <1>s, <2>6, <2>8 DEF ChannelInv, TypeOK
    <2>10. WithinLimit' /\ DeletedIsUnbound' /\ EvidenceIsCurrent' /\ WatchIsArmed'
      BY <1>s, <1>t, <2>4, <2>5, <2>6 DEF ChannelInv, WithinLimit, ChannelLimitHolds, Active,
         DeletedIsUnbound, EvidenceIsCurrent, IsBoundTo, WatchIsArmed
    <2>11. CallsFit'
      <3>1. ASSUME NEW q \in Procs PROVE Fits(calls[q])'
        BY <1>c, <2>4, <2>6 DEF Fits, Idle, ChannelInv, CallsFit
      <3> QED
        BY <3>1 DEF CallsFit
    <2>12. LatestFits'
      BY <1>s, <1>t, <2>5, <2>6, <2>7, WatchFields DEF LatestFits
    <2>13. Later(latest', latest)
      <3>1. watch.gen >= latest[1]
        BY <2>4, <2>5 DEF ChannelInv, LatestFits
      <3>2. latest[2] < watch.epoch \/ (latest[2] = watch.epoch /\ n > latest[3])
        BY <1>t, <2>2, <2>3, <2>4, WatchFields DEF ChannelInv, LatestFits
      <3> QED
        BY <1>t, <2>7, <3>1, <3>2, WatchFields DEF Later
    <2>14. Advances
      BY <1>s DEF Advances, ChannelInv, DeletedIsUnbound
    <2>15. Claims
      BY <2>4, <2>5, <2>13, <1>t DEF Claims, Active
    <2> QED
      BY <2>9, <2>10, <2>11, <2>12, <2>14, <2>15 DEF GoodStep, ChannelInv
  <1> QED
    BY <1>1, <1>2

\* The transactions of the other calls.
LEMMA TakeoverKeeps ==
    ASSUME ChannelInv, NEW p \in Procs, TakeoverCommit(p)
    PROVE  GoodStep
  <1> DEFINE r    == calls[p]
             s    == {r.ch}
             gens == [c \in s |-> r.gen]
  <1>r. r.ch \in Channels /\ r.ep \in Endpoints /\ r.gen \in 0..MaxGen
    BY CallFields DEF ChannelInv, TypeOK, TakeoverCommit
  <1>1. Return(p) /\ UNCHANGED latest
    BY DEF TakeoverCommit
  <1>2. CASE MayRegister(s) /\ bindings[r.ch].gen = r.gen
    <2>1. TakeOver(r.ep, gens) /\ Register(s)
      BY <1>2 DEF TakeoverCommit
    <2>2. gens \in [s -> 0..MaxGen] /\ s \in SUBSET Channels /\ IsFiniteSet(s)
      BY <1>r, FS_Singleton
    <2>3. \A c \in s : bindings[c].gen = gens[c]
      BY <1>2
    <2> HIDE DEF r, s, gens
    <2> QED
      BY <1>r, <1>1, <1>2, <2>1, <2>2, <2>3, BindingCommits
  <1>3. CASE ~(MayRegister(s) /\ bindings[r.ch].gen = r.gen)
    <2>1. UNCHANGED <<status, bindings, presence, watch>>
      BY <1>3 DEF TakeoverCommit
    <2> QED
      BY <1>1, <2>1, CallEnds, NothingWritten DEF ChannelInv
  <1> QED
    BY <1>2, <1>3

LEMMA SessionKeeps ==
    ASSUME ChannelInv, NEW p \in Procs, SessionCommit(p)
    PROVE  GoodStep
  <1> DEFINE r == calls[p]
  <1>1. r.ep \in Endpoints /\ Return(p) /\ UNCHANGED latest
    BY CallFields DEF ChannelInv, TypeOK, SessionCommit
  <1>2. PICK s \in Sessions : r.gens \in [s -> 0..MaxGen]
    BY CallFields DEF ChannelInv, TypeOK, SessionCommit
  <1>3. DOMAIN r.gens = s /\ s \in SUBSET Channels /\ IsFiniteSet(s)
    BY <1>2, ChannelsAssumption
  <1>4. \/ /\ TakeOver(r.ep, r.gens) /\ Register(s) /\ MayRegister(s)
           /\ \A c \in s : bindings[c].gen = r.gens[c]
        \/ UNCHANGED <<status, bindings, presence, watch>>
    BY <1>3 DEF SessionCommit, Unchanged
  <1> HIDE DEF r
  <1>5. CASE /\ TakeOver(r.ep, r.gens) /\ Register(s) /\ MayRegister(s)
             /\ \A c \in s : bindings[c].gen = r.gens[c]
    BY <1>1, <1>2, <1>3, <1>5, BindingCommits
  <1>6. CASE UNCHANGED <<status, bindings, presence, watch>>
    BY <1>1, <1>6, CallEnds, NothingWritten DEF ChannelInv
  <1> QED
    BY <1>4, <1>5, <1>6

LEMMA ConfigureKeeps ==
    ASSUME ChannelInv, NEW p \in Procs, ConfigureCommit(p)
    PROVE  GoodStep
  <1> DEFINE r == calls[p]
  <1>1. /\ r \in Call /\ r.op = "configure" /\ Fits(r)
        /\ Return(p) /\ UNCHANGED <<bindings, presence, latest>>
        /\ watch'.epoch <= MaxEpoch
    BY DEF ChannelInv, TypeOK, CallsFit, ConfigureCommit
  <1>2. CASE MayRegister({Watched})
    <2>1. watch' = Configured(r) /\ Register({Watched})
      BY <1>2 DEF ConfigureCommit
    <2> HIDE DEF r
    <2>2. /\ watch' \in Watch /\ Moves(watch, watch')
          /\ watch'.active => watch.active /\ watch'.ep = watch.ep /\ watch'.gen = watch.gen
      BY <1>1, <2>1, ConfiguredEffect
    <2>3. /\ status' \in [Channels -> {"absent", "active", "deleted"}] /\ WithinLimit'
          /\ \A c \in Channels : c \in {Watched} => status'[c] = "active" /\ status[c] # "deleted"
          /\ \A c \in Channels : c \notin {Watched} => status'[c] = status[c]
      <3>1. {Watched} \in SUBSET Channels /\ IsFiniteSet({Watched})
        BY ChannelsAssumption, FS_Singleton
      <3> QED
        BY <1>2, <2>1, <3>1, RegisterKeeps
    <2>4. Watched \in Channels
      BY ChannelsAssumption
    <2>5. /\ watch'.active => IsBoundTo(watch', bindings[Watched])
          /\ status[Watched] = "deleted" => watch'.st # "on"
          /\ \A c \in Channels : status'[c] = "deleted" <=> status[c] = "deleted"
      BY <2>2, <2>3, <2>4 DEF ChannelInv, EvidenceIsCurrent, IsBoundTo
    <2>6. /\ TypeOK' /\ \A q \in Procs : calls'[q] = Idle \/ calls'[q] = calls[q]
      BY <1>1, <2>2, <2>3, CallEnds DEF ChannelInv, TypeOK
    <2> QED
      BY <1>1, <2>2, <2>3, <2>5, <2>6, WatchWritten
  <1>3. CASE ~MayRegister({Watched})
    <2>1. UNCHANGED <<status, watch>>
      BY <1>3 DEF ConfigureCommit
    <2> QED
      BY <1>1, <2>1, CallEnds, NothingWritten DEF ChannelInv
  <1> QED
    BY <1>2, <1>3

LEMMA ObserveKeeps ==
    ASSUME ChannelInv, NEW p \in Procs, ObserveCommit(p)
    PROVE  GoodStep
  <1> DEFINE r == calls[p]
  <1>1. /\ r \in Call /\ r.op = "observe" /\ Fits(r)
        /\ Return(p) /\ UNCHANGED <<status, bindings, presence, latest>>
        /\ watch'.epoch <= MaxEpoch
    BY DEF ChannelInv, TypeOK, CallsFit, ObserveCommit
  <1>2. CASE status[Watched] = "active" /\ bindings[Watched] = r.bound /\ watch.st = "on"
    <2>1. watch' \in Observed(r)
      BY <1>2 DEF ObserveCommit
    <2>2. r.bound # Unbound
      BY <1>1 DEF Fits
    <2> HIDE DEF r
    <2>3. /\ watch' \in Watch /\ Moves(watch, watch')
          /\ \/ watch'.ep = r.bound.ep /\ watch'.gen = r.bound.gen
             \/ watch'.active = watch.active /\ watch'.ep = watch.ep /\ watch'.gen = watch.gen
      BY <1>1, <1>2, <2>1, ObservedEffect
    <2>4. watch'.active => IsBoundTo(watch', bindings[Watched])
      BY <1>2, <2>2, <2>3 DEF IsBoundTo, ChannelInv, EvidenceIsCurrent
    <2>5. /\ TypeOK' /\ \A q \in Procs : calls'[q] = Idle \/ calls'[q] = calls[q]
      BY <1>1, <2>3, CallEnds DEF ChannelInv, TypeOK
    <2>6. WithinLimit'
      BY <1>1 DEF ChannelInv, WithinLimit, ChannelLimitHolds, Active
    <2> QED
      BY <1>1, <1>2, <2>3, <2>4, <2>5, <2>6, WatchWritten
  <1>3. CASE UNCHANGED watch
    BY <1>1, <1>3, CallEnds, NothingWritten DEF ChannelInv
  <1> QED
    BY <1>2, <1>3 DEF ObserveCommit

\* A call begins with a row as it is now.
LEMMA ReadsKeep ==
    ASSUME ChannelInv, NEW p \in Procs, BindingCall(p) \/ WatchCall(p) \/ FireRead(p)
    PROVE  GoodStep
  <1>t. /\ watch \in Watch /\ Watched \in Channels /\ \A c \in Channels : bindings[c] \in Binding
        /\ \A c \in Channels : bindings[c].gen \in 0..MaxGen
    BY ChannelsAssumption, BindingFields DEF ChannelInv, TypeOK
  <1>1. ASSUME NEW c \in HostChannels, NEW e \in Endpoints, TakeoverRead(p, c, e)
        PROVE  GoodStep
    <2>1. c \in Channels
      BY ChannelsAssumption DEF HostChannels
    <2> DEFINE call == [op |-> "takeover", ch |-> c, ep |-> e, gen |-> bindings[c].gen]
    <2>2. call \in Call /\ call.op = "takeover"
      BY <1>t, <2>1, TakeoverCall
    <2>3. Begin(p, call) /\ UNCHANGED <<status, bindings, presence, watch, latest>>
      BY <1>1 DEF TakeoverRead
    <2> HIDE DEF call
    <2> QED
      BY <2>2, <2>3, BeginKeeps DEF Fits
  <1>2. ASSUME NEW e \in Endpoints, NEW s \in Sessions, SessionRead(p, e, s)
        PROVE  GoodStep
    <2> DEFINE gens == [c \in s |-> bindings[c].gen]
               call == [op |-> "session", ep |-> e, gens |-> gens]
    <2>1. gens \in [s -> 0..MaxGen]
      BY <1>t, ChannelsAssumption
    <2>2. Begin(p, call) /\ UNCHANGED <<status, bindings, presence, watch, latest>>
      BY <1>2 DEF SessionRead
    <2> HIDE DEF gens
    <2>3. call \in Call /\ call.op = "session"
      BY <2>1, SessionCall
    <2> HIDE DEF call
    <2> QED
      BY <2>2, <2>3, BeginKeeps DEF Fits
  <1>3. ASSUME NEW own \in BOOLEAN, ObserveRead(p, own) PROVE GoodStep
    <2> DEFINE b        == bindings[Watched]
               baseline == own /\ (~IsBoundTo(watch, b) \/ ~watch.active \/ watch.fired)
               call     == [op |-> "observe", own |-> own, bound |-> b, baseline |-> baseline]
    <2>1. b \in Binding /\ b # Unbound /\ baseline \in BOOLEAN
      BY <1>t, <1>3 DEF ObserveRead
    <2>2. Begin(p, call) /\ UNCHANGED <<status, bindings, presence, watch, latest>>
      BY <1>3 DEF ObserveRead
    <2> HIDE DEF b, baseline
    <2>3. call \in Call /\ call.op = "observe" /\ call.bound = b
      BY <2>1, ObserveCall
    <2> HIDE DEF call
    <2> QED
      BY <2>1, <2>2, <2>3, BeginKeeps DEF Fits
  <1>4. ASSUME NEW on \in BOOLEAN, NEW mode \in Modes, ConfigureRead(p, on, mode) PROVE GoodStep
    <2> DEFINE how   == IF watch.st = "none" THEN "insert"
                        ELSE IF watch.st = "off" /\ on THEN "enable" ELSE "change"
               due   == how = "change" /\ on /\ mode = "repeat" /\ watch.fired
               bound == IF how = "change" THEN Unbound ELSE bindings[Watched]
               call  == [op |-> "configure", how |-> how, on |-> on, mode |-> mode,
                         due |-> due, bound |-> bound]
    <2>1. /\ how \in {"insert", "enable", "change"} /\ due \in BOOLEAN /\ bound \in Binding
          /\ how # "insert" => watch.st # "none"
      BY <1>t, ConstantRows
    <2>2. Begin(p, call) /\ UNCHANGED <<status, bindings, presence, watch, latest>>
      BY <1>4 DEF ConfigureRead
    <2> HIDE DEF how, due, bound
    <2>3. call \in Call /\ call.op = "configure" /\ call.how = how
      BY <2>1, ConfigureCall
    <2> HIDE DEF call
    <2> QED
      BY <2>1, <2>2, <2>3, BeginKeeps DEF Fits
  <1>5. CASE FireRead(p)
    <2> DEFINE call == [op |-> "fire", mode |-> watch.mode, ep |-> watch.ep, gen |-> watch.gen,
                        epoch |-> watch.epoch, fired |-> watch.fired, seq |-> watch.seq]
    <2>1. watch.st = "on" /\ watch.active /\ IsBoundTo(watch, bindings[Watched])
          /\ Begin(p, call) /\ UNCHANGED <<status, bindings, presence, watch, latest>>
      BY <1>5 DEF FireRead
    <2>2. watch.ep \in Endpoints /\ watch.gen \in 1..MaxGen
      BY <1>t, <2>1, BindingFields DEF IsBoundTo
    <2>3. watch.epoch \in 1..MaxEpoch
      BY <1>t, <2>1, WatchFields, ConstantRows DEF ChannelInv, WatchIsArmed
    <2>4. call \in Call /\ call.op = "fire" /\ call.epoch = watch.epoch
      BY <1>t, <2>2, <2>3, WatchFields, FireCall
    <2> HIDE DEF call
    <2>5. Fits(call)
      BY <1>t, <2>1, <2>4, WatchFields DEF Fits
    <2> QED
      BY <2>1, <2>4, <2>5, BeginKeeps
  <1> QED
    BY <1>1, <1>2, <1>3, <1>4, <1>5 DEF BindingCall, WatchCall

\* Steps that write one row, and no binding and no watch.
LEMMA RowsKeep ==
    ASSUME ChannelInv,
           \/ \E c \in Channels : CreateChannel(c)
           \/ \E e \in Endpoints : RevokeEndpoint(e)
           \/ RenewPresence
    PROVE  GoodStep
  <1>t. /\ watch \in Watch /\ WatchIsArmed /\ Watched \in Channels
        /\ Moves(watch, watch)
    BY ChannelsAssumption, MovesNot DEF ChannelInv, TypeOK
  <1>1. ASSUME NEW c \in Channels, CreateChannel(c) PROVE GoodStep
    <2>1. {c} \in SUBSET Channels /\ IsFiniteSet({c}) /\ MayRegister({c}) /\ Register({c})
          /\ UNCHANGED <<bindings, presence, watch, latest, calls>>
      BY <1>1, FS_Singleton DEF CreateChannel
    <2>2. /\ status' \in [Channels -> {"absent", "active", "deleted"}] /\ WithinLimit'
          /\ \A d \in Channels : d \in {c} => status'[d] = "active" /\ status[d] # "deleted"
          /\ \A d \in Channels : d \notin {c} => status'[d] = status[d]
      BY <2>1, RegisterKeeps
    <2>3. TypeOK' /\ \A d \in Channels : status'[d] = "deleted" <=> status[d] = "deleted"
      BY <2>1, <2>2 DEF ChannelInv, TypeOK
    <2>4. /\ watch'.active => IsBoundTo(watch', bindings[Watched])
          /\ status[Watched] = "deleted" => watch'.st # "on"
      BY <2>1 DEF ChannelInv, EvidenceIsCurrent
    <2> QED
      BY <1>t, <2>1, <2>2, <2>3, <2>4, WatchWritten
  <1>2. ASSUME presence' = Unbound \/ presence' = presence \/ presence' = bindings[Watched],
               UNCHANGED <<status, bindings, watch, latest, calls>>
        PROVE  GoodStep
    <2>1. TypeOK'
      BY <1>2, <1>t, ConstantRows DEF ChannelInv, TypeOK
    <2>2. /\ WithinLimit' /\ DeletedIsUnbound' /\ EvidenceIsCurrent' /\ WatchIsArmed'
          /\ CallsFit' /\ LatestFits'
      BY <1>2 DEF ChannelInv, WithinLimit, ChannelLimitHolds, Active, DeletedIsUnbound,
         EvidenceIsCurrent, IsBoundTo, WatchIsArmed, CallsFit, Fits, LatestFits
    <2>3. Advances /\ Claims
      BY <1>2, <1>t, WatchFields DEF Advances, Claims, ChannelInv, DeletedIsUnbound
    <2> QED
      BY <2>1, <2>2, <2>3 DEF GoodStep, ChannelInv
  <1>3. ASSUME NEW e \in Endpoints, RevokeEndpoint(e) PROVE GoodStep
    BY <1>2, <1>3 DEF RevokeEndpoint
  <1>4. CASE RenewPresence
    BY <1>2, <1>4 DEF RenewPresence
  <1> QED
    BY <1>1, <1>3, <1>4

LEMMA NextIsGood == ChannelInv /\ [Next]_vars => ChannelInv' /\ [Advances]_vars /\ [Claims]_vars
  <1> SUFFICES ASSUME ChannelInv, [Next]_vars PROVE GoodStep
    BY DEF GoodStep
  <1>1. CASE ChannelStep
    BY <1>1, RowsKeep, DeleteKeeps DEF ChannelStep
  <1>2. CASE HostStep
    BY <1>2, RowsKeep DEF HostStep
  <1>3. ASSUME NEW p \in Procs, CallStep(p) PROVE GoodStep
    <2>1. CASE BindingCall(p) \/ WatchCall(p) \/ FireRead(p)
      BY <2>1, ReadsKeep
    <2>2. CASE TakeoverCommit(p) \/ SessionCommit(p)
      BY <2>2, TakeoverKeeps, SessionKeeps
    <2>3. CASE ConfigureCommit(p) \/ ObserveCommit(p) \/ FireCommit(p)
      BY <2>3, ConfigureKeeps, ObserveKeeps, FireKeeps
    <2>4. CASE Refused(p)
      BY <2>4, CallEnds, NothingWritten DEF Refused, ChannelInv
    <2> QED
      BY <1>3, <2>1, <2>2, <2>3, <2>4 DEF CallStep
  <1>4. CASE UNCHANGED vars
    BY <1>4, NothingWritten DEF vars, ChannelInv, TypeOK
  <1> QED
    BY <1>1, <1>2, <1>3, <1>4 DEF Next

LEMMA ChannelInvHolds == Spec => []ChannelInv
  BY InitChannelInv, NextIsGood, PTL DEF Spec

\* The rows of channels, bindings, presence and the watch have their types, and so has
\* what every call has read of them.
THEOREM TypeCorrect == Spec => []TypeOK
  <1>1. ChannelInv => TypeOK
    BY DEF ChannelInv
  <1> QED
    BY <1>1, ChannelInvHolds, PTL

\* channelGuardSql keeps max_channels whichever call registers a channel first, however
\* many calls are between their read and their transaction.
THEOREM ChannelsStayWithinLimit == Spec => []ChannelLimitHolds
  <1>1. ChannelInv => ChannelLimitHolds
    BY DEF ChannelInv, WithinLimit
  <1> QED
    BY <1>1, ChannelInvHolds, PTL

\* Presence and the activity of a watch end with the binding they were observed under.
THEOREM EvidenceEndsWithBinding == Spec => []EvidenceIsCurrent
  <1>1. ChannelInv => EvidenceIsCurrent
    BY DEF ChannelInv
  <1> QED
    BY <1>1, ChannelInvHolds, PTL

\* Of two takeovers that read the same generation one succeeds: a binding moves on by one
\* generation, or its channel is deleted, which is for good.
THEOREM GenerationsAdvance == Spec => BindingsAdvance
  <1>1. ChannelInv /\ [Next]_vars => [Advances]_vars
    BY NextIsGood
  <1>2. BindingsAdvance <=> [][Advances]_vars
    BY DEF BindingsAdvance, Advances
  <1> QED
    BY <1>1, <1>2, ChannelInvHolds, PTL DEF Spec

\* No epoch and sequence of a watch is used for two claims, however stale the row was
\* from which a tick, a configuration or an observation decided what to write.
THEOREM FiresAreClaims == Spec => EveryFireIsAClaim
  <1>1. ChannelInv /\ [Next]_vars => [Claims]_vars
    BY NextIsGood
  <1>2. EveryFireIsAClaim <=> [][Claims]_vars
    BY DEF EveryFireIsAClaim, Claims
  <1> QED
    BY <1>1, <1>2, ChannelInvHolds, PTL DEF Spec
=============================================================================
