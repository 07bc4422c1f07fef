-------------------------- MODULE Checkpoints_proofs --------------------------
(***************************************************************************)
(* Proofs about Checkpoints: a coverage stamp is honest, what a gated      *)
(* sweep grades as silence is silence, or is known of, and the types: no   *)
(* stamp reaches before the beginning of time.                             *)
(***************************************************************************)
EXTENDS Checkpoints, DataInduction

-----------------------------------------------------------------------------
(* The inductive invariant.                                                *)

\* Times, and what is held of an exposure.
ClockInv ==
    /\ now \in Nat
    /\ visits \in [Pros -> SUBSET Nat] /\ \A p \in Pros : \A v \in visits[p] : v <= now
    /\ sentAt \in [Exposures -> Nat \cup {Never}]
    /\ checked \in [Exposures -> Int]
    /\ tick = [at |-> tick.at, due |-> tick.due]
    /\ tick # Idle => tick.at \in Nat /\ tick.at <= now
    /\ tick.due \subseteq Exposures /\ stamps \subseteq Exposures
    /\ stamps # {} => tick # Idle

\* Only a confirmed send is looked up, and no stamp reaches past what is indexed.
ReachInv ==
    /\ \A e \in Exposures : checked[e] # Never => sentAt[e] # Never /\ checked[e] <= now - Grace
    /\ \A e \in tick.due \cup stamps : sentAt[e] # Never

\* Of a return up to t, and in the window, there is an amplitude row.
Looked(e, t) ==
    \A v \in visits[ProOf[e]] :
        sentAt[e] # Never /\ sentAt[e] <= v /\ v <= t /\ v <= sentAt[e] + Window
            => <<e, "amplitude">> \in rows

\* What is stamped was looked up, and what waits for its stamp as well.
HonestInv ==
    /\ \A e \in Exposures : Looked(e, checked[e])
    /\ \A e \in stamps : Looked(e, Reach)

IInv == ClockInv /\ ReachInv /\ HonestInv

-----------------------------------------------------------------------------
(* Steps.                                                                  *)

LEMMA InitInv == ASSUME Init PROVE IInv
  BY CheckpointAssumption DEF Init, IInv, ClockInv, ReachInv, HonestInv, Looked, Idle, Never

\* Time passes.
LEMMA TickKeeps == ASSUME IInv, Tick PROVE IInv'
<1> USE CheckpointAssumption DEF Never
<1>1. ClockInv'
  BY DEF Tick, IInv, ClockInv, poller
<1>2. ReachInv'
  BY DEF Tick, IInv, ClockInv, ReachInv, poller
<1>3. HonestInv'
  BY DEF Tick, IInv, HonestInv, Looked, Reach, poller, outcomes
<1> QED
  BY <1>1, <1>2, <1>3 DEF IInv

\* A visit is younger than every stamp, made or to be made.
LEMMA VisitKeeps == ASSUME IInv, NEW p \in Pros, Visit(p) PROVE IInv'
<1> USE CheckpointAssumption DEF Never
<1>1. ClockInv'
  BY DEF Visit, IInv, ClockInv, poller
<1>2. ReachInv'
  BY DEF Visit, IInv, ReachInv, poller
<1>3. HonestInv'
  <2>1. \A q \in Pros : \A v \in visits'[q] : v \in visits[q] \/ v = now
    BY DEF Visit, IInv, ClockInv
  <2>2. UNCHANGED <<now, sentAt, checked, rows, tick, stamps>>
    BY DEF Visit, outcomes, poller
  <2>3. ASSUME NEW e \in Exposures PROVE Looked(e, checked[e])'
    <3>1. \A v \in visits'[ProOf[e]] : v <= checked[e] => v \in visits[ProOf[e]]
      BY <2>1 DEF IInv, ClockInv, ReachInv
    <3> QED
      BY <2>2, <3>1 DEF IInv, HonestInv, Looked
  <2>4. ASSUME NEW e \in stamps PROVE Looked(e, Reach)'
    <3>1. \A v \in visits'[ProOf[e]] : v <= Reach => v \in visits[ProOf[e]]
      BY <2>1 DEF IInv, ClockInv, Reach
    <3> QED
      BY <2>2, <3>1 DEF IInv, HonestInv, Looked, Reach
  <2> QED
    BY <2>2, <2>3, <2>4 DEF HonestInv
<1> QED
  BY <1>1, <1>2, <1>3 DEF IInv

\* A send takes its clock once, before anything is looked up for it; a report that
\* dates it otherwise moves nothing.
LEMMA ConfirmKeeps == ASSUME IInv, NEW e \in Exposures, NEW t \in Times, Confirm(e, t) PROVE IInv'
<1> USE CheckpointAssumption DEF Never
<1>0. UNCHANGED <<now, visits, checked, rows, tick, stamps>>
  BY DEF Confirm, world, outcomes, poller
<1>1. CASE sentAt[e] # Never
  <2>1. sentAt' = sentAt
    BY <1>1 DEF Confirm, ClockMayMove, IInv, ClockInv
  <2>2. ClockInv' /\ ReachInv'
    BY <1>0, <2>1 DEF IInv, ClockInv, ReachInv
  <2>3. HonestInv'
    BY <1>0, <2>1 DEF IInv, HonestInv, Looked, Reach
  <2> QED
    BY <2>2, <2>3 DEF IInv
<1>2. CASE sentAt[e] = Never
  <2>1. sentAt' = [sentAt EXCEPT ![e] = t]
    BY <1>2 DEF Confirm, ClockMayMove
  <2>2. ClockInv' /\ ReachInv'
    BY <1>0, <1>2, <2>1 DEF IInv, ClockInv, ReachInv, Times
  <2>3. HonestInv'
    <3>1. checked[e] = Never /\ e \notin stamps
      BY <1>2 DEF IInv, ReachInv
    <3>2. \A v \in visits[ProOf[e]] : ~(v <= checked[e])
      BY <3>1 DEF IInv, ClockInv
    <3>3. \A f \in Exposures : f # e => sentAt'[f] = sentAt[f]
      BY <2>1 DEF IInv, ClockInv
    <3> QED
      BY <1>0, <3>1, <3>2, <3>3 DEF IInv, ClockInv, HonestInv, Looked, Reach
  <2> QED
    BY <2>2, <2>3 DEF IInv
<1> QED
  BY <1>1, <1>2

\* Steps that only add rows, or touch none of this.
LEMMA OthersKeep ==
    ASSUME IInv, UNCHANGED <<now, visits, sentAt, checked, poller>>, rows \subseteq rows'
    PROVE  IInv'
<1>1. ClockInv' /\ ReachInv'
  BY DEF IInv, ClockInv, ReachInv, poller
<1>2. HonestInv'
  BY DEF IInv, HonestInv, Looked, Reach, poller
<1> QED
  BY <1>1, <1>2 DEF IInv

LEMMA StartPollKeeps == ASSUME IInv, StartPoll PROVE IInv'
<1> USE CheckpointAssumption DEF Never
<1>1. stamps = {} /\ UNCHANGED <<world, sentAt, checked, rows, stamps>>
  BY DEF StartPoll, IInv, ClockInv, outcomes
<1>2. ClockInv'
  BY <1>1 DEF StartPoll, IInv, ClockInv, world, Idle
<1>3. ReachInv'
  BY <1>1 DEF StartPoll, DueExposure, IInv, ReachInv, world
<1>4. HonestInv'
  BY <1>1 DEF IInv, HonestInv, Looked, world
<1> QED
  BY <1>2, <1>3, <1>4 DEF IInv

\* A lookup that is stamped has everything older than Grace; the clock of the tick is older than
\* now, so that it has everything up to where the stamp will reach.
LEMMA LookupKeeps ==
    ASSUME IInv, NEW p \in Pros, NEW S \in SUBSET visits[p], NEW covered \in BOOLEAN,
           Lookup(p, S, covered)
    PROVE  IInv'
<1> USE CheckpointAssumption DEF Never
<1> DEFINE mine  == {e \in tick.due : ProOf[e] = p}
           found == {e \in mine : InWindow(e, S) # {}}
<1>1. /\ mine # {} /\ MayHaveSeen(p, S, covered)
      /\ stamps' # {} => covered
      /\ rows' = rows \cup {<<e, "amplitude">> : e \in found}
      /\ tick' = [tick EXCEPT !.due = @ \ mine]
      /\ stamps' \subseteq mine
      /\ UNCHANGED <<world, sentAt, checked>>
  BY DEF Lookup
<1>2. tick # Idle
  BY <1>1 DEF Idle
<1>3. /\ tick' = [at |-> tick.at, due |-> tick.due \ mine]
      /\ tick'.due \subseteq tick.due /\ tick'.at = tick.at /\ tick' # Idle
  <2>1. tick = [at |-> tick.at, due |-> tick.due] /\ tick.at \in Nat
    BY <1>2 DEF IInv, ClockInv
  <2>2. tick' = [at |-> tick.at, due |-> tick.due \ mine]
    BY <2>1, <1>1
  <2> HIDE DEF mine
  <2>3. tick'.at = tick.at /\ tick'.due = tick.due \ mine
    BY <2>2
  <2>4. tick' # Idle
    BY <2>1, <2>3 DEF Idle
  <2> QED
    BY <2>2, <2>3, <2>4
<1>4. ClockInv'
  BY <1>1, <1>2, <1>3 DEF IInv, ClockInv, world
<1>5. ReachInv'
  BY <1>1, <1>3 DEF IInv, ReachInv, world
<1>6. HonestInv'
  <2>1. ASSUME NEW e \in Exposures PROVE Looked(e, checked[e])'
    BY <2>1, <1>1 DEF IInv, HonestInv, Looked, world
  <2>2. ASSUME NEW e \in stamps' PROVE Looked(e, Reach)'
    <3> SUFFICES ASSUME NEW v \in visits[ProOf[e]],
                        sentAt[e] <= v, v <= tick.at - Grace, v <= sentAt[e] + Window
                 PROVE  <<e, "amplitude">> \in rows'
      BY <1>1, <1>3 DEF Looked, Reach, world
    <3>1. e \in mine /\ ProOf[e] = p
      BY <1>1
    <3>2. v <= now - Grace
      BY <1>2, <3>1 DEF IInv, ClockInv
    <3>3. v \in S
      <4>1. covered /\ v \in Nat /\ v \in visits[p]
        BY <1>1, <3>1, <2>2 DEF IInv, ClockInv
      <4>2. \A w \in visits[p] : 0 <= w /\ w <= now - Grace => w \in S
        BY <1>1, <4>1 DEF MayHaveSeen
      <4> QED
        BY <3>2, <4>1, <4>2
    <3>4. v \in InWindow(e, S)
      BY <3>3 DEF InWindow
    <3> QED
      BY <1>1, <3>1, <3>4
  <2> QED
    BY <2>1, <2>2, <1>1 DEF HonestInv
<1> QED
  BY <1>4, <1>5, <1>6 DEF IInv

\* The stamp reaches as far as was looked, and no further than what is indexed.
LEMMA StampKeeps == ASSUME IInv, Stamp PROVE IInv'
<1> USE CheckpointAssumption DEF Never
<1>1. tick # Idle /\ Reach \in Int /\ Reach <= now - Grace
  BY DEF Stamp, IInv, ClockInv, Reach
<1>2. /\ \A e \in Exposures : checked'[e] = IF e \in stamps THEN Reach ELSE checked[e]
      /\ checked' \in [Exposures -> Int]
      /\ stamps' = {} /\ UNCHANGED <<world, sentAt, rows, tick>>
  BY <1>1 DEF Stamp, IInv, ClockInv, outcomes
<1>3. ClockInv'
  BY <1>2 DEF IInv, ClockInv, world
<1>4. ReachInv'
  BY <1>1, <1>2 DEF IInv, ClockInv, ReachInv, world
<1>5. HonestInv'
  BY <1>2 DEF IInv, HonestInv, Looked, world
<1> QED
  BY <1>3, <1>4, <1>5 DEF IInv

LEMMA LeaveKeeps ==
    ASSUME IInv, EndPoll \/ FailPoll \/ \E p \in Pros : PassOver(p)
    PROVE  IInv'
<1>1. /\ UNCHANGED <<world, sentAt, checked, rows>>
      /\ stamps' = {}
      /\ tick' = [at |-> tick'.at, due |-> tick'.due]
      /\ tick' = Idle \/ (tick'.at = tick.at /\ tick'.due \subseteq tick.due /\ tick # Idle)
  BY DEF EndPoll, FailPoll, PassOver, outcomes, IInv, ClockInv, Idle
<1>2. ClockInv'
  BY <1>1 DEF IInv, ClockInv, world, Idle
<1>3. ReachInv'
  BY <1>1 DEF IInv, ReachInv, world, Idle
<1>4. HonestInv'
  BY <1>1 DEF IInv, HonestInv, Looked, world
<1> QED
  BY <1>2, <1>3, <1>4 DEF IInv

LEMMA StepInv == ASSUME IInv, [Next]_vars PROVE IInv'
<1>1. ASSUME NEW e \in Exposures, Click(e) \/ KeyByWinner(e) PROVE IInv'
  BY <1>1, OthersKeep DEF Click, KeyByWinner, world
<1>4. ASSUME NEW on \in BOOLEAN, SetLearning(on) PROVE IInv'
  BY <1>4, OthersKeep DEF SetLearning, outcomes
<1>2. CASE StartSweep \/ FinishSweep \/ FailSweep
  BY <1>2, OthersKeep DEF StartSweep, FinishSweep, FailSweep, SweepRows, world, outcomes
<1>3. CASE UNCHANGED vars
  BY <1>3, OthersKeep DEF vars, world, outcomes
<1> QED
  BY <1>1, <1>2, <1>3, <1>4, TickKeeps, VisitKeeps, ConfirmKeeps, StartPollKeeps, LookupKeeps,
     StampKeeps, LeaveKeeps
  DEF Next, Poll

-----------------------------------------------------------------------------
(* The theorems.                                                           *)

\* The clocks, the reach of stamps, and what was looked up before them.
THEOREM CheckpointInvariance == Spec => []IInv
<1>1. Init => IInv
  BY InitInv
<1>2. IInv /\ [Next]_vars => IInv'
  BY StepInv
<1> QED
  BY <1>1, <1>2, PTL DEF Spec

\* However late an event is indexed, and wherever a tick dies between the ingest
\* and the stamp, a stamp never covers a return that no row knows of.
THEOREM StampsAreHonest == Spec => []CoverageIsHonest
<1>1. IInv => CoverageIsHonest
  BY DEF IInv, HonestInv, Looked, CoverageIsHonest
<1> QED
  BY <1>1, CheckpointInvariance, PTL

\* Only the end of a sweep rests it, and it grades what is due.
LEMMA GradedIsDue ==
    ASSUME [Next]_vars, sweep.gated, sweep' = Resting,
           NEW e \in Exposures, NEW s \in Sources, NEW h \in Horizons,
           flag[e][s][h] = "unresolved", flag'[e][s][h] = "no"
    PROVE  Due(e, h)
<1>1. sweep' # sweep
  BY DEF Resting
<1>2. CASE FailSweep \/ StartSweep
  BY <1>2 DEF FailSweep, StartSweep, outcomes
<1>3. CASE FinishSweep
  BY <1>3 DEF FinishSweep, Resolve
<1> QED
  BY <1>1, <1>2, <1>3
  DEF Next, Poll, Tick, Visit, SetLearning, Click, KeyByWinner, Confirm, StartPoll, Stamp, EndPoll, FailPoll,
      PassOver, Lookup, vars

\* A gated sweep grades a horizon as "no return" only if the Pro did not return in
\* it, or the amplitude row of the send knows of it: the stamps of the moment of
\* grading decide, whatever the poller does between the gate and the grades.
\* Assumed: some horizon is the longest, as of every finite set of them.
THEOREM SilenceIsProven ==
    ASSUME NEW longest \in Horizons, \A h \in Horizons : h <= longest
    PROVE  Spec => NegativesAreProven
<1>0. Window \in Nat /\ \A h \in Horizons : h <= Window
  BY CheckpointAssumption DEF Window, Last
<1>1. ASSUME IInv, [Next]_vars, sweep.gated, sweep' = Resting,
             NEW e \in Exposures, NEW s \in Sources, NEW h \in Horizons,
             flag[e][s][h] = "unresolved", flag'[e][s][h] = "no"
      PROVE  ~ReturnedWithin(e, h) \/ <<e, "amplitude">> \in rows
  <2>1. sentAt[e] + h <= checked[e]
    BY <1>1, GradedIsDue DEF Due
  <2>2. sentAt[e] \in Nat /\ h \in Nat /\ Window \in Nat /\ checked[e] \in Int
    <3>1. checked[e] \in Int /\ sentAt[e] \in Nat \cup {Never} /\ h \in Nat \ {0}
      BY <1>1, CheckpointAssumption DEF IInv, ClockInv
    <3>2. checked[e] # Never
      BY <2>1, <3>1 DEF Never
    <3>3. sentAt[e] # Never
      BY <1>1, <3>2 DEF IInv, ReachInv
    <3> QED
      BY <1>0, <3>1, <3>3
  <2>3. ASSUME NEW v \in visits[ProOf[e]], sentAt[e] <= v, v <= sentAt[e] + h
        PROVE  <<e, "amplitude">> \in rows
    <3>1. v \in Nat
      BY <1>1, CheckpointAssumption DEF IInv, ClockInv
    <3>2. v <= checked[e] /\ v <= sentAt[e] + Window
      <4>1. h <= Window
        BY <1>0
      <4> QED
        BY <2>1, <2>2, <2>3, <3>1, <4>1
    <3> QED
      BY <1>1, <2>2, <2>3, <3>2 DEF IInv, HonestInv, Looked, Never
  <2> QED
    BY <2>3 DEF ReturnedWithin
<1>2. IInv /\ [Next]_vars =>
        [\A e \in Exposures, s \in Sources, h \in Horizons :
            /\ sweep.gated /\ sweep' = Resting
            /\ flag[e][s][h] = "unresolved" /\ flag'[e][s][h] = "no"
            => ~ReturnedWithin(e, h) \/ <<e, "amplitude">> \in rows]_vars
  BY <1>1
<1> QED
  BY <1>2, CheckpointInvariance, PTL DEF Spec, NegativesAreProven

-----------------------------------------------------------------------------
(* Types.                                                                  *)

\* What is due was sent a horizon and GRACE before the clock of the tick, so that
\* its stamp is a time.
DueInv == tick.due \cup stamps # {} => tick.at >= Grace

Typed == TypeOK /\ IInv /\ DueInv

\* The first return in the window is a time: a set of times has a least one.
LEMMA FirstReturn ==
    ASSUME TypeOK, NEW p \in Pros, NEW S \in SUBSET visits[p], NEW e \in Exposures,
           InWindow(e, S) # {}
    PROVE  First(InWindow(e, S)) \in Times
<1>1. InWindow(e, S) \subseteq Times /\ Times \subseteq Nat
  <2>1. visits[p] \subseteq Times
    BY DEF TypeOK
  <2>2. InWindow(e, S) \subseteq S
    BY DEF InWindow
  <2>3. Times \subseteq Nat
    BY CheckpointAssumption DEF Times
  <2> QED
    BY <2>1, <2>2, <2>3
<1>2. \E x \in InWindow(e, S) : \A y \in InWindow(e, S) : x <= y
  BY <1>1, LeastNatural
<1> QED
  BY <1>1, <1>2 DEF First

LEMMA TypedInit == ASSUME Init PROVE Typed
<1> USE CheckpointAssumption
<1>1. 0 \in Times /\ "unresolved" \in Flag
  BY DEF Times, Flag
<1>2. TypeOK
  BY <1>1 DEF Init, TypeOK, Idle, Resting
<1>3. DueInv
  BY DEF Init, DueInv, Idle
<1> QED
  BY <1>2, <1>3, InitInv DEF Typed

\* Steps that leave alone the clock, the poller and its stamps.
LEMMA StillTyped ==
    ASSUME TypeOK, DueInv, IInv',
           UNCHANGED <<now, checked, poller, first>>, learning' \in BOOLEAN,
           visits' \in [Pros -> SUBSET Times],
           sentAt' \in [Exposures -> Times \cup {Never}],
           rows' \subseteq Exposures \X Sources,
           flag' \in [Exposures -> [Sources -> [Horizons -> Flag]]],
           heartbeat' \in BOOLEAN,
           sweep' \in [at : Times \cup {Never}, gated : BOOLEAN, new : SUBSET Exposures]
    PROVE  Typed'
<1>1. TypeOK'
  BY DEF TypeOK, poller
<1>2. DueInv'
  BY DEF DueInv, poller
<1> QED
  BY <1>1, <1>2 DEF Typed

\* Only Times are stamped.
LEMMA StampTyped == ASSUME Typed, IInv', Stamp PROVE Typed'
<1> USE CheckpointAssumption
<1>1. Reach \in Times
  <2>1. tick # Idle /\ tick.at \in Nat /\ tick.at <= now /\ tick.at >= Grace
    BY DEF Stamp, Typed, IInv, ClockInv, DueInv
  <2> QED
    BY <2>1 DEF Reach, Times, Typed, TypeOK
<1>2. checked' \in [Exposures -> Times \cup {Never}]
  BY <1>1 DEF Stamp, Typed, TypeOK
<1>3. TypeOK'
  BY <1>2 DEF Stamp, Typed, TypeOK, world, outcomes
<1>4. DueInv'
  BY DEF Stamp, Typed, DueInv
<1> QED
  BY <1>3, <1>4 DEF Typed

\* A tick finds due what has had a closed horizon for GRACE.
LEMMA StartTyped == ASSUME Typed, IInv', StartPoll PROVE Typed'
<1> USE CheckpointAssumption
<1>1. tick' = [at |-> now, due |-> {e \in Exposures : DueExposure(e)}] /\ stamps = {}
  BY DEF StartPoll, Typed, IInv, ClockInv
<1>2. TypeOK'
  BY <1>1 DEF StartPoll, Typed, TypeOK, world, outcomes
<1>3. ASSUME NEW e \in Exposures, DueExposure(e) PROVE now >= Grace
  <2>1. PICK h \in Horizons : sentAt[e] + h + Grace <= now
    BY <1>3 DEF DueExposure, DueHorizon
  <2>2. sentAt[e] \in Nat /\ h \in Nat
    BY <1>3 DEF DueExposure, Typed, IInv, ClockInv
  <2> QED
    BY <2>1, <2>2 DEF Typed, IInv, ClockInv
<1>4. DueInv'
  BY <1>1, <1>3 DEF DueInv, StartPoll
<1> QED
  BY <1>2, <1>4 DEF Typed

\* A lookup settles every horizon of what it found, and dates the first return.
LEMMA LookupTyped ==
    ASSUME Typed, IInv', NEW p \in Pros, NEW S \in SUBSET visits[p], NEW covered \in BOOLEAN,
           Lookup(p, S, covered)
    PROVE  Typed'
<1> USE CheckpointAssumption
<1> DEFINE mine  == {e \in tick.due : ProOf[e] = p}
           found == {e \in mine : InWindow(e, S) # {}}
<1>1. /\ rows' = rows \cup {<<e, "amplitude">> : e \in found}
      /\ first' = [e \in Exposures |-> IF e \in found THEN First(InWindow(e, S)) ELSE first[e]]
      /\ flag' = [e \in Exposures |->
                    IF e \notin found THEN flag[e]
                    ELSE [flag[e] EXCEPT !["amplitude"] = [h \in Horizons |-> Derived(e, first'[e], h)]]]
      /\ tick' = [tick EXCEPT !.due = @ \ mine]
      /\ stamps' \subseteq mine /\ mine # {}
      /\ UNCHANGED <<world, sentAt, checked, heartbeat, sweep>>
  BY DEF Lookup
<1>2. tick = [at |-> tick.at, due |-> tick.due]
  BY DEF Typed, IInv, ClockInv
<1>3. mine \subseteq tick.due /\ found \subseteq mine /\ \A e \in found : InWindow(e, S) # {}
  OBVIOUS
<1> HIDE DEF mine, found
<1>4. tick'.at = tick.at /\ tick'.due = tick.due \ mine
  BY <1>1, <1>2
<1>5. tick.due \subseteq Exposures
  BY DEF Typed, TypeOK
<1>6. rows' \subseteq Exposures \X Sources
  <2>1. "amplitude" \in Sources
    BY DEF Sources
  <2>2. \A e \in found : <<e, "amplitude">> \in Exposures \X Sources
    BY <2>1, <1>3, <1>5
  <2> QED
    BY <2>2, <1>1 DEF Typed, TypeOK
<1>7. first' \in [Exposures -> Times \cup {Never}]
  <2>1. \A e \in found : First(InWindow(e, S)) \in Times
    BY <1>3, <1>5, FirstReturn DEF Typed
  <2> QED
    BY <2>1, <1>1 DEF Typed, TypeOK
<1>8. flag' \in [Exposures -> [Sources -> [Horizons -> Flag]]]
  <2>1. \A e \in Exposures : [h \in Horizons |-> Derived(e, first'[e], h)] \in [Horizons -> Flag]
    BY DEF Derived, Flag
  <2>2. \A e \in Exposures : flag[e] \in [Sources -> [Horizons -> Flag]]
    BY DEF Typed, TypeOK
  <2> DEFINE settled(e) == [h \in Horizons |-> Derived(e, first'[e], h)]
  <2>3. \A e \in Exposures : settled(e) \in [Horizons -> Flag]
    BY <2>1
  <2>4. flag' = [e \in Exposures |-> IF e \notin found THEN flag[e]
                                     ELSE [flag[e] EXCEPT !["amplitude"] = settled(e)]]
    BY <1>1
  <2> HIDE DEF settled
  <2>5. \A e \in Exposures : [flag[e] EXCEPT !["amplitude"] = settled(e)] \in [Sources -> [Horizons -> Flag]]
    BY <2>2, <2>3
  <2> QED
    BY <2>2, <2>4, <2>5
<1>9. TypeOK'
  BY <1>1, <1>3, <1>4, <1>5, <1>6, <1>7, <1>8 DEF Typed, TypeOK, world
<1>10. DueInv'
  BY <1>1, <1>3, <1>4 DEF Typed, DueInv
<1> QED
  BY <1>9, <1>10 DEF Typed

\* A tick that ends has nothing left.
LEMMA LeaveTyped ==
    ASSUME Typed, IInv', EndPoll \/ FailPoll \/ \E p \in Pros : PassOver(p)
    PROVE  Typed'
<1>1. /\ UNCHANGED <<world, sentAt, checked, rows, first, flag, sweep>>
      /\ heartbeat' \in BOOLEAN
      /\ stamps' = {}
      /\ tick' = Idle \/ (tick'.at = tick.at /\ tick'.due \subseteq tick.due)
  BY DEF EndPoll, FailPoll, PassOver, outcomes, Typed, TypeOK, IInv, ClockInv
<1>2. TypeOK'
  BY <1>1 DEF Typed, TypeOK, Idle, world
<1>3. DueInv'
  BY <1>1 DEF Typed, DueInv, Idle
<1> QED
  BY <1>2, <1>3 DEF Typed

\* A sweep only takes up exposures, and gives each flag a grade.
LEMMA SweepTyped == ASSUME Typed, IInv', StartSweep \/ FinishSweep \/ FailSweep PROVE Typed'
<1> USE CheckpointAssumption DEF Typed
<1>1. CASE StartSweep
  <2>1. PICK new \in Oldest({e \in Exposures : Unmeasured(e)}, sentAt) :
            sweep' = [at |-> now, gated |-> heartbeat, new |-> new]
    BY <1>1 DEF StartSweep
  <2>2. sweep' \in [at : Times \cup {Never}, gated : BOOLEAN, new : SUBSET Exposures]
    BY <2>1 DEF TypeOK, Oldest
  <2> QED
    BY <1>1, <2>2, StillTyped DEF StartSweep, world, outcomes, TypeOK
<1>2. CASE FinishSweep
  <2>1. sweep' \in [at : Times \cup {Never}, gated : BOOLEAN, new : SUBSET Exposures]
    BY <1>2 DEF FinishSweep, Resting
  <2>2. SweepRows \subseteq Exposures \X Sources
    <3>1. sweep.new \subseteq Exposures /\ "checkpoint" \in Sources
      BY DEF TypeOK, Sources
    <3> QED
      BY <3>1 DEF SweepRows, TypeOK
  <2>3. \A f \in Flag : \A e, h : Resolve(f, e, h) \in Flag
    BY DEF Resolve, Flag
  <2>4. flag' \in [Exposures -> [Sources -> [Horizons -> Flag]]]
    <3>1. PICK B \in Batch :
              flag' = [e \in Exposures |-> [s \in Sources |-> [h \in Horizons |->
                     IF <<e, s>> \in B THEN Resolve(flag[e][s][h], e, h) ELSE flag[e][s][h]]]]
      BY <1>2 DEF FinishSweep
    <3>2. \A e \in Exposures, s \in Sources, h \in Horizons : flag[e][s][h] \in Flag
      BY DEF TypeOK
    <3>3. \A e \in Exposures, s \in Sources, h \in Horizons :
              (IF <<e, s>> \in B THEN Resolve(flag[e][s][h], e, h) ELSE flag[e][s][h]) \in Flag
      BY <2>3, <3>2
    <3> QED
      BY <3>1, <3>3
  <2>5. rows' \subseteq Exposures \X Sources /\ UNCHANGED <<world, sentAt, checked, first, heartbeat, poller>>
    BY <1>2, <2>2 DEF FinishSweep
  <2> QED
    BY <2>1, <2>4, <2>5, StillTyped DEF world, TypeOK
<1>3. CASE FailSweep
  <2>1. sweep' \in [at : Times \cup {Never}, gated : BOOLEAN, new : SUBSET Exposures]
    BY <1>3 DEF FailSweep, Resting
  <2> QED
    BY <1>3, <2>1, StillTyped DEF FailSweep, world, outcomes, TypeOK
<1> QED
  BY <1>1, <1>2, <1>3

\* The world, and what other sources register.
LEMMA WorldTyped ==
    ASSUME Typed, IInv',
           \/ Tick \/ (\E p \in Pros : Visit(p)) \/ \E on \in BOOLEAN : SetLearning(on)
           \/ \E e \in Exposures : Click(e) \/ KeyByWinner(e) \/ \E t \in Times : Confirm(e, t)
    PROVE  Typed'
<1> USE CheckpointAssumption DEF Typed
<1>1. CASE Tick
  <2>1. now' \in Times
    BY <1>1 DEF Tick, TypeOK, Times
  <2>2. TypeOK'
    BY <1>1, <2>1 DEF Tick, TypeOK, outcomes, poller
  <2> QED
    BY <1>1, <2>2 DEF Tick, DueInv, poller
<1>2. ASSUME NEW p \in Pros, Visit(p) PROVE Typed'
  <2>1. visits' \in [Pros -> SUBSET Times]
    BY <1>2 DEF Visit, TypeOK
  <2> QED
    BY <1>2, <2>1, StillTyped DEF Visit, outcomes, TypeOK
<1>3. ASSUME NEW e \in Exposures, Click(e) \/ KeyByWinner(e) PROVE Typed'
  <2>1. rows' \subseteq Exposures \X Sources
    BY <1>3 DEF Click, KeyByWinner, Sources, TypeOK
  <2> QED
    BY <1>3, <2>1, StillTyped DEF Click, KeyByWinner, world, TypeOK
<1>4. ASSUME NEW e \in Exposures, NEW t \in Times, Confirm(e, t) PROVE Typed'
  <2>1. sentAt' \in [Exposures -> Times \cup {Never}]
    BY <1>4 DEF Confirm, ClockMayMove, TypeOK
  <2> QED
    BY <1>4, <2>1, StillTyped DEF Confirm, world, outcomes, TypeOK
<1>5. ASSUME NEW on \in BOOLEAN, SetLearning(on) PROVE Typed'
  BY <1>5, StillTyped DEF SetLearning, outcomes, TypeOK
<1> QED
  BY <1>1, <1>2, <1>3, <1>4, <1>5

\* Types: however far a window reaches back, what a tick stamps is a time that was,
\* and the rows of found returns carry times and grades.
THEOREM CheckpointTyped == Spec => []TypeOK
<1>1. Init => Typed
  BY TypedInit
<1>2. ASSUME Typed, [Next]_vars PROVE Typed'
  <2>1. IInv'
    BY <1>2, StepInv DEF Typed
  <2>2. CASE UNCHANGED vars
    BY <1>2, <2>1, <2>2, StillTyped DEF Typed, TypeOK, vars, world, outcomes
  <2> QED
    BY <1>2, <2>1, <2>2, WorldTyped, StartTyped, StampTyped, LookupTyped, LeaveTyped, SweepTyped
    DEF Next, Poll
<1>3. Typed => TypeOK
  BY DEF Typed
<1> QED
  BY <1>1, <1>2, <1>3, PTL DEF Spec
=============================================================================
