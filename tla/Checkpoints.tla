----------------------------- MODULE Checkpoints -----------------------------
(***************************************************************************)
(* How the silence of a Pro becomes a measured negative: the return poller *)
(* (waypoint/amplitude_source.py) fetches the activity of the Pros with a  *)
(* closed horizon and stamps how far it looked; the checkpoint sweep       *)
(* (waypoint/checkpoints.py) grades the horizons the stamp covers.  Both   *)
(* are loops of the worker process (waypoint/worker.py).                   *)
(*                                                                         *)
(* A step is one commit, or one read whose result is used later.  Time is  *)
(* counted in a unit that divides the horizons and GRACE.                  *)
(***************************************************************************)
EXTENDS Integers, FiniteSets

CONSTANTS
    Exposures,
    Pros, ProOf,
    Horizons,       \* lengths of the return windows
    Grace,          \* GRACE: no event is indexed later than this
    Limit,          \* CHECKPOINT_LIMIT: rows a sweep takes
    MaxVisits,      \* bound: visits of a Pro
    MaxNow          \* bound: time

ASSUME CheckpointAssumption ==
    /\ ProOf \in [Exposures -> Pros]
    /\ Horizons \in SUBSET (Nat \ {0}) /\ Horizons # {}
    /\ Grace \in Nat \ {0} /\ Limit \in Nat \ {0} /\ MaxVisits \in Nat /\ MaxNow \in Nat

VARIABLES
    now,
    visits,      \* when a Pro used the app
    sentAt,      \* exposures.sent_at once the send is confirmed, Never before
    checked,     \* exposures.returns_checked_at
    rows,        \* touch_outcomes of the exposures: <<exposure, source>>
    first,       \* first_return_at of the amplitude row
    flag,        \* returned_1d, ... of a row
    learning,    \* fleet_control.learning_killed is off
    heartbeat,   \* the amplitude row of poll_cursors exists
    tick,        \* the return poller: its clock, the exposures it found due
    stamps,      \* exposures it looked up and has still to stamp
    sweep        \* the sweep: its clock, whether gated, what to synthesize

world == <<now, visits, learning>>
outcomes == <<rows, first, flag>>
poller == <<tick, stamps>>
vars == <<world, sentAt, checked, outcomes, heartbeat, poller, sweep>>

Never == -1
Times == 0..MaxNow

\* Rows keyed by the exposure, and one keyed by its winner that came before the
\* exposure and has no link to it.
Sources == {"iterable", "amplitude", "checkpoint", "winner"}
Flag == {"unresolved", "yes", "no"}

First(S) == CHOOSE h \in S : \A g \in S : h <= g
Last(S) == CHOOSE h \in S : \A g \in S : g <= h
Window == Last(Horizons)
Idle == [at |-> Never, due |-> {}]
Resting == [at |-> Never, gated |-> FALSE, new |-> {}]

Init ==
    /\ now = 0
    /\ visits = [p \in Pros |-> {}]
    /\ learning = TRUE
    /\ sentAt = [e \in Exposures |-> Never]
    /\ checked = [e \in Exposures |-> Never]
    /\ rows = {}
    /\ first = [e \in Exposures |-> Never]
    /\ flag = [e \in Exposures |-> [s \in Sources |-> [h \in Horizons |-> "unresolved"]]]
    /\ heartbeat \in BOOLEAN
    /\ tick = Idle
    /\ stamps = {}
    /\ sweep = Resting

-----------------------------------------------------------------------------
(* The world, and the exposures the other sources register.                *)

\* Bound: learning is on at the end of time.
Tick ==
    /\ now < MaxNow /\ (learning \/ now + 1 < MaxNow)
    /\ now' = now + 1
    /\ UNCHANGED <<visits, learning, sentAt, checked, outcomes, heartbeat, poller, sweep>>

\* Bound: not at the end of time, when no window it falls in can close any more.
Visit(p) ==
    /\ Cardinality(visits[p]) < MaxVisits /\ now < MaxNow
    /\ visits' = [visits EXCEPT ![p] = @ \cup {now}]
    /\ UNCHANGED <<now, learning, sentAt, checked, outcomes, heartbeat, poller, sweep>>

\* LEARNING_KILL_SWITCH is applied when a process starts.
SetLearning(on) ==
    /\ learning # on
    /\ on \/ now < MaxNow
    /\ learning' = on
    /\ UNCHANGED <<now, visits, sentAt, checked, outcomes, heartbeat, poller, sweep>>

AlwaysMoves(e) == TRUE

\* Only a send that is not confirmed yet takes its clock from a report.
ClockMayMove(e) == sentAt[e] = Never

\* A report of the send, confirmed at t, perhaps later than it happened; another
\* may follow that dates it otherwise (exposures.register).
Confirm(e, t) ==
    /\ t <= now
    /\ sentAt' = [sentAt EXCEPT ![e] = IF ClockMayMove(e) THEN t ELSE @]
    /\ UNCHANGED <<world, checked, outcomes, heartbeat, poller, sweep>>

\* A click or a bounce is ingested under the exposure.
Click(e) ==
    /\ sentAt[e] # Never
    /\ rows' = rows \cup {<<e, "iterable">>}
    /\ UNCHANGED <<world, sentAt, checked, first, flag, heartbeat, poller, sweep>>

\* An outcome is ingested under the winner before the exposure is registered; its
\* send is the same, and so is its clock.
KeyByWinner(e) ==
    /\ sentAt[e] = Never
    /\ rows' = rows \cup {<<e, "winner">>}
    /\ UNCHANGED <<world, sentAt, checked, first, flag, heartbeat, poller, sweep>>

-----------------------------------------------------------------------------
(* The return poller.                                                      *)

\* _due_horizon: some window is closed, plus Grace, and not proved fetched.
DueHorizon(e) ==
    \E h \in Horizons : sentAt[e] + h + Grace <= now /\ checked[e] < sentAt[e] + h

Untouched(e) == sentAt[e] # Never /\ (\A s \in Sources : <<e, s>> \notin rows) /\ DueHorizon(e)

\* A found return settles every horizon.
DueExposure(e) ==
    /\ sentAt[e] # Never /\ <<e, "amplitude">> \notin rows
    /\ DueHorizon(e)

StartPoll ==
    /\ tick = Idle /\ learning
    /\ tick' = [at |-> now, due |-> {e \in Exposures : DueExposure(e)}]
    /\ UNCHANGED <<world, sentAt, checked, outcomes, heartbeat, stamps, sweep>>

\* useractivity answers newest first with everything that happened, but for what
\* is younger than Grace, of which it may have any part.  An out-paged lookup
\* ends at some page, and what is older is not seen.
MayHaveSeen(p, S, covered) ==
    \E from \in IF covered THEN {0} ELSE Times :
        /\ S \subseteq {v \in visits[p] : from <= v}
        /\ \A v \in visits[p] : from <= v /\ v <= now - Grace => v \in S

InWindow(e, S) == {v \in S : sentAt[e] <= v /\ v <= sentAt[e] + Window}

\* derive_checkpoint_flags
Derived(e, v, h) == IF v - sentAt[e] <= h THEN "yes" ELSE "no"

\* One Pro of the tick: the lookup covers its history or is out-paged; what is
\* found is ingested, in a commit of its own.
Lookup(p, S, covered) ==
    LET mine  == {e \in tick.due : ProOf[e] = p}
        found == {e \in mine : InWindow(e, S) # {}}
    IN
    /\ stamps = {} /\ mine # {} /\ MayHaveSeen(p, S, covered)
    /\ rows' = rows \cup {<<e, "amplitude">> : e \in found}
    /\ first' = [e \in Exposures |-> IF e \in found THEN First(InWindow(e, S)) ELSE first[e]]
    /\ flag' = [e \in Exposures |->
                  IF e \notin found THEN flag[e]
                  ELSE [flag[e] EXCEPT !["amplitude"] = [h \in Horizons |-> Derived(e, first'[e], h)]]]
    /\ tick' = [tick EXCEPT !.due = @ \ mine]
    /\ stamps' = IF covered THEN mine ELSE {}
    /\ UNCHANGED <<world, sentAt, checked, heartbeat, sweep>>

\* No exact match in usersearch, or a back-off: the Pro is passed over.
PassOver(p) ==
    /\ stamps = {} /\ \E e \in tick.due : ProOf[e] = p
    /\ tick' = [tick EXCEPT !.due = {e \in @ : ProOf[e] # p}]
    /\ UNCHANGED <<world, sentAt, checked, outcomes, heartbeat, stamps, sweep>>

AheadOfNow == tick.at + Grace
Reach == tick.at - Grace

Stamp ==
    /\ stamps # {}
    /\ checked' = [e \in Exposures |-> IF e \in stamps THEN Reach ELSE checked[e]]
    /\ stamps' = {}
    /\ UNCHANGED <<world, sentAt, outcomes, heartbeat, tick, sweep>>

\* The loop over the Pros is over or out of budget: only now the heartbeat.
EndPoll ==
    /\ tick # Idle /\ stamps = {}
    /\ heartbeat' = TRUE
    /\ tick' = Idle
    /\ UNCHANGED <<world, sentAt, checked, outcomes, stamps, sweep>>

\* A request fails or the process dies.
FailPoll ==
    /\ tick # Idle
    /\ tick' = Idle /\ stamps' = {}
    /\ UNCHANGED <<world, sentAt, checked, outcomes, heartbeat, sweep>>

-----------------------------------------------------------------------------
(* The sweep.                                                              *)

Unmeasured(e) ==
    /\ sentAt[e] # Never /\ sentAt[e] + First(Horizons) + Grace <= now
    /\ \A s \in Sources : <<e, s>> \notin rows

\* At most Limit of the rows, those of the oldest sends.
Oldest(able, sent) ==
    {S \in SUBSET able :
        /\ Cardinality(S) = IF Cardinality(able) <= Limit THEN Cardinality(able) ELSE Limit
        /\ \A r \in S, q \in able \ S : sent[r] <= sent[q]}

\* The switch, the gate and the exposures without any row are read first.
StartSweep ==
    /\ sweep = Resting /\ learning
    /\ \E new \in Oldest({e \in Exposures : Unmeasured(e)}, sentAt) :
          sweep' = [at |-> now, gated |-> heartbeat, new |-> new]
    /\ UNCHANGED <<world, sentAt, checked, outcomes, heartbeat, poller>>

SweepRows == rows \cup {<<e, "checkpoint">> : e \in sweep.new}

\* A gated sweep takes only rows whose exposure has a stamp.
Sweepable(r) ==
    /\ sentAt[r[1]] # Never
    /\ sentAt[r[1]] + First(Horizons) + Grace <= sweep.at
    /\ \E h \in Horizons : flag[r[1]][r[2]][h] = "unresolved"
    /\ sweep.gated => r[2] # "winner" /\ checked[r[1]] # Never

Batch == Oldest({r \in SweepRows : Sweepable(r)}, [r \in SweepRows |-> sentAt[r[1]]])

WindowClosed(e, h) == sentAt[e] + h + Grace <= sweep.at

\* _due_horizons
Due(e, h) ==
    /\ sentAt[e] + h + Grace <= sweep.at
    /\ sweep.gated => sentAt[e] + h <= checked[e]

Resolve(f, e, h) == IF f = "unresolved" /\ Due(e, h) THEN "no" ELSE f

\* The rows are locked, graded by the stamps of now, and committed.
FinishSweep ==
    /\ sweep # Resting
    /\ \E S \in Batch :
          flag' = [e \in Exposures |-> [s \in Sources |-> [h \in Horizons |->
                     IF <<e, s>> \in S THEN Resolve(flag[e][s][h], e, h) ELSE flag[e][s][h]]]]
    /\ rows' = SweepRows
    /\ sweep' = Resting
    /\ UNCHANGED <<world, sentAt, checked, first, heartbeat, poller>>

\* A sibling synthesized the same row first, or the process dies: all is undone.
FailSweep ==
    /\ sweep # Resting
    /\ sweep' = Resting
    /\ UNCHANGED <<world, sentAt, checked, outcomes, heartbeat, poller>>

-----------------------------------------------------------------------------

Poll ==
    \/ StartPoll \/ Stamp \/ EndPoll \/ FailPoll
    \/ \E p \in Pros : PassOver(p) \/ \E S \in SUBSET visits[p], c \in BOOLEAN : Lookup(p, S, c)

Next ==
    \/ Tick \/ (\E p \in Pros : Visit(p)) \/ \E on \in BOOLEAN : SetLearning(on)
    \/ \E e \in Exposures : Click(e) \/ KeyByWinner(e) \/ \E t \in Times : Confirm(e, t)
    \/ Poll
    \/ StartSweep \/ FinishSweep \/ FailSweep

Spec == Init /\ [][Next]_vars

Covered(p) == \E S \in SUBSET visits[p] : Lookup(p, S, TRUE)

\* The loops come back every POLL_SECONDS and CHECKPOINT_SECONDS, and a request
\* does not fail, nor an identity stay unresolved or a Pro out-paged, for ever;
\* nor is measurement switched off for ever; time goes on however often it is.
FairSpec ==
    /\ Spec
    /\ SF_vars(Tick) /\ WF_vars(SetLearning(TRUE))
    /\ WF_vars(StartPoll) /\ SF_vars(Stamp) /\ SF_vars(EndPoll)
    /\ \A p \in Pros : SF_vars(Covered(p))
    /\ WF_vars(StartSweep) /\ SF_vars(FinishSweep)

-----------------------------------------------------------------------------
(* Properties.                                                             *)

\* Types of the exposures, of their rows and of what the two loops hold.
TypeOK ==
    /\ now \in Times
    /\ visits \in [Pros -> SUBSET Times]
    /\ sentAt \in [Exposures -> Times \cup {Never}]
    /\ checked \in [Exposures -> Times \cup {Never}]
    /\ rows \subseteq Exposures \X Sources
    /\ first \in [Exposures -> Times \cup {Never}]
    /\ flag \in [Exposures -> [Sources -> [Horizons -> Flag]]]
    /\ learning \in BOOLEAN /\ heartbeat \in BOOLEAN
    /\ tick.at \in Times \cup {Never} /\ tick.due \subseteq Exposures
    /\ stamps \subseteq Exposures
    /\ sweep \in [at : Times \cup {Never}, gated : BOOLEAN, new : SUBSET Exposures]

\* A stamp is honest: of a return up to the stamp, and in the window, there is
\* an amplitude row, however late it was indexed and whatever failed between
\* the ingest and the stamp.
CoverageIsHonest ==
    \A e \in Exposures :
        \A v \in visits[ProOf[e]] :
            /\ sentAt[e] # Never /\ sentAt[e] <= v
            /\ v <= checked[e] /\ v <= sentAt[e] + Window
            => <<e, "amplitude">> \in rows

ReturnedWithin(e, h) ==
    \E v \in visits[ProOf[e]] : sentAt[e] <= v /\ v <= sentAt[e] + h

\* No return is silently lost: once the poller has its heartbeat, a horizon is
\* swept to "no return" only if the Pro did not return in it or the amplitude
\* row of the send knows of the return.
NegativesAreProven ==
    [][\A e \in Exposures, s \in Sources, h \in Horizons :
          /\ sweep.gated /\ sweep' = Resting
          /\ flag[e][s][h] = "unresolved" /\ flag'[e][s][h] = "no"
          => ~ReturnedWithin(e, h) \/ <<e, "amplitude">> \in rows]_vars

\* Every confirmed send that has no row under its winner is measured in the end
\* at every horizon that closes in time, in one row or another.
SendsAreMeasured ==
    \A e \in Exposures, h \in Horizons :
        /\ sentAt[e] # Never /\ sentAt[e] + h + 2 * Grace <= MaxNow
        /\ <<e, "winner">> \notin rows
        ~> \E s \in Sources : flag[e][s][h] # "unresolved"
=============================================================================
