------------------------------ MODULE SendPoller ------------------------------
(***************************************************************************)
(* The poller of sends and clicks (waypoint/iterable_source.py) and its    *)
(* durable cursor (waypoint/cursors.py): a tick exports the window after   *)
(* the cursor, registers its sends as exposures, ingests its clicks and    *)
(* bounces, and only then moves the cursor.  A tick may fail or die after  *)
(* each commit; what it repeats must not fork, what it skips is lost.      *)
(***************************************************************************)
EXTENDS Integers, FiniteSets

CONSTANTS
    Sends,         \* messages of the project
    Stamped,       \* those that carry a run of the LCM
    Malformed,     \* those without recipient or time
    Lag, Catchup, MinWindow, Lookback, DeferLimit,   \* of iterable_source.py
    StartCursor,   \* the cursor saved so far, or Never
    MaxFlips,      \* bound: changes of the learning switch
    MaxNow         \* bound: time

Never == -1
Times == 0..MaxNow

ASSUME PollerAssumption ==
    /\ Stamped \subseteq Sends /\ Malformed \subseteq Sends
    /\ Lag \in Nat /\ MinWindow \in Nat \ {0} /\ Catchup >= MinWindow /\ Catchup \in Nat
    /\ Lookback \in Nat /\ DeferLimit \in Nat /\ MaxFlips \in Nat /\ MaxNow \in Nat
    /\ StartCursor \in {0, Never}

VARIABLES
    now,
    sentAt, clickedAt,   \* when a message was sent, when it was clicked or bounced
    visibleAt,           \* since when the winner of its (run, pro) is recorded
    cursor,              \* the iterable row of poll_cursors
    exposure,            \* the exposure of a message: none, linked or unlinked
    outcome,             \* messages with an outcome row
    rejected,            \* history: clicks of a window whose export was a 400
    killed, flips,       \* fleet_control.learning_killed
    pc, win, deferred    \* the tick, its window, and whether a send of it waits

events == <<sentAt, clickedAt, visibleAt>>
switch == <<killed, flips>>
tick == <<pc, win, deferred>>
vars == <<now, events, cursor, exposure, outcome, rejected, switch, tick>>

NoWindow == [at |-> Never, since |-> Never, until |-> Never]

Init ==
    /\ now = 0
    /\ sentAt = [m \in Sends |-> Never]
    /\ clickedAt = [m \in Sends |-> Never]
    /\ visibleAt = [m \in Sends |-> Never]
    /\ cursor = StartCursor
    /\ exposure = [m \in Sends |-> "none"]
    /\ outcome = {} /\ rejected = {}
    /\ killed = FALSE /\ flips = 0
    /\ pc = "idle" /\ win = NoWindow /\ deferred = FALSE

-----------------------------------------------------------------------------
(* The world.                                                              *)

Tick ==
    /\ now < MaxNow
    /\ now' = now + 1
    /\ UNCHANGED <<events, cursor, exposure, outcome, rejected, switch, tick>>

Send(m) ==
    /\ m \in Stamped /\ sentAt[m] = Never
    /\ sentAt' = [sentAt EXCEPT ![m] = now]
    /\ UNCHANGED <<now, clickedAt, visibleAt, cursor, exposure, outcome, rejected, switch, tick>>

Click(m) ==
    /\ sentAt[m] # Never /\ clickedAt[m] = Never
    /\ clickedAt' = [clickedAt EXCEPT ![m] = now]
    /\ UNCHANGED <<now, sentAt, visibleAt, cursor, exposure, outcome, rejected, switch, tick>>

\* Another message of the project, sent and clicked: when, matters to no one.
Unrelated(m) ==
    /\ m \notin Stamped /\ sentAt[m] = Never
    /\ sentAt' = [sentAt EXCEPT ![m] = now]
    /\ clickedAt' = [clickedAt EXCEPT ![m] = now]
    /\ UNCHANGED <<now, visibleAt, cursor, exposure, outcome, rejected, switch, tick>>

\* The winner is committed, or becomes visible, before or after its send.
WinnerVisible(m) ==
    /\ m \in Stamped /\ visibleAt[m] = Never
    /\ visibleAt' = [visibleAt EXCEPT ![m] = now]
    /\ UNCHANGED <<now, sentAt, clickedAt, cursor, exposure, outcome, rejected, switch, tick>>

FlipLearning ==
    /\ flips < MaxFlips
    /\ flips' = flips + 1 /\ killed' = ~killed
    /\ UNCHANGED <<now, events, cursor, exposure, outcome, rejected, tick>>

-----------------------------------------------------------------------------
(* One tick.                                                               *)

Since == IF cursor = Never THEN now - Lookback ELSE cursor

Until == IF now - Lag < Since + Catchup THEN now - Lag ELSE Since + Catchup

StartTick ==
    /\ pc = "idle" /\ ~killed
    /\ Until - Since >= MinWindow
    /\ win' = [at |-> now, since |-> Since, until |-> Until]
    /\ pc' = "sends"
    /\ UNCHANGED <<now, events, cursor, exposure, outcome, rejected, switch, deferred>>

\* An export of the window: everything old enough to be indexed, and any part
\* of the rest (times are whole: what happened in the unit of the window's end
\* may lie on either side of it).
Export(at) ==
    LET inside == {m \in Sends : at[m] # Never /\ win.since <= at[m] /\ at[m] <= win.until}
    IN {S \in SUBSET inside : \A m \in inside : at[m] < now - Lag => m \in S}

NeverDefers(m) == FALSE
AlwaysDefers(m) == m \in Stamped \ Malformed /\ visibleAt[m] = Never

\* A recent send whose winner is not visible yet waits for it.
Defers(m) ==
    m \in Stamped \ Malformed /\ visibleAt[m] = Never /\ sentAt[m] > win.at - DeferLimit

\* register: an exposure is new, or is linked once its winner is known.
Registered(m) ==
    IF exposure[m] = "linked" \/ visibleAt[m] # Never THEN "linked" ELSE "unlinked"

AnySend(S) == S \ Malformed

\* The gate of the run: a send that carries none is not of this system.
OfARun(S) == S \cap (Stamped \ Malformed)

RegisterSends ==
    /\ pc = "sends"
    /\ \E S \in Export(sentAt) :
          /\ exposure' = [m \in Sends |->
                IF m \in OfARun(S) /\ ~Defers(m) THEN Registered(m) ELSE exposure[m]]
          /\ deferred' = (\E m \in S : Defers(m))
    /\ pc' = "clicks"
    /\ UNCHANGED <<now, events, cursor, outcome, rejected, switch, win>>

\* _known_outcomes: a known exposure, or an event that carries the stamp.
Known(S) == {m \in S : exposure[m] # "none" \/ m \in Stamped}

HaveExposures(S) == \A m \in S : exposure[m] # "none"

IngestClicks ==
    /\ pc = "clicks"
    /\ \E S \in Export(clickedAt) :
          /\ HaveExposures(Known(S))
          /\ outcome' = outcome \cup Known(S)
    /\ pc' = "save"
    /\ UNCHANGED <<now, events, cursor, exposure, rejected, switch, win, deferred>>

\* An outcome whose exposure is not there is refused by the foreign key, with
\* the whole batch and the tick: a deferred send waits with its clicks.
RefuseClicks ==
    /\ pc = "clicks"
    /\ \E S \in Export(clickedAt) : ~HaveExposures(Known(S))
    /\ pc' = "idle" /\ win' = NoWindow /\ deferred' = FALSE
    /\ UNCHANGED <<now, events, cursor, exposure, outcome, rejected, switch>>

\* A 400 of an outcome type costs its events, not the tick.
RejectClicks ==
    /\ pc = "clicks"
    /\ rejected' = rejected \cup {m \in Sends : win.since <= clickedAt[m] /\ clickedAt[m] <= win.until}
    /\ pc' = "save"
    /\ UNCHANGED <<now, events, cursor, exposure, outcome, switch, win, deferred>>

MovesOn == win.until

\* The cursor holds when a send was deferred: its window is read again.
NextCursor == IF deferred THEN cursor ELSE win.until

SaveCursor ==
    /\ pc = "save"
    /\ cursor' = NextCursor
    /\ pc' = "idle" /\ win' = NoWindow /\ deferred' = FALSE
    /\ UNCHANGED <<now, events, exposure, outcome, rejected, switch>>

\* A request fails or the process dies.
FailTick ==
    /\ pc # "idle"
    /\ pc' = "idle" /\ win' = NoWindow /\ deferred' = FALSE
    /\ UNCHANGED <<now, events, cursor, exposure, outcome, rejected, switch>>

-----------------------------------------------------------------------------

Next ==
    \/ Tick \/ FlipLearning
    \/ \E m \in Sends : Send(m) \/ Click(m) \/ Unrelated(m) \/ WinnerVisible(m)
    \/ StartTick \/ RegisterSends \/ IngestClicks \/ RefuseClicks \/ RejectClicks \/ SaveCursor \/ FailTick

Spec == Init /\ [][Next]_vars

\* The loop comes back every POLL_SECONDS, the operator ends what he killed,
\* and the export does not fail for ever.
FairSpec ==
    /\ Spec
    /\ WF_vars(Tick) /\ WF_vars(FlipLearning /\ killed)
    /\ WF_vars(StartTick) /\ SF_vars(RegisterSends) /\ SF_vars(IngestClicks) /\ WF_vars(RefuseClicks) /\ SF_vars(SaveCursor)

-----------------------------------------------------------------------------
(* Properties.                                                             *)

\* Types of the events, the rows and the tick; traffic without the stamp of a
\* run is never stored.
TypeOK ==
    /\ now \in Times
    /\ {sentAt, clickedAt, visibleAt} \subseteq [Sends -> Times \cup {Never}]
    /\ cursor \in Times \cup {Never}
    /\ exposure \in [Sends -> {"none", "linked", "unlinked"}]
    /\ \A m \in Sends \ Stamped : exposure[m] = "none" /\ m \notin outcome
    /\ pc \in {"idle", "sends", "clicks", "save"}
    /\ deferred \in BOOLEAN

\* The cursor never passes an event it did not store: whatever failed or was
\* repeated, a send of a run that is older than the cursor has its exposure, and
\* a click its outcome, unless its export was rejected.
CursorIsHonest ==
    \A m \in Stamped \ Malformed :
        /\ sentAt[m] # Never /\ sentAt[m] < cursor => exposure[m] # "none"
        /\ clickedAt[m] # Never /\ clickedAt[m] < cursor => m \in outcome \cup rejected

\* A send is only given up as winner-less if its winner was not visible within
\* the deferral: the link, which no later tick would make, is not lost to a race
\* between the pipeline and the poller.
LateWinnersOnly ==
    \A m \in Sends :
        exposure[m] = "unlinked" => visibleAt[m] = Never \/ visibleAt[m] >= sentAt[m] + DeferLimit

\* One bogus run cannot stall the poller (the module's docstring): every send of
\* a run, its winner known or not, becomes an exposure in the end.
SendsAreRegistered ==
    \A m \in Stamped \ Malformed :
        sentAt[m] # Never /\ sentAt[m] + DeferLimit + MinWindow + Lag <= MaxNow
            ~> exposure[m] # "none"
=============================================================================
