-------------------------------- MODULE Handoff --------------------------------
(***************************************************************************)
(* The LCM boundary (waypoint/handoff.py) and who calls it: the trickle    *)
(* after each return of run_job (waypoint/worker.py), the operator's POST  *)
(* (waypoint/api.py), and the stamp of the audience lineage that both      *)
(* require (waypoint/pipeline.py).                                         *)
(*                                                                         *)
(* A step is one commit, one read whose result is used later, or one move  *)
(* of a POST: it may be lost, taken in part, taken after the sender gave   *)
(* up, or taken and its answer lost.  One run; its Pros are the rows, for  *)
(* a Pro has one winner at most.                                           *)
(***************************************************************************)
EXTENDS Integers, FiniteSets

CONSTANTS
    Pros, Workers,
    Operator,     \* a request of POST /api/runs/{run_id}/handoff
    Kinds,        \* the kinds of winner a Pro may get
    MaxLate,      \* bound: POSTs the LCM may still take after their sender gave up
    MaxJobs,      \* bound: attempts and finalizers under way at once
    Versions,     \* query versions the n8n flow may report
    Unresolved    \* PENDING_AUDIENCE_QUERY

Senders == Workers \cup {Operator}

\* A winner is sent by the LCM, sent but scored by a degraded panel (it carries
\* a panel_disclaimer), or left for a person to call.
WinnerKind == {"plain", "degraded", "call"}

ASSUME HandoffAssumption ==
    /\ Operator \notin Workers
    /\ Unresolved \notin Versions
    /\ MaxLate \in Nat /\ MaxJobs \in Nat
    /\ Kinds \in [Pros -> SUBSET WinnerKind]

VARIABLES
    stopped,      \* runs.status is stopped or failed
    lineage,      \* runs.audience_query
    winner,       \* the kind of the Pro's winner, once there is one
    measured,     \* Pros whose winner has a measurement plan
    receipt,      \* handoffs.status, "none" without a row
    job,          \* where the attempt at a Pro, or its run's finalizer, is
    pc, scope,    \* where a sender is, and the Pros it may send
    absent,       \* rows it read as having no receipt row yet
    todo,         \* rows it takes for unanswered
    reply,        \* the per-row answer it received
    wire,         \* batches under way to the LCM
    decision,     \* what the LCM made of a row
    asked         \* degraded winners the operator asked to send

runVars == <<stopped, lineage>>
jobVars == <<winner, measured, job>>
localVars == <<pc, scope, absent, todo, reply>>
lcmVars == <<wire, decision>>
vars == <<runVars, jobVars, receipt, localVars, lcmVars, asked>>

Answered == {"accepted", "rejected", "duplicate"}
Pc == {"idle", "check", "ready", "insert", "post", "wait", "record"}

Init ==
    /\ stopped = FALSE
    /\ lineage = Unresolved
    /\ winner = [p \in Pros |-> "none"]
    /\ measured = {}
    /\ receipt = [p \in Pros |-> "none"]
    /\ job = [p \in Pros |-> "queued"]
    /\ pc = [x \in Senders |-> "idle"]
    /\ scope = [x \in Senders |-> {}]
    /\ absent = [x \in Senders |-> {}]
    /\ todo = [x \in Senders |-> {}]
    /\ reply = [x \in Senders |-> <<>>]
    /\ wire = {}
    /\ decision = [p \in Pros |-> "undecided"]
    /\ asked = {}

-----------------------------------------------------------------------------
(* The run: attempts, status, lineage, winners.                            *)

MayBegin == Cardinality({p \in Pros : job[p] # "queued"}) < MaxJobs

\* store.load reads a run that is not over.
LoadRun(p) ==
    /\ job[p] = "queued" /\ ~stopped /\ MayBegin
    /\ job' = [job EXCEPT ![p] = "loaded"]
    /\ UNCHANGED <<runVars, winner, measured, receipt, localVars, lcmVars, asked>>

\* The attempt writes its live status over whatever the run has become, unless
\* the row it loaded had that status already.
SetRunning(p) ==
    /\ job[p] = "loaded"
    /\ job' = [job EXCEPT ![p] = "fetch"]
    /\ stopped' \in {stopped, FALSE}
    /\ UNCHANGED <<lineage, winner, measured, receipt, localVars, lcmVars, asked>>

\* Without the context the job is requeued and the run waits, over a stop too.
ContextDown(p) ==
    /\ job[p] = "fetch"
    /\ job' = [job EXCEPT ![p] = "queued"]
    /\ stopped' = FALSE
    /\ UNCHANGED <<lineage, winner, measured, receipt, localVars, lcmVars, asked>>

\* The placeholder is looked for in the row as loaded, which need not be what the
\* row holds by now; a row that holds it still was loaded with it.
Stamped(v) ==
    IF v = Unresolved THEN {lineage} ELSE IF lineage = Unresolved THEN {v} ELSE {lineage, v}

\* The context arrives, with the version v or without one.
Fetch(p, v) ==
    /\ job[p] = "fetch"
    /\ job' = [job EXCEPT ![p] = "stages"]
    /\ lineage' \in Stamped(v)
    /\ UNCHANGED <<stopped, winner, measured, receipt, localVars, lcmVars, asked>>

\* The score stage records the winner, the measure stage its plan.
Advance(p) ==
    /\ job[p] = "stages"
    /\ \/ /\ winner[p] = "none"
          /\ \E k \in Kinds[p] : winner' = [winner EXCEPT ![p] = k]
          /\ UNCHANGED measured
       \/ /\ winner[p] # "none" /\ p \notin measured
          /\ measured' = measured \cup {p}
          /\ UNCHANGED winner
    /\ UNCHANGED <<runVars, receipt, job, localVars, lcmVars, asked>>

\* finalize_run, at the end of an attempt or from the worker's idle beat, reads the
\* run afresh and leaves one that is over alone ...
Aggregate(p) ==
    /\ job[p] \in {"fetch", "stages"} \/ (job[p] = "queued" /\ MayBegin)
    /\ ~stopped
    /\ job' = [job EXCEPT ![p] = "verdict"]
    /\ UNCHANGED <<runVars, winner, measured, receipt, localVars, lcmVars, asked>>

\* ... and writes its verdict over what the run has become since: failed, or one
\* that lets winners ship.
Conclude(p) ==
    /\ job[p] = "verdict"
    /\ job' = [job EXCEPT ![p] = "queued"]
    /\ stopped' \in BOOLEAN
    /\ UNCHANGED <<lineage, winner, measured, receipt, localVars, lcmVars, asked>>

\* run_job has returned, finished, stopped or requeued, or found the run over: the
\* worker trickles, and the job may be claimed again meanwhile.
RunJobReturns(w, p) ==
    /\ job[p] \in {"stages", "queued"} /\ pc[w] = "idle"
    /\ job' = [job EXCEPT ![p] = "queued"]
    /\ pc' = [pc EXCEPT ![w] = "check"]
    /\ scope' = [scope EXCEPT ![w] = {p}]
    /\ UNCHANGED <<runVars, winner, measured, receipt, absent, todo, reply, lcmVars, asked>>

\* kill_run, or an attempt that finds the fleet killed or the budget exhausted.
Stop ==
    /\ ~stopped
    /\ stopped' = TRUE
    /\ UNCHANGED <<lineage, jobVars, receipt, localVars, lcmVars, asked>>

OperatorAsks ==
    /\ pc[Operator] = "idle"
    /\ pc' = [pc EXCEPT ![Operator] = "check"]
    /\ scope' = [scope EXCEPT ![Operator] = Pros]
    /\ UNCHANGED <<runVars, jobVars, receipt, absent, todo, reply, lcmVars, asked>>

-----------------------------------------------------------------------------
(* One push.                                                               *)

\* The call returns or raises, or its process dies.
Leave(x) ==
    /\ pc' = [pc EXCEPT ![x] = "idle"]
    /\ scope' = [scope EXCEPT ![x] = {}]
    /\ absent' = [absent EXCEPT ![x] = {}]
    /\ todo' = [todo EXCEPT ![x] = {}]
    /\ reply' = [reply EXCEPT ![x] = <<>>]

NeverWithheld(x) == FALSE
Withheld(x) == x \in Workers /\ stopped

\* The run's row is read once: only the trickle looks at its status, both at
\* its lineage.
CheckRun(x) ==
    /\ pc[x] = "check"
    /\ \/ /\ Withheld(x) \/ lineage = Unresolved
          /\ Leave(x)
       \/ /\ ~Withheld(x) /\ lineage # Unresolved
          /\ pc' = [pc EXCEPT ![x] = "ready"]
          /\ UNCHANGED <<scope, absent, todo, reply>>
    /\ UNCHANGED <<runVars, jobVars, receipt, lcmVars, asked>>

WithDegraded(x) == {p \in scope[x] : p \in measured /\ winner[p] # "call"}

\* ready_rows: the trickle holds degraded winners back for the operator.
ReadyRows(x) ==
    {p \in scope[x] : /\ p \in measured /\ winner[p] # "call"
                      /\ x = Operator \/ winner[p] # "degraded"}

NeverTried(R) == {p \in R : receipt[p] = "none"}
Unanswered(R) == {p \in R : receipt[p] \notin Answered}

\* The ready rows and, by _load_existing, their receipts, which stay in the
\* session as they are read here.
ReadReady(x) ==
    LET missing == {p \in ReadyRows(x) : receipt[p] = "none"}
        pending == Unanswered(ReadyRows(x))
    IN
    /\ pc[x] = "ready"
    /\ asked' = IF x = Operator THEN asked \cup {p \in ReadyRows(x) : winner[p] = "degraded"} ELSE asked
    /\ \/ missing \cup pending = {} /\ Leave(x)
       \/ /\ missing \cup pending # {}
          /\ absent' = [absent EXCEPT ![x] = missing]
          /\ todo' = [todo EXCEPT ![x] = pending]
          /\ pc' = [pc EXCEPT ![x] = IF missing = {} THEN "post" ELSE "insert"]
          /\ UNCHANGED <<scope, reply>>
    /\ UNCHANGED <<runVars, jobVars, receipt, lcmVars>>

DoUpdate(p) == "pending"
DoNothing(p) == IF receipt[p] = "none" THEN "pending" ELSE receipt[p]

\* INSERT ... ON CONFLICT DO NOTHING, committed before the POST.  Rows read as
\* absent are read again, the others are as they were loaded.
InsertPending(x) ==
    LET again == absent[x] \cap Unanswered(absent[x])
        send  == (todo[x] \ absent[x]) \cup again
    IN
    /\ pc[x] = "insert"
    /\ receipt' = [p \in Pros |-> IF p \in absent[x] THEN DoNothing(p) ELSE receipt[p]]
    /\ \/ send = {} /\ Leave(x)
       \/ /\ send # {}
          /\ todo' = [todo EXCEPT ![x] = send]
          /\ absent' = [absent EXCEPT ![x] = {}]
          /\ pc' = [pc EXCEPT ![x] = "post"]
          /\ UNCHANGED <<scope, reply>>
    /\ UNCHANGED <<runVars, jobVars, lcmVars, asked>>

Post(x) ==
    /\ pc[x] = "post"
    /\ wire' = wire \cup {[from |-> x, rows |-> todo[x]]}
    /\ pc' = [pc EXCEPT ![x] = "wait"]
    /\ UNCHANGED <<runVars, jobVars, receipt, scope, absent, todo, reply,
                   decision, asked>>

\* What the LCM, idempotent per (batch, row_id), may tell the sender of a row it
\* decided: a refusal may be worded in a way Pathfinder does not know.
Told(p, d) ==
    CASE decision[p] = "accepted" -> {"duplicate"}
      [] decision[p] = "undecided" /\ d[p] = "accepted" -> {"accepted"}
      [] d[p] = "rejected" -> {"rejected", "invalid"}

\* The LCM takes the rows R of a batch; if it took them all it may answer.
Take(m, R) ==
    /\ m \in wire /\ R \subseteq m.rows
    /\ wire' = wire \ {m}
    /\ \E d \in [R -> {"accepted", "rejected"}] :
          /\ \A p \in R : decision[p] # "undecided" => d[p] = decision[p]
          /\ decision' = [p \in Pros |-> IF p \in R THEN d[p] ELSE decision[p]]
          /\ \/ UNCHANGED <<pc, reply>>
             \/ /\ R = m.rows /\ pc[m.from] = "wait" /\ todo[m.from] = R
                /\ \E told \in [R -> Answered \cup {"invalid"}] :
                      /\ \A p \in R : told[p] \in Told(p, d)
                      /\ reply' = [reply EXCEPT ![m.from] = told]
                /\ pc' = [pc EXCEPT ![m.from] = "record"]
    /\ UNCHANGED <<runVars, jobVars, receipt, scope, absent, todo, asked>>

Late == {m \in wire : ~(pc[m.from] = "wait" /\ todo[m.from] = m.rows)}

\* A timeout, a batch-level failure or an answer without every row: the whole
\* batch stays pending, and the LCM may take it later.
Unavailable(x) ==
    /\ pc[x] = "wait"
    /\ \/ wire' = wire \ {[from |-> x, rows |-> todo[x]]}
       \/ Cardinality(Late) < MaxLate /\ UNCHANGED wire
    /\ Leave(x)
    /\ UNCHANGED <<runVars, jobVars, receipt, decision, asked>>

AsTold(answer) == answer

\* _receipt_status: an answer that is not understood is a rejection.
ReceiptStatus(answer) == IF answer \in Answered THEN answer ELSE "rejected"

\* The receipts are written by id over what the rows hold by now.
Record(x) ==
    /\ pc[x] = "record"
    /\ receipt' = [p \in Pros |-> IF p \in todo[x] THEN ReceiptStatus(reply[x][p]) ELSE receipt[p]]
    /\ Leave(x)
    /\ UNCHANGED <<runVars, jobVars, lcmVars, asked>>

\* The process dies with the answer in hand.  Anywhere else it leaves what a
\* push that was Unavailable, or never began, leaves.
Crash(x) ==
    /\ pc[x] = "record"
    /\ Leave(x)
    /\ UNCHANGED <<runVars, jobVars, receipt, lcmVars, asked>>

-----------------------------------------------------------------------------

Push(x) ==
    CheckRun(x) \/ ReadReady(x) \/ InsertPending(x) \/ Post(x) \/ Record(x)

Attempt(p) ==
    \/ LoadRun(p) \/ SetRunning(p) \/ ContextDown(p) \/ Advance(p) \/ Aggregate(p) \/ Conclude(p)
    \/ \E v \in Versions \cup {Unresolved} : Fetch(p, v)

Next ==
    \/ \E p \in Pros : Attempt(p) \/ \E w \in Workers : RunJobReturns(w, p)
    \/ \E x \in Senders : Push(x) \/ Unavailable(x) \/ Crash(x)
    \/ \E m \in wire : \E R \in SUBSET m.rows : Take(m, R)
    \/ Stop \/ OperatorAsks

Spec == Init /\ [][Next]_vars

\* The LCM takes the operator's whole batch and its answer arrives.
Answers == \E m \in wire : m.from = Operator /\ Take(m, m.rows) /\ pc'[Operator] = "record"

\* The operator keeps asking, the client times out, and the boundary is not down,
\* nor the API restarted, every time: asking again is the documented recovery.
FairSpec ==
    /\ Spec
    /\ WF_vars(OperatorAsks) /\ WF_vars(Push(Operator)) /\ WF_vars(Unavailable(Operator))
    /\ SF_vars(Answers) /\ SF_vars(Record(Operator))

-----------------------------------------------------------------------------
(* Properties.                                                             *)

\* Types of the rows, of what a sender holds and of the batches under way.
TypeOK ==
    /\ stopped \in BOOLEAN
    /\ lineage \in Versions \cup {Unresolved}
    /\ winner \in [Pros -> WinnerKind \cup {"none"}]
    /\ measured \subseteq {p \in Pros : winner[p] # "none"}
    /\ receipt \in [Pros -> {"none", "pending"} \cup Answered]
    /\ job \in [Pros -> {"queued", "loaded", "fetch", "stages", "verdict"}]
    /\ pc \in [Senders -> Pc]
    /\ scope \in [Senders -> SUBSET Pros]
    /\ absent \in [Senders -> SUBSET Pros] /\ todo \in [Senders -> SUBSET Pros]
    /\ \A x \in Senders : DOMAIN reply[x] \subseteq Pros
    /\ wire \subseteq [from : Senders, rows : SUBSET Pros]
    /\ decision \in [Pros -> {"undecided", "accepted", "rejected"}]
    /\ asked \subseteq Pros

\* Whatever is retried, lost or pushed twice at once, the LCM only ever decides
\* winners that may ship: measured, not a phone call, of a run whose lineage is
\* resolved, and a degraded one only if the operator asked for it.
OnlyShippable ==
    \A p \in Pros : decision[p] # "undecided" =>
        /\ p \in measured /\ winner[p] # "call"
        /\ lineage # Unresolved
        /\ winner[p] = "degraded" => p \in asked

\* Of the run as it was before the stop, nobody is still to write a status ...
NobodyRevives == \A p \in Pros : job[p] \notin {"loaded", "fetch", "verdict"}

\* ... nor is a push past its check, or one of the operator's under way.
Quiet ==
    /\ stopped /\ NobodyRevives
    /\ \A x \in Senders : pc[x] \in {"idle", "check"} /\ (x = Operator => pc[x] = "idle")
    /\ wire = {}

\* A stopped run ships no more by itself (push_ready_winners: "An operator kill ...
\* must keep working"): once the pushes that had passed their check are over, and
\* the attempts and finalizers that had read the run before the stop, which write
\* their own status over it, have written, the run stays stopped and nothing
\* reaches the wire unless the operator asks, whatever is claimed, swept or
\* finished after that.
StopWithholds == [][Quiet /\ pc[Operator] = pc'[Operator] => Quiet']_vars

\* The boundary implements Intake: a row is decided at most once and only after
\* its durable row, and a receipt agrees with the decision; a duplicate is a
\* row that was accepted.
Promise == INSTANCE Intake WITH
    Rows <- Pros,
    receipt <- [p \in Pros |-> IF receipt[p] = "duplicate" THEN "accepted" ELSE receipt[p]]

ImplementsIntake == Promise!Spec

\* Asking again heals every failure: a winner that may ship gets its answer, if
\* the operator keeps asking and the LCM does not fail for ever.
RetriesDeliver ==
    \A p \in Pros :
        p \in measured /\ winner[p] # "call" /\ lineage # Unresolved ~> receipt[p] \in Answered
=============================================================================
