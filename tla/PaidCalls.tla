------------------------------ MODULE PaidCalls ------------------------------
(***************************************************************************)
(* Recorded paid calls and the two cost ledgers: MeteredLLM, RecordedCalls *)
(* and FleetSlots (waypoint/calls.py), the reservations of                 *)
(* waypoint/queue.py, and the recovery of calls a dead attempt left behind *)
(* (waypoint/pipeline.py).                                                 *)
(*                                                                         *)
(* Everything here commits on the calls session of an attempt, which no    *)
(* pipeline rollback undoes; a step is one commit, or one read whose       *)
(* result a later commit uses.  How jobs are claimed and end is the        *)
(* subject of RunLifecycle and kept to what the calls can see of it.       *)
(***************************************************************************)
EXTENDS Integers, FiniteSets, Functions

CONSTANTS
    Runs, Jobs, Keys, Workers,
    NoJob, NoKey, NoWorker,
    RunOf,        \* the run of a job
    JobOf,        \* the job whose attempts make a call
    StageOf,      \* the paid stage a call belongs to, 1..LastStage
    LastStage,
    Swallowed,    \* calls whose failure the pipeline survives
    Worst,        \* worst_case_cost of a call
    Costs,        \* what the provider may charge for it
    RoundWorst,   \* _round_worst_case
    CostLimit,    \* runs.cost_limit
    DayLimit,     \* fleet_control.day_cost_limit
    MaxSlots,     \* MAX_IN_FLIGHT_LLM_CALLS
    MaxAttempts,  \* jobs.max_attempts
    MaxDays,      \* bound: midnights that pass
    Killable,     \* runs an operator may kill
    SlowAt,       \* labels at which a live attempt may outlast its lease
    CrashAt       \* labels at which an attempt may die

VARIABLES
    open,         \* runs.status is neither stopped nor failed
    jobStatus, owner, lease, attempts,
    progress,     \* the paid stages jobs.checkpoint records
    row,          \* llm_calls.status
    actual,       \* llm_calls.actual_usd
    reserved,     \* runs.cost_reserved
    spent,        \* runs.cost_spent
    day,          \* fleet_control.day
    dayReserved,  \* fleet_control.day_cost_reserved
    today,        \* current_date
    slots,        \* workers whose connection holds an advisory lock
    paid,         \* what the provider charged the run
    pc, cur, stage,
    todo,         \* calls of the stage still to make
    key,          \* the call in hand
    stale,        \* rows abandon_stale read as pending
    cost          \* the cost of the answer in hand

jobVars == <<open, jobStatus, owner, lease, attempts, progress>>
rowVars == <<row, actual>>
runLedger == <<reserved, spent>>
dayLedger == <<day, dayReserved>>
outside == <<today, paid>>
localVars == <<cur, stage, todo, key, stale, cost>>
vars == <<jobVars, rowVars, runLedger, dayLedger, outside, slots, pc, localVars>>

-----------------------------------------------------------------------------

TerminalJob == {"done", "failed", "stopped"}
JobStatus == TerminalJob \cup {"queued", "running"}
CallStatus == {"none", "pending", "committed", "reconciled", "abandoned"}

\* From a passed guard to the first commit on the pipeline session, after the
\* last call, the heartbeat stays uncommitted and locks the job's row.
Guarded == {"preflight", "next", "reserve", "slot", "call", "refresh", "commit", "settle"}
Recovering == {"resolve", "abandon", "convert"}
Pc == Guarded \cup Recovering \cup {"idle", "fetch", "enter", "guard", "complete"}

\* A call in hand whose row the attempt believes to be pending.
InHand == {"slot", "call", "refresh", "commit"}

ASSUME CallsAssumption ==
    /\ RunOf \in [Jobs -> Runs]
    /\ JobOf \in [Keys -> Jobs]
    /\ LastStage \in Nat
    /\ StageOf \in [Keys -> 1..LastStage]
    /\ NoJob \notin Jobs /\ NoKey \notin Keys /\ NoWorker \notin Workers
    /\ IsFiniteSet(Keys) /\ Swallowed \subseteq Keys
    /\ Worst \in Nat /\ Costs \subseteq 0..Worst
    /\ RoundWorst \in Nat /\ CostLimit \in Nat /\ DayLimit \in Nat
    /\ MaxSlots \in Nat \ {0} /\ MaxAttempts \in Nat \ {0} /\ MaxDays \in Nat
    /\ Killable \subseteq Runs
    /\ SlowAt \subseteq Pc /\ CrashAt \subseteq Pc

Run(w) == RunOf[cur[w]]
JobsOf(r) == {j \in Jobs : RunOf[j] = r}
CallsOf(j) == {k \in Keys : JobOf[k] = j}
NeverLocked(j, w) == TRUE
JobRowFree(j, w) == \A v \in Workers \ {w} : ~(cur[v] = j /\ pc[v] \in Guarded)

Init ==
    /\ open = [r \in Runs |-> TRUE]
    /\ jobStatus = [j \in Jobs |-> "queued"]
    /\ owner = [j \in Jobs |-> NoWorker]
    /\ lease = [j \in Jobs |-> "none"]
    /\ attempts = [j \in Jobs |-> 0]
    /\ progress = [j \in Jobs |-> 0]
    /\ row = [k \in Keys |-> "none"]
    /\ actual = [k \in Keys |-> 0]
    /\ reserved = [r \in Runs |-> 0]
    /\ spent = [r \in Runs |-> 0]
    /\ day = 0 /\ dayReserved = 0 /\ today = 0
    /\ slots = {}
    /\ paid = [r \in Runs |-> 0]
    /\ pc = [w \in Workers |-> "idle"]
    /\ cur = [w \in Workers |-> NoJob]
    /\ stage = [w \in Workers |-> 0]
    /\ todo = [w \in Workers |-> {}]
    /\ key = [w \in Workers |-> NoKey]
    /\ stale = [w \in Workers |-> {}]
    /\ cost = [w \in Workers |-> 0]

-----------------------------------------------------------------------------
(* The ledgers.                                                            *)

NotBelowZero(n) == IF n < 0 THEN 0 ELSE n

\* The day ledger as RESERVE_DAY_SQL reads it: zero once the date has changed.
DayBase == IF day = today THEN dayReserved ELSE 0

\* The day's limit compared with what the ledger holds already.
FitsSoFar(r, amount) == open[r] /\ reserved[r] + amount <= CostLimit /\ DayBase <= DayLimit

\* RESERVE_RUN_SQL and RESERVE_DAY_SQL both find their row.
Fits(r, amount) ==
    /\ open[r]
    /\ reserved[r] + amount <= CostLimit
    /\ DayBase + amount <= DayLimit

\* reserve_cost, when it fits.
Hold(r, amount) ==
    /\ reserved' = [reserved EXCEPT ![r] = @ + amount]
    /\ day' = today
    /\ dayReserved' = DayBase + amount

\* RECONCILE_RUN_SQL and RECONCILE_DAY_SQL.
Reconcile(r, amount, charged) ==
    /\ reserved' = [reserved EXCEPT ![r] = NotBelowZero(@ - amount)]
    /\ spent' = [spent EXCEPT ![r] = @ + charged]
    /\ dayReserved' = IF day = today THEN NotBelowZero(dayReserved - (amount - charged))
                      ELSE dayReserved

\* A conversion that releases the holds and records no spend.
ReleaseOnly(r, n) ==
    reserved' = [reserved EXCEPT ![r] = NotBelowZero(@ - n * Worst)] /\ UNCHANGED spent

\* A conversion that lets go of the run's whole hold.
ReleaseAll(r, n) ==
    reserved' = [reserved EXCEPT ![r] = 0] /\ spent' = [spent EXCEPT ![r] = @ + n * Worst]

\* CONVERT_RUN_SQL, once for each of n rows.
Convert(r, n) ==
    /\ reserved' = [reserved EXCEPT ![r] = NotBelowZero(@ - n * Worst)]
    /\ spent' = [spent EXCEPT ![r] = @ + n * Worst]

Midnight ==
    /\ today < MaxDays
    /\ today' = today + 1
    /\ UNCHANGED <<jobVars, rowVars, runLedger, dayLedger, paid,
                   slots, pc, localVars>>

-----------------------------------------------------------------------------
(* Attempts.                                                               *)

Goto(w, p) == pc' = [pc EXCEPT ![w] = p]

\* The attempt is over: the sessions close.
Leave(w) ==
    /\ Goto(w, "idle")
    /\ cur' = [cur EXCEPT ![w] = NoJob]
    /\ stage' = [stage EXCEPT ![w] = 0]
    /\ todo' = [todo EXCEPT ![w] = {}]
    /\ key' = [key EXCEPT ![w] = NoKey]
    /\ stale' = [stale EXCEPT ![w] = {}]
    /\ cost' = [cost EXCEPT ![w] = 0]

Finish(w, status) ==
    /\ jobStatus' = [jobStatus EXCEPT ![cur[w]] = status]
    /\ Leave(w)

\* BudgetExhausted, a preflight or a call refused: run_job stops the run.
Stop(w) ==
    /\ open' = [open EXCEPT ![Run(w)] = FALSE]
    /\ Finish(w, "stopped")
    /\ UNCHANGED <<owner, lease, attempts, progress, rowVars, runLedger, dayLedger,
                   outside, slots>>

\* claim_job and load: the checkpoint is read once, here.
Claim(w, j) ==
    /\ pc[w] = "idle"
    /\ \/ jobStatus[j] = "queued"
       \/ jobStatus[j] = "running" /\ lease[j] = "expired"
    /\ attempts[j] < MaxAttempts
    /\ JobRowFree(j, w)
    /\ jobStatus' = [jobStatus EXCEPT ![j] = "running"]
    /\ owner' = [owner EXCEPT ![j] = w]
    /\ lease' = [lease EXCEPT ![j] = "held"]
    /\ attempts' = [attempts EXCEPT ![j] = @ + 1]
    /\ cur' = [cur EXCEPT ![w] = j]
    /\ stage' = [stage EXCEPT ![w] = progress[j]]
    /\ Goto(w, "fetch")
    /\ UNCHANGED <<open, progress, rowVars, runLedger, dayLedger, outside, slots,
                   todo, key, stale, cost>>

LeaseExpires(j) ==
    /\ jobStatus[j] = "running" /\ lease[j] = "held"
    /\ \A w \in Workers : owner[j] = w /\ cur[w] = j => pc[w] \in SlowAt
    /\ lease' = [lease EXCEPT ![j] = "expired"]
    /\ UNCHANGED <<open, jobStatus, owner, attempts, progress, rowVars, runLedger,
                   dayLedger, outside, slots, pc, localVars>>

\* The process dies; its connections close and free their advisory locks.
Crash(w) ==
    /\ cur[w] # NoJob
    /\ pc[w] \in CrashAt
    /\ Leave(w)
    /\ slots' = slots \ {w}
    /\ UNCHANGED <<jobVars, rowVars, runLedger, dayLedger, outside>>

\* kill_run: it updates the job rows, so it waits for those that are locked.
Kill(r) ==
    /\ r \in Killable
    /\ open[r]
    /\ \A j \in JobsOf(r) : JobRowFree(j, NoWorker)
    /\ open' = [open EXCEPT ![r] = FALSE]
    /\ jobStatus' = [j \in Jobs |-> IF RunOf[j] = r /\ jobStatus[j] \notin TerminalJob
                                    THEN "stopped" ELSE jobStatus[j]]
    /\ UNCHANGED <<owner, lease, attempts, progress, rowVars, runLedger, dayLedger,
                   outside, slots, pc, localVars>>

-----------------------------------------------------------------------------
(* A stage: recover, guard, call, complete.                                *)

FetchOk(w) ==
    /\ pc[w] = "fetch"
    /\ stage' = [stage EXCEPT ![w] = @ + 1]
    /\ Goto(w, "enter")
    /\ UNCHANGED <<jobVars, rowVars, runLedger, dayLedger, outside, slots,
                   cur, todo, key, stale, cost>>

\* The top of run_job's stage loop, and its end.
EnterStage(w) ==
    /\ pc[w] = "enter"
    /\ \/ /\ ~open[Run(w)] /\ JobRowFree(cur[w], w)
          /\ Finish(w, "stopped")
       \/ /\ open[Run(w)] /\ stage[w] > LastStage /\ JobRowFree(cur[w], w)
          /\ Finish(w, "done")
       \/ /\ open[Run(w)] /\ stage[w] <= LastStage
          /\ todo' = [todo EXCEPT ![w] = {k \in CallsOf(cur[w]) : StageOf[k] = stage[w]}]
          /\ Goto(w, "resolve")
          /\ UNCHANGED <<jobStatus, cur, stage, key, stale, cost>>
    /\ UNCHANGED <<open, owner, lease, attempts, progress, rowVars, runLedger,
                   dayLedger, outside, slots>>

\* abandon_stale, its SELECT: by run and Pro, whoever began the call.
SelectStale(w) ==
    /\ pc[w] = "resolve"
    /\ LET pending == {k \in CallsOf(cur[w]) : row[k] = "pending"} IN
       /\ stale' = [stale EXCEPT ![w] = pending]
       /\ Goto(w, IF pending = {} THEN "guard" ELSE "abandon")
    /\ UNCHANGED <<jobVars, rowVars, runLedger, dayLedger, outside, slots,
                   cur, stage, todo, key, cost>>

\* abandon_stale, its commit: the rows are updated by id, whatever they hold.
AbandonStale(w) ==
    /\ pc[w] = "abandon"
    /\ row' = [k \in Keys |-> IF k \in stale[w] THEN "abandoned" ELSE row[k]]
    /\ Goto(w, "convert")
    /\ UNCHANGED <<jobVars, actual, runLedger, dayLedger, outside, slots, localVars>>

\* The rest of _resolve_abandoned_calls, one commit for all rows.
ConvertStale(w) ==
    /\ pc[w] = "convert"
    /\ Convert(Run(w), Cardinality(stale[w]))
    /\ stale' = [stale EXCEPT ![w] = {}]
    /\ Goto(w, "guard")
    /\ UNCHANGED <<jobVars, rowVars, dayLedger, outside, slots,
                   cur, stage, todo, key, cost>>

\* _guard: a lost lease ends the attempt, a stopped run the job.
Guard(w) ==
    LET mine == owner[cur[w]] = w /\ jobStatus[cur[w]] = "running" IN
    /\ pc[w] = "guard"
    /\ JobRowFree(cur[w], w)
    /\ \/ ~mine /\ Leave(w) /\ UNCHANGED jobStatus
       \/ mine /\ ~open[Run(w)] /\ Finish(w, "stopped")
       \/ /\ mine /\ open[Run(w)]
          /\ Goto(w, IF stage[w] = 1 THEN "preflight" ELSE "next")
          /\ UNCHANGED <<jobStatus, localVars>>
    /\ UNCHANGED <<open, owner, lease, attempts, progress, rowVars, runLedger,
                   dayLedger, outside, slots>>

\* _reserve_round_worst_case: held and released in one transaction, which
\* leaves nothing behind but the day it rolled over to.
Preflight(w) ==
    /\ pc[w] = "preflight"
    /\ Fits(Run(w), RoundWorst)
    /\ day' = today /\ dayReserved' = DayBase
    /\ Goto(w, "next")
    /\ UNCHANGED <<jobVars, rowVars, runLedger, outside, slots, localVars>>

\* The answers' scores and the stage's results: the pipeline session commits,
\* heartbeat included, and the job's row is free.
CommitStage(w) ==
    /\ pc[w] = "next" /\ todo[w] = {}
    /\ lease' = [lease EXCEPT ![cur[w]] = "held"]
    /\ Goto(w, "complete")
    /\ UNCHANGED <<open, jobStatus, owner, attempts, progress, rowVars, runLedger,
                   dayLedger, outside, slots, localVars>>

\* complete_stage: recorded whoever owns the job by now.
CompleteStage(w) ==
    /\ pc[w] = "complete"
    /\ JobRowFree(cur[w], w)
    /\ progress' = [progress EXCEPT ![cur[w]] = IF @ < stage[w] THEN stage[w] ELSE @]
    /\ stage' = [stage EXCEPT ![w] = @ + 1]
    /\ Goto(w, "enter")
    /\ UNCHANGED <<open, jobStatus, owner, lease, attempts, rowVars, runLedger, dayLedger,
                   outside, slots, cur, todo, key, stale, cost>>

-----------------------------------------------------------------------------
(* MeteredLLM.complete.                                                    *)

\* The answer is the caller's: the stage moves on to its next call.
Answered(w) ==
    /\ todo' = [todo EXCEPT ![w] = @ \ {key[w]}]
    /\ key' = [key EXCEPT ![w] = NoKey]
    /\ cost' = [cost EXCEPT ![w] = 0]
    /\ Goto(w, "next")
    /\ UNCHANGED <<cur, stage, stale>>

\* A committed row was left by a crash before its reconciliation.
Lookup(w, k) ==
    /\ pc[w] = "next" /\ k \in todo[w]
    /\ \/ /\ row[k] = "reconciled"
          /\ todo' = [todo EXCEPT ![w] = @ \ {k}]
          /\ UNCHANGED <<pc, key, cost>>
       \/ /\ row[k] = "committed"
          /\ key' = [key EXCEPT ![w] = k]
          /\ cost' = [cost EXCEPT ![w] = actual[k]]
          /\ Goto(w, "settle")
          /\ UNCHANGED todo
       \/ /\ row[k] \in {"none", "abandoned"}
          /\ key' = [key EXCEPT ![w] = k]
          /\ Goto(w, "reserve")
          /\ UNCHANGED <<todo, cost>>
       \/ /\ row[k] = "pending"
          /\ key' = [key EXCEPT ![w] = k]
          /\ Goto(w, "slot")
          /\ UNCHANGED <<todo, cost>>
    /\ UNCHANGED <<jobVars, rowVars, runLedger, dayLedger, outside, slots,
                   cur, stage, stale>>

\* The reservation and the pending row, new or renewed, commit together.
Reserve(w) ==
    /\ pc[w] = "reserve"
    /\ Fits(Run(w), Worst)
    /\ Hold(Run(w), Worst)
    /\ row' = [row EXCEPT ![key[w]] = "pending"]
    /\ Goto(w, "slot")
    /\ UNCHANGED <<jobVars, actual, spent, today, paid, slots, localVars>>

\* The round does not fit, or the call does not: nothing is reserved.
Refused(w) ==
    /\ \/ pc[w] = "preflight" /\ ~Fits(Run(w), RoundWorst)
       \/ pc[w] = "reserve" /\ ~Fits(Run(w), Worst)
    /\ Stop(w)

\* FleetSlots.release, and what it would be without the finally clause.
KeepSlot(w) == UNCHANGED slots
FreeSlot(w) == slots' = slots \ {w}

\* FleetSlots.acquire: polls until a lock is free.
TakeSlot(w) ==
    /\ pc[w] = "slot"
    /\ w \in slots \/ Cardinality(slots) < MaxSlots
    /\ slots' = slots \cup {w}
    /\ Goto(w, "call")
    /\ UNCHANGED <<jobVars, rowVars, runLedger, dayLedger, outside, localVars>>

\* The provider answers.
Answer(w, c) ==
    /\ pc[w] = "call"
    /\ paid' = [paid EXCEPT ![Run(w)] = @ + c]
    /\ cost' = [cost EXCEPT ![w] = c]
    /\ FreeSlot(w)
    /\ Goto(w, "refresh")
    /\ UNCHANGED <<jobVars, rowVars, runLedger, dayLedger, today,
                   cur, stage, todo, key, stale>>

\* No usable answer, though the provider may have charged c for it.  The row
\* stays pending.  A failed ranking, held-out check or war game is survived; a
\* failed generation fails the job; any other exception requeues it.
CallFails(w, c) ==
    /\ pc[w] = "call"
    /\ paid' = [paid EXCEPT ![Run(w)] = @ + c]
    /\ FreeSlot(w)
    /\ \/ key[w] \in Swallowed /\ Answered(w) /\ UNCHANGED <<jobStatus, lease>>
       \/ key[w] \notin Swallowed /\ Finish(w, "failed") /\ UNCHANGED lease
       \/ /\ key[w] \notin Swallowed
          /\ attempts[cur[w]] < MaxAttempts
          /\ Finish(w, "queued")
          /\ lease' = [lease EXCEPT ![cur[w]] = "none"]
    /\ UNCHANGED <<open, owner, attempts, progress, rowVars, runLedger, dayLedger, today>>

\* commit_result, its refresh: a row no longer pending is left as it is.
Refresh(w) ==
    /\ pc[w] = "refresh"
    /\ \/ /\ row[key[w]] = "pending"
          /\ Goto(w, "commit") /\ UNCHANGED localVars
       \/ row[key[w]] # "pending" /\ Answered(w)
    /\ UNCHANGED <<jobVars, rowVars, runLedger, dayLedger, outside, slots>>

\* commit_result, its commit: the row is updated by id, whatever it holds.
CommitResult(w) ==
    /\ pc[w] = "commit"
    /\ row' = [row EXCEPT ![key[w]] = "committed"]
    /\ actual' = [actual EXCEPT ![key[w]] = cost[w]]
    /\ Goto(w, "settle")
    /\ UNCHANGED <<jobVars, runLedger, dayLedger, outside, slots, localVars>>

\* reconcile_cost and mark_reconciled, one commit.
Settle(w) ==
    /\ pc[w] = "settle"
    /\ Reconcile(Run(w), Worst, cost[w])
    /\ row' = [row EXCEPT ![key[w]] = "reconciled"]
    /\ Answered(w)
    /\ UNCHANGED <<jobVars, actual, day, outside, slots>>

-----------------------------------------------------------------------------

Pay(w) ==
    \/ Reserve(w) \/ Refused(w) \/ TakeSlot(w)
    \/ \E c \in Costs : Answer(w, c)
    \/ \E c \in Costs \cup {0} : CallFails(w, c)
    \/ Refresh(w) \/ CommitResult(w) \/ Settle(w)

Attempt(w) ==
    \/ FetchOk(w) \/ EnterStage(w)
    \/ SelectStale(w) \/ AbandonStale(w) \/ ConvertStale(w)
    \/ Guard(w) \/ Preflight(w) \/ CommitStage(w) \/ CompleteStage(w)
    \/ \E k \in Keys : Lookup(w, k)
    \/ Pay(w)

Next ==
    \/ \E w \in Workers : Attempt(w) \/ Crash(w) \/ \E j \in Jobs : Claim(w, j)
    \/ \E j \in Jobs : LeaseExpires(j)
    \/ \E r \in Runs : Kill(r)
    \/ Midnight

Spec == Init /\ [][Next]_vars

\* An attempt goes on: Postgres answers, the provider answers or times out.
FairSpec == Spec /\ \A w \in Workers : WF_vars(Attempt(w))

-----------------------------------------------------------------------------
(* Properties.                                                             *)

\* Type invariant of the rows, the ledgers and the local variables.
TypeOK ==
    /\ open \in [Runs -> BOOLEAN]
    /\ jobStatus \in [Jobs -> JobStatus]
    /\ owner \in [Jobs -> Workers \cup {NoWorker}]
    /\ lease \in [Jobs -> {"none", "held", "expired"}]
    /\ attempts \in [Jobs -> 0..MaxAttempts]
    /\ progress \in [Jobs -> 0..LastStage]
    /\ row \in [Keys -> CallStatus]
    /\ actual \in [Keys -> Costs \cup {0}]
    /\ reserved \in [Runs -> 0..CostLimit]
    /\ spent \in [Runs -> Nat] /\ paid \in [Runs -> Nat]
    /\ today \in 0..MaxDays /\ day \in 0..today
    /\ dayReserved \in 0..DayLimit
    /\ slots \subseteq Workers
    /\ pc \in [Workers -> Pc]
    /\ cur \in [Workers -> Jobs \cup {NoJob}]
    /\ stage \in [Workers -> 0..LastStage + 1]
    /\ todo \in [Workers -> SUBSET Keys]
    /\ key \in [Workers -> Keys \cup {NoKey}]
    /\ stale \in [Workers -> SUBSET Keys]
    /\ cost \in [Workers -> Costs \cup {0}]

CallsOfRun(r) == {k \in Keys : RunOf[JobOf[k]] = r}

\* A reservation outlives every crash and every kill until its call is
\* resolved: the run ledger always holds the worst case of every call that is
\* pending or whose cost is not yet reconciled.
HoldCoversCalls ==
    \A r \in Runs :
        reserved[r] >= Worst * Cardinality({k \in CallsOfRun(r) : row[k] \in {"pending", "committed"}})

\* The two ledgers move together: on one day, the fleet's ledger is what the
\* runs hold and what they have spent, at every step and after every crash.
LedgersAgree == dayReserved = SumFunction(reserved) + SumFunction(spent)

\* What the provider charged a run, lost answers included, is spent on the run's
\* ledger or still on hold there: wherever an attempt dies or outlasts its lease,
\* and however often two attempts convert the reservation of one lost call.
ChargesAreCovered == \A r \in Runs : paid[r] <= spent[r] + reserved[r]

\* Of two attempts at a job, neither pays for an answer that is recorded.
RecordedAnswersAreReused ==
    [][\A w \in Workers, k \in Keys :
        pc[w] = "call" /\ key[w] = k /\ pc'[w] = "refresh" => row[k] \notin {"committed", "reconciled"}]_vars

\* An attempt that waits for one of the fleet's slots stops waiting.
SlotIsGranted == \A w \in Workers : pc[w] = "slot" ~> pc[w] # "slot"

(* What a comment of the code says, and the code does not do.              *)

\* A run never spends more than its limit: pipeline.py calls the per-call
\* reservations the hard stop.
SpendWithinLimit == \A r \in Runs : spent[r] <= CostLimit
=============================================================================
