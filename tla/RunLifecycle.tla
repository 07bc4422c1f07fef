---------------------------- MODULE RunLifecycle ----------------------------
(***************************************************************************)
(* The durable run lifecycle: the leased job queue (waypoint/queue.py),    *)
(* the worker loop (waypoint/worker.py), the resumable per-Pro pipeline    *)
(* (waypoint/pipeline.py, run_job and what it calls) and the operator's    *)
(* create and kill requests (waypoint/api.py), at the granularity of one   *)
(* database transaction or one read per step.                              *)
(*                                                                         *)
(* Two row locks matter.  _heartbeat updates the job's row and does not    *)
(* commit, so from a passed guard to the pipeline session's next commit    *)
(* or rollback that row is locked: claims skip it and every other writer   *)
(* of it waits.  kill_run flushes its update of the run's row before it    *)
(* updates the job rows, so in between every writer of the run's row       *)
(* waits, the paid-call ledger included.                                   *)
(***************************************************************************)
EXTENDS Integers, FiniteSets

CONSTANTS
    Runs, Jobs, Workers,
    NoRun, NoJob, NoWorker,
    RunOf,        \* the run a job belongs to (jobs.run_id)
    Maint,        \* the worker loop started with maintenance=True
    MaxAttempts,  \* jobs.max_attempts
    MaxRounds,    \* bound: rounds of the evolve loop per Pro
    Busy,         \* bound: the optional stages that may find work to do
    MaxFlips,     \* bound: deployments that change KILL_SWITCH
    Killable,     \* runs an operator may ask to kill
    SlowAt        \* labels at which a live loop may outlast its lease

ASSUME LifecycleAssumption ==
    /\ RunOf \in [Jobs -> Runs]
    /\ NoJob \notin Jobs /\ NoRun \notin Runs /\ NoWorker \notin Workers
    /\ Maint \in Workers
    /\ MaxAttempts \in Nat \ {0} /\ MaxRounds \in Nat \ {0} /\ MaxFlips \in Nat
    /\ Busy \subseteq 1..6
    /\ Killable \subseteq Runs

VARIABLES
    runStatus,    \* runs.status
    jobStatus,    \* jobs.status
    owner,        \* jobs.worker_id
    lease,        \* jobs.lease_until, as committed, against now()
    attempts,     \* jobs.attempts
    checkpoint,   \* how many stages jobs.checkpoint records
    rounds,       \* how many rows evolve_rounds holds for the Pro
    winner,       \* winners.kind for the Pro, one row at most
    fleetKilled,  \* fleet_control.killed
    flips,        \* deployments left
    pc,           \* where a worker loop is
    cur,          \* the job it claimed
    target,       \* the run it is finalizing
    stage,        \* the stage it is at, 0 outside the stage loop
    round,        \* the rounds its replayed loop state holds
    tries,        \* job.attempts in its identity map
    seen,         \* a status or kind it read or decided and will act on
    killPc,       \* an operator's kill request of a run
    killSet       \* the jobs that request read as not terminal

dbVars == <<runStatus, jobStatus, owner, lease, attempts, checkpoint, rounds, winner>>
localVars == <<cur, target, stage, round, tries, seen>>
envVars == <<fleetKilled, flips>>
killVars == <<killPc, killSet>>
vars == <<dbVars, envVars, pc, localVars, killVars>>

-----------------------------------------------------------------------------

\* The stages, by their place in STAGES.
Context == 1
Evolve  == 2
Final   == 3
Score   == 4
Measure == 5
Ready   == 6

TerminalRun == {"complete", "no_action", "abstained", "stopped", "failed"}
Verdicts == {"complete", "no_action", "abstained", "failed", "degraded"}
RunStatus == TerminalRun \cup {"absent", "queued", "running", "resumed", "waiting", "degraded"}
TerminalJob == {"done", "failed", "stopped"}
JobStatus == TerminalJob \cup {"absent", "queued", "running"}
\* "missing" is the abstention whose rationale starts with "context missing".
WinnerKind == {"none", "winner", "no_action", "abstained", "missing"}

Guarded == {"paid", "call", "held"}
Pc == Guarded \cup
      {"idle", "claimed", "loaded", "fetch", "requeued", "stage", "work", "insert",
       "persist", "complete", "halt", "drop", "fail", "crash", "finalize", "verdict", "sweep"}

ASSUME SlowAtAssumption == SlowAt \subseteq Pc

JobsOf(r) == {j \in Jobs : RunOf[j] = r}
JobsSettled(r) == \A j \in JobsOf(r) : jobStatus[j] \in TerminalJob
Run(w) == RunOf[cur[w]]

\* The uncommitted heartbeat of w locks the row of its job.
HoldsRow(w) == pc[w] \in Guarded
JobRowFree(j, w) == \A x \in Workers \ {w} : ~(HoldsRow(x) /\ cur[x] = j)
\* The flushed, uncommitted update of kill_run locks the row of the run.
RunRowFree(r) == killPc[r] # "flushed"

Init ==
    /\ runStatus = [r \in Runs |-> "absent"]
    /\ jobStatus = [j \in Jobs |-> "absent"]
    /\ owner = [j \in Jobs |-> NoWorker]
    /\ lease = [j \in Jobs |-> "none"]
    /\ attempts = [j \in Jobs |-> 0]
    /\ checkpoint = [j \in Jobs |-> 0]
    /\ rounds = [j \in Jobs |-> 0]
    /\ winner = [j \in Jobs |-> "none"]
    /\ fleetKilled = FALSE /\ flips = MaxFlips
    /\ pc = [w \in Workers |-> "idle"]
    /\ cur = [w \in Workers |-> NoJob]
    /\ target = [w \in Workers |-> NoRun]
    /\ stage = [w \in Workers |-> 0]
    /\ round = [w \in Workers |-> 0]
    /\ tries = [w \in Workers |-> 0]
    /\ seen = [w \in Workers |-> "none"]
    /\ killPc = [r \in Runs |-> "idle"]
    /\ killSet = [r \in Runs |-> {}]

-----------------------------------------------------------------------------
(* Local moves of a worker loop.                                           *)

Goto(w, p) == pc' = [pc EXCEPT ![w] = p]

\* run_job returned or raised: the sessions close and what they hold is gone.
Leave(w) ==
    /\ Goto(w, "idle")
    /\ cur' = [cur EXCEPT ![w] = NoJob]
    /\ target' = [target EXCEPT ![w] = NoRun]
    /\ stage' = [stage EXCEPT ![w] = 0]
    /\ round' = [round EXCEPT ![w] = 0]
    /\ tries' = [tries EXCEPT ![w] = 0]
    /\ seen' = [seen EXCEPT ![w] = "none"]

\* The label a refused reservation or a stopped guard ends with, after rollback.
StopRoute(w) == IF ~fleetKilled /\ runStatus[Run(w)] = "stopped" THEN "drop" ELSE "halt"

\* The pipeline session commits: a heartbeat it held becomes durable.
CommitHeartbeat(w) ==
    lease' = IF HoldsRow(w) THEN [lease EXCEPT ![cur[w]] = "held"] ELSE lease

-----------------------------------------------------------------------------
(* Creating a run; the fleet switch.                                       *)

\* create_run: the run and one job per Pro, in one transaction.  It also
\* re-applies the environment's KILL_SWITCH, which is fleetKilled already.
CreateRun(r) ==
    /\ runStatus[r] = "absent"
    /\ runStatus' = [runStatus EXCEPT ![r] = "queued"]
    /\ jobStatus' = [j \in Jobs |-> IF RunOf[j] = r THEN "queued" ELSE jobStatus[j]]
    /\ UNCHANGED <<owner, lease, attempts, checkpoint, rounds, winner,
                   envVars, pc, localVars, killVars>>

\* A deployment with the other KILL_SWITCH value.
FleetSwitch ==
    /\ flips > 0
    /\ fleetKilled' = ~fleetKilled
    /\ flips' = flips - 1
    /\ UNCHANGED <<dbVars, pc, localVars, killVars>>

-----------------------------------------------------------------------------
(* Claims, leases and crashes.                                             *)

ClaimableUncapped(j) ==
    /\ \/ jobStatus[j] = "queued"
       \/ jobStatus[j] = "running" /\ lease[j] = "expired"
    /\ ~fleetKilled

Claimable(j) ==
    /\ \/ jobStatus[j] = "queued"
       \/ jobStatus[j] = "running" /\ lease[j] = "expired"
    /\ attempts[j] < MaxAttempts
    /\ ~fleetKilled

Claim(w, j) ==
    /\ pc[w] = "idle"
    /\ Claimable(j)
    /\ JobRowFree(j, w)
    /\ jobStatus' = [jobStatus EXCEPT ![j] = "running"]
    /\ owner' = [owner EXCEPT ![j] = w]
    /\ lease' = [lease EXCEPT ![j] = "held"]
    /\ attempts' = [attempts EXCEPT ![j] = @ + 1]
    /\ cur' = [cur EXCEPT ![w] = j]
    /\ Goto(w, "claimed")
    /\ UNCHANGED <<runStatus, checkpoint, rounds, winner, envVars,
                   target, stage, round, tries, seen, killVars>>

\* The thread that holds the lease of j still runs.
LiveOwner(j) == \E w \in Workers : owner[j] = w /\ cur[w] = j

\* LEASE_SECONDS pass.  A live loop outlasts its lease only where it is slow:
\* nothing heartbeats during a fetch, whose retries can take longer.
LeaseExpires(j) ==
    /\ jobStatus[j] = "running" /\ lease[j] = "held"
    /\ LiveOwner(j) => pc[owner[j]] \in SlowAt
    /\ lease' = [lease EXCEPT ![j] = "expired"]
    /\ UNCHANGED <<runStatus, jobStatus, owner, attempts, checkpoint, rounds, winner,
                   envVars, pc, localVars, killVars>>

\* The process dies, or run_job raises out of the stage loop: the sessions
\* roll back, an uncommitted heartbeat with them, and the lease stays as it was.
Crash(w) ==
    /\ cur[w] # NoJob
    /\ Leave(w)
    /\ UNCHANGED <<dbVars, envVars, killVars>>

-----------------------------------------------------------------------------
(* run_job up to the stage loop.                                           *)

\* store.load: the statuses it reads stay in the session's identity map.
Load(w) ==
    LET j == cur[w] IN
    /\ pc[w] = "claimed"
    /\ \/ /\ runStatus[RunOf[j]] \in TerminalRun
          /\ \/ jobStatus[j] \in TerminalJob /\ Leave(w)
             \/ jobStatus[j] \notin TerminalJob /\ Goto(w, "drop") /\ UNCHANGED localVars
       \/ /\ runStatus[RunOf[j]] \notin TerminalRun
          /\ Goto(w, "loaded")
          /\ seen' = [seen EXCEPT ![w] = runStatus[RunOf[j]]]
          /\ stage' = [stage EXCEPT ![w] = checkpoint[j]]
          /\ tries' = [tries EXCEPT ![w] = attempts[j]]
          /\ UNCHANGED <<cur, target, round>>
    /\ UNCHANGED <<dbVars, envVars, killVars>>

\* set_run_status writes the cached row: the update is sent only if the new
\* status differs from the one load read, whatever the row holds by now.
SetRunning(w) ==
    LET to == IF stage[w] > 0 THEN "resumed" ELSE "running" IN
    /\ pc[w] = "loaded"
    /\ seen[w] # to => RunRowFree(Run(w))
    /\ runStatus' = IF seen[w] = to THEN runStatus
                    ELSE [runStatus EXCEPT ![Run(w)] = to]
    /\ seen' = [seen EXCEPT ![w] = "none"]
    /\ Goto(w, "fetch")
    /\ UNCHANGED <<jobStatus, owner, lease, attempts, checkpoint, rounds, winner,
                   envVars, cur, target, stage, round, tries, killVars>>

\* The context arrives; completed stages are skipped.
FetchOk(w) ==
    /\ pc[w] = "fetch"
    /\ \/ stage[w] = Ready /\ Leave(w)
       \/ /\ stage[w] < Ready
          /\ stage' = [stage EXCEPT ![w] = @ + 1]
          /\ Goto(w, "stage")
          /\ UNCHANGED <<cur, target, round, tries, seen>>
    /\ UNCHANGED <<dbVars, envVars, killVars>>

Exhausted(n) == n >= MaxAttempts

\* requeue_job, deciding on the attempts it is given.
Requeue(w, n, ifQueued) ==
    LET j == cur[w] IN
    /\ JobRowFree(j, w)
    /\ \/ /\ Exhausted(n)
          /\ jobStatus' = [jobStatus EXCEPT ![j] = "failed"]
          /\ UNCHANGED lease
          /\ Goto(w, "finalize")
          /\ target' = [target EXCEPT ![w] = Run(w)]
          /\ stage' = [stage EXCEPT ![w] = 0]
          /\ UNCHANGED <<cur, round, tries, seen>>
       \/ /\ ~Exhausted(n)
          /\ jobStatus' = [jobStatus EXCEPT ![j] = "queued"]
          /\ lease' = [lease EXCEPT ![j] = "none"]
          /\ IF ifQueued = "idle" THEN Leave(w) ELSE Goto(w, ifQueued) /\ UNCHANGED localVars
    /\ UNCHANGED <<runStatus, owner, attempts, checkpoint, rounds, winner, envVars, killVars>>

\* ContextUnavailable: the job as loaded decides whether an attempt is left.
FetchFails(w) ==
    /\ pc[w] = "fetch"
    /\ Requeue(w, tries[w], "requeued")

SetWaiting(w) ==
    /\ pc[w] = "requeued"
    /\ RunRowFree(Run(w))
    /\ runStatus' = [runStatus EXCEPT ![Run(w)] = "waiting"]
    /\ Leave(w)
    /\ UNCHANGED <<jobStatus, owner, lease, attempts, checkpoint, rounds, winner,
                   envVars, killVars>>

-----------------------------------------------------------------------------
(* The stage loop.                                                         *)

\* The checks at the top of each stage; evolve replays its round ledger.
EnterStage(w) ==
    /\ pc[w] = "stage"
    /\ \/ fleetKilled /\ Goto(w, "halt") /\ UNCHANGED round
       \/ ~fleetKilled /\ runStatus[Run(w)] = "stopped" /\ Goto(w, "drop") /\ UNCHANGED round
       \/ /\ ~fleetKilled /\ runStatus[Run(w)] # "stopped"
          /\ round' = [round EXCEPT ![w] = IF stage[w] = Evolve THEN rounds[cur[w]] ELSE 0]
          /\ Goto(w, "work")
    /\ UNCHANGED <<dbVars, envVars, cur, target, stage, tries, seen, killVars>>

\* The kinds of outcome row a stage may write, given what is recorded so far.
OutcomeKinds(w) ==
    CASE stage[w] = Context /\ Context \in Busy -> {"missing"}
      [] stage[w] \in {Evolve, Final} \cap Busy -> {"abstained"}
      [] stage[w] = Score /\ rounds[cur[w]] > 0 -> {"winner", "no_action"}
      [] stage[w] = Score /\ rounds[cur[w]] = 0 -> {"no_action"}
      [] OTHER -> {}

\* winner_for found no row; the row to insert is decided.
DecideOutcome(w) ==
    /\ pc[w] = "work"
    /\ winner[cur[w]] = "none"
    /\ \E k \in OutcomeKinds(w) : seen' = [seen EXCEPT ![w] = k]
    /\ Goto(w, "insert")
    /\ UNCHANGED <<dbVars, envVars, cur, target, stage, round, tries, killVars>>

\* uq_winners_run_pro lets one row in; a second insert is an unhandled error.
InsertOutcome(w) ==
    LET j == cur[w] IN
    /\ pc[w] = "insert"
    /\ \/ /\ winner[j] = "none"
          /\ winner' = [winner EXCEPT ![j] = seen[w]]
          /\ Goto(w, "complete")
       \/ /\ winner[j] # "none"
          /\ UNCHANGED winner
          /\ Goto(w, "crash")
    /\ seen' = [seen EXCEPT ![w] = "none"]
    /\ UNCHANGED <<runStatus, jobStatus, owner, lease, attempts, checkpoint, rounds,
                   envVars, cur, target, stage, round, tries, killVars>>

\* A score stage that completes without a row.
SkipsAny(w) == stage[w] < Ready

\* Stages with nothing to do: a brief is there, the loop has stopped or has
\* no brief, no champion to confirm, an outcome is recorded, no winner to measure.
MaySkip(w) ==
    \/ stage[w] \in {Context, Evolve, Final}
    \/ stage[w] = Score /\ winner[cur[w]] # "none"
    \/ stage[w] = Measure

\* _guard precedes every round, the held-out check and the war game.
NeedsGuard(w) ==
    /\ stage[w] \in Busy
    /\ \/ stage[w] = Evolve /\ round[w] < MaxRounds
       \/ stage[w] = Final /\ winner[cur[w]] = "none" /\ rounds[cur[w]] > 0
       \/ stage[w] = Measure /\ winner[cur[w]] = "winner"

RunningIsEnough(w) == jobStatus[cur[w]] = "running"
HeartbeatOk(w) == owner[cur[w]] = w /\ jobStatus[cur[w]] = "running"

Guard(w) ==
    /\ pc[w] = "work"
    /\ NeedsGuard(w)
    /\ JobRowFree(cur[w], w)
    /\ \/ ~HeartbeatOk(w) /\ Leave(w)
       \/ /\ HeartbeatOk(w)
          /\ Goto(w, IF fleetKilled \/ runStatus[Run(w)] = "stopped"
                     THEN StopRoute(w) ELSE "paid")
          /\ UNCHANGED localVars
    /\ UNCHANGED <<dbVars, envVars, killVars>>

\* RESERVE_RUN_SQL and RESERVE_DAY_SQL, on the calls session.
Reserve(w) ==
    /\ pc[w] = "paid"
    /\ RunRowFree(Run(w))
    /\ runStatus[Run(w)] \notin {"stopped", "failed"}
    /\ ~fleetKilled
    /\ Goto(w, "call")
    /\ UNCHANGED <<dbVars, envVars, localVars, killVars>>

\* Refused for want of budget, a stopped run or the fleet switch: the
\* pipeline session rolls back, which releases the heartbeat.
ReserveRefused(w) ==
    /\ pc[w] = "paid"
    /\ RunRowFree(Run(w))
    /\ Goto(w, StopRoute(w))
    /\ UNCHANGED <<dbVars, envVars, localVars, killVars>>

\* Recorded calls and cached reactions cost nothing and reserve nothing.
ReplayCalls(w) ==
    /\ pc[w] = "paid"
    /\ stage[w] \in {Final, Measure}
    /\ Goto(w, "held")
    /\ UNCHANGED <<dbVars, envVars, localVars, killVars>>

\* The provider answers; the call is reconciled against the run's row.
CallReturns(w) ==
    /\ pc[w] = "call"
    /\ RunRowFree(Run(w))
    /\ Goto(w, "held")
    /\ UNCHANGED <<dbVars, envVars, localVars, killVars>>

\* The provider fails.  A failed generation fails the job and a failed screen
\* only its finalist; the held-out check guards again before its fallback; the
\* war game is optional.
CallFails(w) ==
    /\ pc[w] = "call"
    /\ \/ stage[w] = Evolve /\ Goto(w, "fail")
       \/ /\ stage[w] = Final
          /\ fleetKilled \/ runStatus[Run(w)] = "stopped"
          /\ Goto(w, StopRoute(w))
       \/ Goto(w, "held")
    /\ UNCHANGED <<dbVars, envVars, localVars, killVars>>

\* The reaction cache or the follow-up evidence commits first, on the
\* pipeline session: the row is released, and the heartbeat is durable unless
\* another worker cached the same reactions first and this session rolls back.
CommitCache(w) ==
    /\ pc[w] = "held"
    /\ CommitHeartbeat(w) \/ UNCHANGED lease
    /\ Goto(w, "persist")
    /\ UNCHANGED <<runStatus, jobStatus, owner, attempts, checkpoint, rounds, winner,
                   envVars, localVars, killVars>>

\* The round's candidates and its ledger row, in one commit;
\* uq_evolve_rounds_run_pro_round refuses a round that is there already.
CommitRound(w) ==
    LET j == cur[w] IN
    /\ pc[w] \in {"held", "persist"} /\ stage[w] = Evolve
    /\ \/ /\ rounds[j] = round[w]
          /\ rounds' = [rounds EXCEPT ![j] = @ + 1]
          /\ round' = [round EXCEPT ![w] = @ + 1]
          /\ CommitHeartbeat(w)
          /\ Goto(w, "work")
       \/ /\ rounds[j] # round[w]
          /\ UNCHANGED <<rounds, round, lease>>
          /\ Goto(w, "crash")
    /\ UNCHANGED <<runStatus, jobStatus, owner, attempts, checkpoint, winner,
                   envVars, cur, target, stage, tries, seen, killVars>>

\* No panel for the round: the Pro abstains and the loop ends.
AbstainRound(w) ==
    LET j == cur[w] IN
    /\ pc[w] = "held" /\ stage[w] = Evolve
    /\ winner' = IF winner[j] = "none" THEN [winner EXCEPT ![j] = "abstained"] ELSE winner
    /\ CommitHeartbeat(w)
    /\ Goto(w, "complete")
    /\ UNCHANGED <<runStatus, jobStatus, owner, attempts, checkpoint, rounds,
                   envVars, localVars, killVars>>

\* The champion's held-out score, or the measurement plan after its evidence.
CommitResult(w) ==
    /\ \/ pc[w] \in {"held", "persist"} /\ stage[w] = Final
       \/ pc[w] = "persist" /\ stage[w] = Measure
    /\ CommitHeartbeat(w)
    /\ Goto(w, "complete")
    /\ UNCHANGED <<runStatus, jobStatus, owner, attempts, checkpoint, rounds, winner,
                   envVars, localVars, killVars>>

\* An exception no handler expects, anywhere in a stage before it is ready.
Raise(w) ==
    /\ pc[w] \in {"work", "insert", "persist"} \cup Guarded
    /\ Goto(w, "crash")
    /\ seen' = [seen EXCEPT ![w] = "none"]
    /\ UNCHANGED <<dbVars, envVars, cur, target, stage, round, tries, killVars>>

\* checkpoint || patch, and the plain assignment it is not.
Replaced(old, new) == new
Merged(old, new) == IF old < new THEN new ELSE old

\* complete_stage merges the stage into the checkpoint, whoever owns the job.
CompleteStage(w) ==
    LET j == cur[w] IN
    /\ \/ pc[w] = "complete"
       \/ pc[w] = "work" /\ MaySkip(w)
    /\ JobRowFree(j, w)
    /\ checkpoint' = [checkpoint EXCEPT ![j] = Merged(@, stage[w])]
    /\ \/ stage[w] = Ready /\ Leave(w)
       \/ /\ stage[w] < Ready
          /\ stage' = [stage EXCEPT ![w] = @ + 1]
          /\ Goto(w, "stage")
          /\ UNCHANGED <<cur, target, round, tries, seen>>
    /\ UNCHANGED <<runStatus, jobStatus, owner, lease, attempts, rounds, winner,
                   envVars, killVars>>

-----------------------------------------------------------------------------
(* How a job ends.                                                         *)

\* finish_job writes the job's row by its key, whoever owns it.
FinishJob(w, status) ==
    /\ JobRowFree(cur[w], w)
    /\ jobStatus' = [jobStatus EXCEPT ![cur[w]] = status]
    /\ UNCHANGED <<owner, lease, attempts, checkpoint, rounds, winner>>

\* _stage_ready: the job's terminal status commits before the run is finalized.
FinishReady(w) ==
    /\ pc[w] = "work" /\ stage[w] = Ready
    /\ FinishJob(w, "done")
    /\ Goto(w, "finalize")
    /\ target' = [target EXCEPT ![w] = Run(w)]
    /\ UNCHANGED <<runStatus, envVars, cur, stage, round, tries, seen, killVars>>

FinishFailed(w) ==
    /\ pc[w] = "fail"
    /\ FinishJob(w, "failed")
    /\ Goto(w, "finalize")
    /\ target' = [target EXCEPT ![w] = Run(w)]
    /\ stage' = [stage EXCEPT ![w] = 0]
    /\ UNCHANGED <<runStatus, envVars, cur, round, tries, seen, killVars>>

FinishStopped(w) ==
    /\ pc[w] = "drop"
    /\ FinishJob(w, "stopped")
    /\ Leave(w)
    /\ UNCHANGED <<runStatus, envVars, killVars>>

\* The run is stopped first, for the fleet switch or the budget, then the job.
StopRun(w) ==
    /\ pc[w] = "halt"
    /\ RunRowFree(Run(w))
    /\ runStatus' = [runStatus EXCEPT ![Run(w)] = "stopped"]
    /\ Goto(w, "drop")
    /\ UNCHANGED <<jobStatus, owner, lease, attempts, checkpoint, rounds, winner,
                   envVars, localVars, killVars>>

\* After the rollback requeue_job reads the job afresh.
RequeueCrashed(w) ==
    /\ pc[w] = "crash"
    /\ Requeue(w, attempts[cur[w]], "idle")

-----------------------------------------------------------------------------
(* Finalizing a run.                                                       *)

Aggregate(r) ==
    LET failed == {j \in JobsOf(r) : jobStatus[j] = "failed"}
        kinds  == {winner[j] : j \in JobsOf(r)}
    IN  CASE failed = JobsOf(r) -> "failed"
          [] failed # {} /\ failed # JobsOf(r) -> "degraded"
          [] failed = {} /\ "missing" \in kinds -> "degraded"
          [] failed = {} /\ "missing" \notin kinds /\ "winner" \in kinds -> "complete"
          [] failed = {} /\ kinds \cap {"missing", "winner"} = {} /\ "no_action" \in kinds ->
                 "no_action"
          [] failed = {} /\ kinds \cap {"missing", "winner", "no_action"} = {}
                 /\ "abstained" \in kinds -> "abstained"
          [] OTHER -> "no_action"

\* Where finalize_run returns to: the ready stage, the idle beat, or out of run_job.
AfterFinalize(w) ==
    \/ stage[w] = Ready /\ Goto(w, "complete") /\ target' = [target EXCEPT ![w] = NoRun]
       /\ seen' = [seen EXCEPT ![w] = "none"] /\ UNCHANGED <<cur, stage, round, tries>>
    \/ cur[w] = NoJob /\ Goto(w, "sweep") /\ target' = [target EXCEPT ![w] = NoRun]
       /\ seen' = [seen EXCEPT ![w] = "none"] /\ UNCHANGED <<cur, stage, round, tries>>
    \/ stage[w] # Ready /\ cur[w] # NoJob /\ Leave(w)

UnlessTerminal(r) == runStatus[r] \notin TerminalRun
Finalizable(r) == runStatus[r] \notin TerminalRun /\ JobsSettled(r)

\* finalize_run reads the run and its jobs and computes the verdict ...
FinalizeRead(w) ==
    LET r == target[w] IN
    /\ pc[w] = "finalize"
    /\ \/ /\ ~Finalizable(r) \/ Aggregate(r) = runStatus[r]
          /\ AfterFinalize(w)
       \/ /\ Finalizable(r)
          /\ Aggregate(r) # runStatus[r]
          /\ seen' = [seen EXCEPT ![w] = Aggregate(r)]
          /\ Goto(w, "verdict")
          /\ UNCHANGED <<cur, target, stage, round, tries>>
    /\ UNCHANGED <<dbVars, envVars, killVars>>

\* ... and writes it by the run's key.
FinalizeWrite(w) ==
    /\ pc[w] = "verdict"
    /\ RunRowFree(target[w])
    /\ runStatus' = [runStatus EXCEPT ![target[w]] = seen[w]]
    /\ AfterFinalize(w)
    /\ UNCHANGED <<jobStatus, owner, lease, attempts, checkpoint, rounds, winner,
                   envVars, killVars>>

StaleJobs ==
    {j \in Jobs : /\ jobStatus[j] = "running" /\ lease[j] = "expired"
                  /\ attempts[j] >= MaxAttempts}

OnlyRunning ==
    {r \in Runs : runStatus[r] = "running" /\ JobsOf(r) # {} /\ JobsSettled(r)}

StalledRuns ==
    {r \in Runs : /\ runStatus[r] \notin TerminalRun \cup {"degraded", "absent"}
                  /\ JobsOf(r) # {} /\ JobsSettled(r)}

\* The idle beat of the maintenance loop: nothing to claim, so fail the jobs
\* that died with no attempts left.  A beat with nothing to do is left out.
Beat(w) ==
    /\ w = Maint /\ pc[w] = "idle"
    /\ \A j \in Jobs : ~(Claimable(j) /\ JobRowFree(j, w))
    /\ StaleJobs # {} \/ StalledRuns # {}
    /\ \A j \in StaleJobs : JobRowFree(j, w)
    /\ jobStatus' = [j \in Jobs |-> IF j \in StaleJobs THEN "failed" ELSE jobStatus[j]]
    /\ Goto(w, "sweep")
    /\ UNCHANGED <<runStatus, owner, lease, attempts, checkpoint, rounds, winner,
                   envVars, localVars, killVars>>

\* Then finalize the runs a crash left between their last job and finalize_run.
Sweep(w) ==
    /\ pc[w] = "sweep"
    /\ \/ StalledRuns = {} /\ Goto(w, "idle") /\ UNCHANGED target
       \/ \E r \in StalledRuns :
             /\ target' = [target EXCEPT ![w] = r]
             /\ Goto(w, "finalize")
    /\ UNCHANGED <<dbVars, envVars, cur, stage, round, tries, seen, killVars>>

-----------------------------------------------------------------------------
(* kill_run: a read, a flush by the autoflush of its second query, a commit. *)

KillCheck(r) ==
    /\ r \in Killable /\ killPc[r] = "idle"
    /\ runStatus[r] \notin TerminalRun \cup {"absent"}
    /\ killPc' = [killPc EXCEPT ![r] = "checked"]
    /\ UNCHANGED <<dbVars, envVars, pc, localVars, killSet>>

KillFlush(r) ==
    /\ killPc[r] = "checked"
    /\ killPc' = [killPc EXCEPT ![r] = "flushed"]
    /\ killSet' = [killSet EXCEPT ![r] = {j \in JobsOf(r) : jobStatus[j] \notin TerminalJob}]
    /\ UNCHANGED <<dbVars, envVars, pc, localVars>>

KillRowsFree(r) == \A w \in Workers : HoldsRow(w) => cur[w] \notin killSet[r]

KillCommit(r) ==
    /\ killPc[r] = "flushed"
    /\ KillRowsFree(r)
    /\ runStatus' = [runStatus EXCEPT ![r] = "stopped"]
    /\ jobStatus' = [j \in Jobs |-> IF j \in killSet[r] THEN "stopped" ELSE jobStatus[j]]
    /\ killPc' = [killPc EXCEPT ![r] = "acked"]
    /\ killSet' = [killSet EXCEPT ![r] = {}]
    /\ UNCHANGED <<owner, lease, attempts, checkpoint, rounds, winner, envVars, pc, localVars>>

-----------------------------------------------------------------------------

RunJob(w) ==
    \/ Load(w) \/ SetRunning(w) \/ FetchOk(w) \/ FetchFails(w) \/ SetWaiting(w)
    \/ EnterStage(w) \/ DecideOutcome(w) \/ InsertOutcome(w)
    \/ Guard(w) \/ Reserve(w) \/ ReserveRefused(w) \/ ReplayCalls(w)
    \/ CallReturns(w) \/ CallFails(w) \/ CommitCache(w) \/ CommitRound(w)
    \/ AbstainRound(w) \/ CommitResult(w) \/ CompleteStage(w)
    \/ FinishReady(w) \/ FinishFailed(w) \/ FinishStopped(w) \/ StopRun(w)
    \/ RequeueCrashed(w) \/ FinalizeRead(w) \/ FinalizeWrite(w)

Next ==
    \/ \E r \in Runs : CreateRun(r) \/ KillCheck(r) \/ KillFlush(r) \/ KillCommit(r)
    \/ \E w \in Workers, j \in Jobs : Claim(w, j)
    \/ \E j \in Jobs : LeaseExpires(j)
    \/ \E w \in Workers : Crash(w) \/ Raise(w) \/ RunJob(w) \/ Beat(w) \/ Sweep(w)
    \/ FleetSwitch

Spec == Init /\ [][Next]_vars

\* Each loop keeps running until its process dies, time passes, and a request
\* that was accepted is carried out.  Crashes, unexpected exceptions, kills and
\* deployments need not happen.
Fairness ==
    /\ \A w \in Workers :
          /\ WF_vars(RunJob(w))
          /\ WF_vars(\E j \in Jobs : Claim(w, j))
          /\ WF_vars(Beat(w)) /\ WF_vars(Sweep(w))
    /\ \A j \in Jobs : WF_vars(LeaseExpires(j))
    /\ \A r \in Runs : WF_vars(KillFlush(r)) /\ WF_vars(KillCommit(r))

FairSpec == Spec /\ Fairness

-----------------------------------------------------------------------------
(* Properties.                                                             *)

DbTypeOK ==
    /\ runStatus \in [Runs -> RunStatus]
    /\ jobStatus \in [Jobs -> JobStatus]
    /\ owner \in [Jobs -> Workers \cup {NoWorker}]
    /\ lease \in [Jobs -> {"none", "held", "expired"}]
    /\ attempts \in [Jobs -> 0..MaxAttempts]
    /\ checkpoint \in [Jobs -> 0..Ready]
    /\ rounds \in [Jobs -> 0..MaxRounds]
    /\ winner \in [Jobs -> WinnerKind]

LocalTypeOK ==
    /\ pc \in [Workers -> Pc]
    /\ cur \in [Workers -> Jobs \cup {NoJob}]
    /\ target \in [Workers -> Runs \cup {NoRun}]
    /\ stage \in [Workers -> 0..Ready]
    /\ round \in [Workers -> 0..MaxRounds]
    /\ tries \in [Workers -> 0..MaxAttempts]
    /\ seen \in [Workers -> RunStatus \cup WinnerKind]

EnvTypeOK ==
    /\ fleetKilled \in BOOLEAN /\ flips \in 0..MaxFlips
    /\ killPc \in [Runs -> {"idle", "checked", "flushed", "acked"}]
    /\ killSet \in [Runs -> SUBSET Jobs]

\* The rows, what each loop holds and the requests under way have their types:
\* no worker acts on a job it has not got, and no job is tried too often.
TypeOK == DbTypeOK /\ LocalTypeOK /\ EnvTypeOK

\* Paid work under a passed guard is exclusive: two workers never hold the
\* heartbeat of one job, and the one that does is the owner the row records,
\* with the job running, whatever stalls, crashes, kills and reclaims happen.
PaidExclusive ==
    \A w \in Workers : HoldsRow(w) =>
        /\ owner[cur[w]] = w /\ jobStatus[cur[w]] = "running"
        /\ \A x \in Workers : HoldsRow(x) /\ cur[x] = cur[w] => x = w

\* A Pro never silently vanishes from a run: a job that is done recorded one
\* outcome row, and so did one whose checkpoint is past the score stage, in
\* whichever attempt each stage was completed.
DoneHasOutcome ==
    \A j \in Jobs :
        jobStatus[j] = "done" \/ checkpoint[j] >= Score => winner[j] # "none"

\* A finalized run's verdict stands: its jobs are all terminal and still
\* aggregate to the status it shows, whatever retries, crashes and stopped
\* siblings came before (with no operator kill).
VerdictStands ==
    \A r \in Runs : runStatus[r] \in Verdicts =>
        JobsSettled(r) /\ runStatus[r] = Aggregate(r)

\* The durable progress of a Pro survives everything: an outcome, once
\* recorded, is never replaced, completed stages stay completed and the
\* round ledger only grows, one round at a time.
ProgressIsDurable ==
    [][\A j \in Jobs :
           /\ winner[j] # "none" => winner'[j] = winner[j]
           /\ checkpoint'[j] >= checkpoint[j]
           /\ rounds'[j] \in {rounds[j], rounds[j] + 1}]_vars

\* Every run that is created comes to rest: its jobs terminal and its status
\* terminal or degraded, whatever crashes on the way.
RunsSettle ==
    \A r \in Runs : runStatus[r] = "queued" ~>
        JobsSettled(r) /\ runStatus[r] \in TerminalRun \cup {"degraded"}

\* A terminal run is immutable: no worker that read the run before a kill
\* writes a live status over it (the comment of kill_run; the code breaks it).
TerminalRunIsImmutable ==
    [][\A r \in Runs : runStatus[r] \in TerminalRun => runStatus'[r] = runStatus[r]]_vars

=============================================================================
