# A TLA+ model of Waypoint V2

Waypoint turns a list of customers ("Pros") into one vetted recommendation
each. The program is a Python backend (`services/api/src/waypoint`) on
Postgres, a worker process with several claim-and-process loops, and a web
client. Everything that can go wrong between them goes wrong in the database:
rows are shared, steps are transactions, and any loop may die or be overtaken
between two of them. These modules model that.

## 1. Inventory

| Part | State | Operations | Correct when |
|---|---|---|---|
| Job queue (`queue.py`) | `jobs`: status, worker, lease, attempts, checkpoint | claim, heartbeat, checkpoint, reap | one owner does paid work; no job is lost or tried too often |
| Worker loop (`worker.py`) | claim in hand, sessions | claim, run_job, idle maintenance | every run comes to rest |
| Pro pipeline (`pipeline.py`) | `runs.status`, `candidates`, `evolve_rounds`, `winners`, `measurements` | six resumable stages, guard, requeue, finalize_run | progress survives; every Pro gets one outcome; the verdict is true of the jobs |
| Run API (`api.py`) | `runs`, `jobs`, `fleet_control` | create_run, kill_run, handoff | a kill is carried out and stays |
| Paid calls and ledger (`calls.py`, `queue.py`, `llm.py`) | `llm_calls`, `cost_reserved`, `cost_spent`, day ledger, advisory locks | reserve, begin, commit_result, reconcile, abandon, convert | money is counted once, limits hold |
| Evolve loop (`loop.py`, `pipeline.py`) | `LoopState`, replayed from `evolve_rounds`; `candidates`, recorded calls, `persona_evals` | a round: generate, review, rank, screen, commit; final check; score | a resumed owner is where the ledger is; what ships was judged, screened and confirmed itself |
| Handoff (`handoff.py`) | `handoffs` receipts, `runs.audience_query` | ready_rows, push, manual handoff | only winners that may ship are decided, once; a stop nobody is left to overwrite ships nothing by itself; asking again delivers |
| Outcomes and exposures (`outcomes.py`, `exposures.py`) | `touch_outcomes`, `exposures`, warm-start fields of `winners` | ingest, register, promote | disagreement fails closed; a fresh look at a winner leaves it only what is proven; measurements stand |
| Checkpoint sweep (`checkpoints.py`) | `returned_1d` ... of `touch_outcomes`, `returns_checked_at` | synthesize, resolve | silence is graded only where returns were looked for; every send is measured |
| Pollers (`iterable_source.py`, `amplitude_source.py`, `cursors.py`) | `poll_cursors`, coverage stamps | poll one window, look up a Pro | no event is skipped, replays are harmless, a stamp is honest |
| Items (`items.py`) | `items` | resolve_item | one id per concept, versions count bumps |
| Pure rules | none | select_panel, select_winner, gate_pro, create_plan | agree with their definition |

The parts meet in a few places: a worker loop reads and writes job and run rows
with no lock of its own but the ones Postgres gives a transaction; a pipeline
session and a calls session of the *same* loop are two transactions; the API
writes the same rows from another process; after a job, the loop pushes its
winner; outcomes later flow back to winners.

The hard behaviours are listed one by one, at their lines, in the `hazards` of
`PROJECT.json`.

## 2. Modules

| Module | Models |
|---|---|
| `RunLifecycle` | the queue, the loops, run_job and its stages, finalization, maintenance, create and kill |
| `PaidCalls` | `MeteredLLM.complete` commit by commit, the reservations, both cost ledgers, the fleet slots, the recovery of calls a dead attempt left |
| `EvolveLoop` | the stages of one Pro's job that spend money: rounds, final check, score, measure, with replay of the ledger and of recorded calls |
| `Handoff` | the trickle of a worker, the operator's request, the boundary to the LCM, the audience lineage |
| `Intake` | what `Handoff` promises: an abstract specification it implements |
| `Evidence` | ingest of outcomes, the exposure registry, the sweep as a writer, promotion of a winner |
| `Checkpoints` | the return poller, its coverage stamps, the checkpoint sweep |
| `SendPoller` | the poller of sends and clicks, its window and its cursor |
| `MC...` | the instances of each for TLC |
| `RunLifecycle_proofs`, `PaidCalls_proofs`, `EvolveLoop_proofs`, `Handoff_proofs`, `Evidence_proofs`, `Checkpoints_proofs`, `SendPoller_proofs` | their theorems |
| `DataInduction` | induction over numbers and finite sets, recursion and sums, stated so that the provers can use them |

The modules look at one program from several sides, and meet at rows. In
`RunLifecycle` a paid call is one step that may answer, fail or be refused, and
jobs, kills and verdicts are exact; in `PaidCalls` a job is claimed, loses its
lease and ends, and every commit of a paid call is a step. `EvolveLoop` is the
inside of the stages that are one step or a few there, for one owner at a time.
`Handoff` starts where an attempt records a winner and returns. `SendPoller`
registers the exposures, `Checkpoints` grades the silence after them, and
`Evidence` merges what both, and others, report, and derives the winner's
eligibility, which `EvolveLoop` reads back as `similar` and `failing`.

### RunLifecycle

A step is one database transaction, or one read whose result is used later.
`pc[w]` is where a loop is between two steps; the other local variables are
what it remembers. A crash clears the local variables and leaves the rows.

*State.* `runStatus`, `jobStatus`, `owner` (`worker_id`), `lease` (`lease_until`
against `now()`), `attempts`, `checkpoint` (the number of stages recorded: they
are recorded in order), `rounds` (rows of `evolve_rounds`), `winner` (the
`winners` row), `fleetKilled`. Local: `cur`, `target`, `stage`, `round`, and the
two values run_job uses after they may have changed: `seen` (a status cached by
`load`, a decided row or a computed verdict) and `tries` (the cached attempts).

*Two row locks* are modelled because the behaviour turns on them.
`_heartbeat` updates the job row and does not commit; the row stays locked until
the pipeline session commits or rolls back (`HoldsRow`). Claims skip a locked
row and all other writers wait (`JobRowFree`). `kill_run` assigns the run's
status and then queries the jobs; the autoflush of that query locks the run row
until the commit (`RunRowFree`), and `RESERVE_RUN_SQL`, the reconciliation and
every status write wait for it.

*Actions and code.* `Claim` is `CLAIM_SQL`; `Load`, `SetRunning`, `FetchOk`,
`FetchFails`, `SetWaiting` are run_job up to its stage loop; `EnterStage` the
checks at the top of a stage; `Guard` is `_guard`; `Reserve`, `ReserveRefused`,
`ReplayCalls`, `CallReturns`, `CallFails` one paid call; `CommitCache`,
`CommitRound`, `AbstainRound`, `CommitResult`, `DecideOutcome`, `InsertOutcome`
the commits of the stages; `CompleteStage` the checkpoint; `Finish*`, `StopRun`,
`RequeueCrashed` the ways a job ends; `FinalizeRead` and `FinalizeWrite` the two
halves of `finalize_run`; `Beat` and `Sweep` the idle maintenance; `KillCheck`,
`KillFlush`, `KillCommit` the three moments of `kill_run`. Unique constraints
are alternatives: the second insert raises.

*ORM caching.* `set_run_status` and `requeue_job` act on rows in the session's
identity map (`expire_on_commit=False`), so they see what `load` saw, while
`finalize_run`, the guard and the stage checks read afresh. After a rollback
everything is expired, so the crash path requeues on fresh attempts.

*Left out or simplified.* The order claims take (oldest first: with it TLC would
see fewer behaviours, not more); `stop_reason`, failure texts and lineage; the
content of rounds; one paid call stands for the calls between two guards and
the two concurrent screens of a tie; a run is killed at most once; the sweep
reads the stalled runs one at a time; legacy `recommend` jobs; database errors
outside a stage, which act like a crash.

*Properties.*

- `PaidExclusive`: two workers are never both past the guard of one job.
- `DoneHasOutcome`: no Pro is done without an outcome row, though a stage may be
  completed by one attempt and skipped by another.
- `ProgressIsDurable`: an outcome, a completed stage and a round are never lost.
- `VerdictStands`: a verdict is given to a settled run and remains its aggregate.
- `RunsSettle`: every run comes to rest.

### PaidCalls

A paid call is a chain of commits, on a session no pipeline rollback undoes:
reservation with pending row, answer, reconciliation. `row[k]` is the
status of the `llm_calls` row of the call with key `k`, and the ledgers are
`reserved` and `spent` of a run and `dayReserved` of the fleet, on `day`.

*Actions and code.* `Lookup` is the branch at the top of `complete`; `Reserve`
takes the reservation and begins or renews the row; `TakeSlot` is
`FleetSlots.acquire`, `Answer` and `CallFails` are the gateway, with the
`finally` that frees the slot; `Refresh` and `CommitResult` are the two halves of
`commit_result`, which reads the row and later writes it by id; `Settle` is
`reconcile_cost` with `mark_reconciled`. A recorded row that was never reconciled
goes from `Lookup` straight to `Settle`. `SelectStale`, `AbandonStale` and
`ConvertStale` are `_resolve_abandoned_calls`: a read and two commits. `Guard`,
`Preflight`, `CompleteStage` frame a stage; `Claim`, `LeaseExpires`, `Crash`,
`Kill` and `Midnight` are what happens around it.

*The lock.* As in `RunLifecycle` the heartbeat of a guard locks the job's row
until the stage first commits on the pipeline session, after its last call
(`CommitStage`); these are the labels of `Guarded`. A claim, a guard, a kill and
`CompleteStage` wait for it (`JobRowFree`). The recovery runs before the guard,
without it.

*State that is not in the database.* `paid` is what the provider charged, `today`
the date: properties compare the ledgers with them.

*Left out or simplified.* One guard and one set of calls per stage, so evolve has
one round, and the fallback of the held-out check shares its stage's guard; the
two concurrent screens of a tie, which are calls of one attempt at once; all
calls have the same worst case; the fleet kill switch, which refuses like a
limit; the run-row lock of a kill (`RunLifecycle` has it); the unique key of a
new row, which no two attempts insert at once because of the job's lock.

*Properties.*

- `HoldCoversCalls`: until a call is resolved its worst case is on hold.
- `LedgersAgree`: on one day, fleet ledger = run holds + run spend.
- `ChargesAreCovered`: what the provider charged a run, lost answers included, is
  spent on the run's ledger or still on hold there. It holds wherever attempts die or
  outlast their leases; that a *done* run has nothing left on hold does not (section 3).
- `RecordedAnswersAreReused`: of two attempts, none pays for a recorded answer.
- `SlotIsGranted`: waiting for a slot ends.

### EvolveLoop

One Pro and one owner at a time; who the owner is belongs to `RunLifecycle`.

*State.* Rows: `ledger` (`evolve_rounds`), `cands` (`candidates`, each with the
idea its verdict and its screen were given to, which the code does not store and
the properties need), `calls` (the recorded answers of the round in progress, by
call key), `evals` (`persona_evals` of its ideas), `outcome`, `measured`,
`evolved`. The world: `failing`, the mechanisms the Pro's own outcomes veto, and
`similar`, the best past winner of a similar Pro. Local, lost in a crash: `loop`
(`LoopState`), `failed` and `warm` (what it read of the world), this round's
failures and screens.

*Data.* An idea is its mechanism, for `_dedupe_mechanisms` leaves one of each in
a round. A score is a small number; a persona panel is only whether it could be
seated. `Keep` collects the ideas of a batch that are new, in their order,
`Dedupe` is `_dedupe_mechanisms` and `IdeasOf` what the batch and its refills leave.

*Actions and code.* `Start`, `IsWin`, `ApplyRound`, `StopReason`, `Replay` are
`loop.py`. `Ideas`, `Rankable`, `Finalists` compute what the round is made of
from the recorded calls, as the code does when it replays them; `Generate`,
`Review`, `Rank`, `CallScreen` record one more; `TakeScreen` is the cache of
`_react`. `CommitRound` is the one commit of candidates, dethroned champion and
ledger row. `EnterFinal`, `CallFinal`, `DowngradeFinal`, `CommitFinal` are the
held-out check with its two tiers, `Score` is `select_winner` over the champion,
`Measure` the war game and the plan. `Crash` is any death or raise; `Veto` and
`Promote` change the world between attempts.

*Left out.* `next_mode`, which only words a prompt; budget and preflight, which end
a job as `StopJob` does; the second owner of an outlived lease.

*Properties.* `OneChampion`: statuses agree with the replayed ledger. `BestWins`:
no candidate that deserved the title was passed over. `ResumeForgetsNothing`: the
resumed state is the ledger's, and nothing ranked is bought again.
`VerdictsAreOwn`: verdicts recorded by position were of the idea they judge.
`ShippedIsConfirmed`: a winner went the whole way.

### Handoff and Intake

*State.* Rows: `stopped` and `lineage` of the one run, `winner`, `measured`,
`receipt` (`handoffs.status`). `job` is where the attempt at a Pro, or a finalizer of
the run, is. Local to a sender (a worker after `run_job`, or the operator's request):
`pc`, `scope`, and three values used after they may have changed: `absent` and `todo`
(receipts as the session loaded them) and `reply`. Outside: `wire`, the batches under
way, and `decision`, what the LCM made of a row. `asked` is history.

*A stop is not final in the code*, and not in the module. An attempt that loaded the
run before the stop writes its live status over it (`SetRunning`), or `waiting` if the
context is down (`ContextDown`); a finalizer that read it before writes its verdict
(`Aggregate`, `Conclude`). The trickle then ships again. `NobodyRevives` says that nobody
of that kind is left.

*Actions and code.* `LoadRun`, `SetRunning`, `ContextDown`, `Fetch`, `Advance` and
`RunJobReturns` are the attempt, with the stamp of the lineage: the placeholder is
looked for in the row as loaded, which two attempts may have loaded at once
(`Stamped`). `Stop` is a kill, or an attempt that stops its run. `CheckRun` is the status
check of `push_ready_winners` and the lineage check both paths make; `ReadReady` is
`ready_rows` with `_load_existing`; `InsertPending` the insert `ON CONFLICT DO
NOTHING` and the second read, which returns rows of the identity map as they
were; `Post`, `Unavailable`, `Record`, `Crash` one POST and its receipts. `Take` is
the LCM, which is external: it may take any part of a batch, at any time, and
answer only if it took all. Its idempotence per row is what the code relies on.

*Abstract specification.* `Intake` knows rows, decisions and receipts only: a row
is announced, decided at most once, and recorded as decided. `Promise` maps
`receipt` by reading a duplicate as accepted; `ImplementsIntake` is checked by TLC
and proved.

*Left out.* Several runs; the content of a row; authentication of the request.

*Properties.* `OnlyShippable`: only measured, lineage-resolved, non-call winners
are decided, degraded ones only if the operator asked. `StopWithholds`: once the pushes past their
check are over and nobody is left who read the run before the stop, it stays stopped and
starts no batch unless the operator asks. `ImplementsIntake`.
`RetriesDeliver`: asking again delivers.

### Evidence

One touch: a winner, its treated and its control exposure. Requests, both pollers and
the sweep are *sessions* (`Procs`), and they interleave at every read, flush and commit:
the code has no lock but those Postgres takes.

*State.* `born` and `win` of the winner's row, `exposure`, `stored` and `row` of
`touch_outcomes` by (recommendation, source); `pc` and `txn`, where a session is and what
it holds. Only the decisive horizon, Day 7, is kept. Three variables are history: `claims`,
the routings claimed so far; `overtaken`, what others committed since a session began
to read; `blind`, the rows and exposures some session wrote over a commit it had not seen.

*Actions and code.* An ingest is `Read` (`_resolve_run_pro`, `_prefetch`,
`_existing_by_key`), `Flush` with the promotion computed from what its session then sees
(`promote_winners`: its own row as written, rows it loaded as loaded, others as
committed), and `Commit`, which writes only the columns that changed (SQLAlchemy's unit
of work). `Retry` is the second attempt after an integrity error, from a fresh read;
`Refuse` the error of the second. A registration is `RegisterRead` and `RegisterCommit`,
with `RegisterRetry` where a sibling stored the exposure first. A sweep is `SweepRead`,
`Grade` (the winner is loaded after the row is graded) and the same `Commit`;
`RecordWinner` is the score stage. `MergeRouting`, `FillHorizon`, `Limited`, `Promoted` are the
rules.

*Locks.* A flushed row, and one a sweep has read `FOR UPDATE`, is locked until its session
ends (`RowFree`). A sweep also locks the exposure it synthesizes for: a registration of it
and a flush that comes to refer to it wait (`NotSwept`), and it skips one that a flushed
row refers to (`NotShared`). A session that only read holds nothing.

*Left out or simplified.* A batch is one record and a sweep one row: what several rows of
one commit do together is not modelled. A synthesis that loses its race rolls back
and leaves nothing. A registration that names an unknown winner stores nothing.

*Properties.* `DisagreementFailsClosed`: evidence was never claimed to be anything but a
real send, but where a session wrote over a commit it had not seen. `EligibilityIsEarned`
and `GrantIsCausal`: a session about the winner that no commit overtakes leaves it eligible
only on a surviving return, with arms only on a treated return beside an observed
control, whatever stale sessions had granted. `MeasuredStands`: Day 7 is rewritten only
by a session that read the row before it was measured. What the exceptions leave open is
false of the code, and at the end of section 3.

### Checkpoints

*State.* `checked` is `returns_checked_at`, `rows`, `first` and `flag` the outcome
rows, `heartbeat` the poller's row of `poll_cursors`, `learning` the switch
`LEARNING_KILL_SWITCH` (`SetLearning`). `tick`, `stamps` and `sweep`
are what the two loops hold. Time is counted in a unit that divides the horizons
and `GRACE`.

*Actions and code.* `StartPoll`, `Lookup`, `PassOver`, `Stamp`, `EndPoll`, `FailPoll`
are one tick of the return poller; Amplitude is external and may answer with any
part of what is younger than `GRACE`; an out-paged lookup sees only what is newer than
some page, so that a later return may be ingested as the first. `Confirm` is a report
that dates the send, and may come again with another date (`ClockMayMove`).
`StartSweep`, `FinishSweep`, `FailSweep` are `synthesize` and `resolve`: the gate is read first, the rows are graded by the
stamps as they are when locked; what is synthesized and what is graded is at most
`Limit` rows each, the oldest sends first (`Oldest`). Neither loop begins while learning
is switched off.

*Properties.* `CoverageIsHonest`: a stamp says that everything up to it was looked
at. `NegativesAreProven`: a gated sweep grades "no return" only where there was
none, or where another row knows of it. `SendsAreMeasured`: every confirmed send
is measured in the end.

### SendPoller

*State.* `cursor`, `exposure`, `outcome`; the messages with their times and the time
their winner becomes visible; the kill switch of learning; the tick's window.

*Actions and code.* `StartTick` is the window (`since`, lag, catch-up, minimum),
`RegisterSends` the sends with the gate of the run and the deferral,
`IngestClicks`, `RefuseClicks` (the foreign key) and `RejectClicks` (a 400) the
clicks, `SaveCursor` the commit of the cursor, `FailTick` a death anywhere.

*Properties.* `CursorIsHonest`: the cursor passes nothing unstored.
`LateWinnersOnly`: a link is not lost to the race with the pipeline.
`SendsAreRegistered`: no bogus run stalls the poller.

## 3. Runs

| Run | Instance | Question |
|---|---|---|
| `lifecycle_stages` | 1 Pro, 2 workers, 2 attempts, a round, optional stages busy, kill, fleet switch, any label may outlast the lease | is paid work exclusive, has every done job an outcome, is progress durable? |
| `lifecycle_settle` | 2 Pros, 2 workers, 1 attempt, crashes, two finishers, weak fairness | do verdicts stand, do runs settle? |
| `kill_overwritten` | 1 Pro, 2 workers | first disagreement below |
| `calls_crash` | 2 Pros, 3 calls, tight limits, one slot, survived failure of one call, kill, crashes between any two commits, weak fairness | do holds cover calls, do the ledgers agree, is a slot granted? |
| `calls_stale` | 1 Pro, a call in each of two stages, 4 attempts, leases outlasted and crashes anywhere, a survived failure, a midnight | are answers reused, is every charge covered? |
| `limit_overspent` | 2 Pros, 3 calls | second disagreement |
| `evolve` | 2 mechanisms, 2 rounds, a refill, a death, a veto or a new past winner | do ledger, candidates and resumed state agree, did what ships go the whole way? |
| `warm_resume` | the same, a death in a warm round | third disagreement |
| `handoff` | 2 Pros, a worker, the operator, one late POST, one attempt or finalizer at a time that may revive a stopped run | is only the shippable decided, does a stop withhold once nobody is left to overwrite it, is `Intake` implemented, does asking again deliver? |
| `evidence` | 1 winner, 2 exposures, 2 sessions, 9 records of 4 sources, 3 registrations, sweeps, 5 of them in all | is evidence closed against disagreement, what a fresh session leaves earned and causal, a measurement safe from whoever has seen it? |
| `checkpoints` | 1 send, 2 horizons, 2 visits, time 0..4, out-paged lookups, a switch | are stamps honest, negatives proven, sends measured? |
| `poller` | a send of a run and another, time 0..5, 2 flips | is the cursor honest, the link kept, every send stored? |

### Bounds

*Lifecycle.* Two workers are the least that race, and a job has one row: a third
worker repeats what the second does. Two attempts give a claim, a reclaim and
exhaustion; the code's default is three, and the proofs cover any number. Two Pros give a
first and a last finisher. `MaxRounds` bounds the rounds of a Pro (`loop_config`
bounds them in the code), `MaxFlips` the deployments that change `KILL_SWITCH`, `Busy` names the
optional stages that find work. `SlowAt` names the labels at which a live loop may
outlast its lease: nowhere or anywhere.

*Calls.* In `calls_crash` two Pros of one run share its ledger, two workers, three
calls: one Pro has a call in each of two stages, so that a later stage can meet what
an earlier one left, the other has one; each has two attempts. `calls_stale` is about
attempts at one Pro, and allows four of them: what an attempt leaves is taken up by
a second, and what that one is still doing may be undone by a third. The worst case
is 2, the charge 1 or 2, so that reserved and charged differ; the limits are a call or two
away. `MaxDays` midnights. `CrashAt` and `SlowAt` name the labels at which an attempt
may die and may outlast its lease: in `calls_stale` everywhere. `Swallowed` are the
calls whose failure the pipeline survives: one in either run.

*Evolve.* Two mechanisms give a winner, a loser, a tie and a suppressed idea; a
warm round asks for one more and is always refilled; two rounds are the least in which a champion
is dethroned or kept; a score is below the floor, at it, or above the threshold.
One death, one veto and one retrieval each meet every state. `StableSpec` starts
where a warm start is offered but nothing changes, or none is offered and
everything may change: a warm round that is redone is `warm_resume`.

*Handoff.* Two Pros, one that ships and one that may be degraded or a call; one
worker and the operator are the two senders that race on a row; one POST is taken
after its sender gave up, which is enough to decide a row twice.
`MaxJobs` is the attempts and finalizers under way at once: one suffices to revive the
run, and what a second would have loaded is a choice of `Stamped`.

*Evidence.* Two sessions are the least that overlap: one reads, the other commits, the
first one writes. `MaxWrites` is five: two that leave a treated return beside a control, one
that takes the proof away, one that does not see it, and one that comes after. In the
instance each exception of the properties is reached: without it TLC finds a stale
grant, a grant without a pair, a lost claim and a rewritten Day 7. The nine records are
the ways a touch can be named, crossed with what they can say.

*Checkpoints, poller.* The horizons differ by a unit, `GRACE`, lag and minimum
window are a unit, so that each boundary comparison is met with equality and on
both sides; time ends when the last horizon plus grace has passed. `Limit` is 1,
which makes a sweep leave rows behind. Two visits let an out-paged lookup take the
later one for the first. At the end of time nobody visits any more, since no window that
holds the visit can close, and learning is on: switched off, it only delays, for which
there is no time left.

*Deadlock* is not checked, in any run: bounded time and counters, and a run that
is finished, leave nothing to do.

### Fairness

`FairSpec` is weak in `RunLifecycle` and `PaidCalls`: a loop that can take its next
step takes it (asyncio runs every ready task, Postgres answers), the maintenance
loop beats, a lease expires because time passes, an accepted kill request
continues. Nobody is obliged to crash, to raise, to kill or to deploy. A step that
waits for a row lock is disabled, so fairness never breaks a wait. `RunsSettle`
assumes the fleet is not killed and no lease is outlived. A wait for a slot ends
because the only slot is freed by an answer, a failure or a crash; calls and
attempts are finite, so nobody can be overtaken for ever, and the run says nothing
of an unbounded stream of calls.

In `Handoff` the operator keeps asking (the recovery `push_winners` documents), and
strong fairness says that of infinitely many requests one is answered in full and
recorded. In `Checkpoints` and `SendPoller` the loops return
(`POLL_SECONDS`, `CHECKPOINT_SECONDS`), and strong fairness of their commits says
that a request which fails, or a process which dies, does not do so every time;
the operator who kills learning revives it (in `Checkpoints`, `SetLearning(TRUE)` is weakly
fair; `Tick` is strongly fair, because the bound holds the last tick back while learning
is off, and a switch set again and again must not stop time). `EvolveLoop` and `Evidence` state safety
only.

### What disagrees with the code's own words

Three are shown by a run:

- `kill_overwritten`: a worker loads a run, the operator kills it, the worker
  writes `running` over `stopped` (`set_run_status` writes the cached row). The
  comment in `kill_run` calls a terminal run immutable.
- `limit_overspent`: the limit is compared with the open holds only; a settled
  call gives its headroom back and the next one takes it again.
- `warm_resume`: a worker dies in round 1, the successor retrieves another past
  winner, the replayed batch is ordered by the new one (`_dedupe_mechanisms`), and
  the recorded verdicts, which are positional, judge other ideas: one competes
  that no critic let through.

The others were met while modelling. They hold of the instances named and no run
repeats them.

- A guard locks the job row and the reservation then waits for the run row, which
  `kill_run` holds while it waits for the job row. Postgres sees no cycle, for the
  third link is inside the worker, and no timeout is configured.
- The context call may take three times its timeout while the lease covers two.
  The second owner takes the last attempt; the first one's fetch fails and
  `requeue_job`, counting the attempts it cached, puts the job back: no claim
  takes it, no reaper fails it (`RunLifecycle` with `SlowAt` of the fetch).
- An attempt whose fetch outlasted its lease recovers before its first guard, and
  abandons what the new owner has in flight (docstring of
  `_resolve_abandoned_calls`).
- Calls are abandoned in one commit and converted in the next; a crash between
  leaves a hold nobody looks for: the charge stays covered (`ChargesAreCovered`), but as a
  hold of a done run, whose reported `cost_spent` misses it. So does a failed war-game call,
  which the last stage survives (`pipeline.py:1493`): no stage follows that would
  resolve it. `calls.py:249-250` expects every reservation to be resolved on resume.
- A run can be done with a hold that stays. Worker 1 outlasts its lease before it
  resolves; worker 2 claims and calls; worker 1 abandons that call, which is alive,
  and stops at its guard. Worker 2's answer is accepted, but the row stays
  abandoned, so that the call ends without reconciliation. Worker 2 commits the
  stage and outlasts its lease before `complete_stage`; worker 3 renews the
  abandoned call with a new reservation and dies; worker 2 records the stage
  (`checkpoint_job` asks for no owner) and finishes the job. Nobody looks at the
  call again. It takes three attempts, the default. `calls_stale` has this
  behaviour, as it has the two before it.
- A stopped job can come back. Worker 1's reservation is refused after its lease was
  taken; it stops the run and finishes the job as stopped, while worker 2, who has
  it now, writes `resumed` over the run and then fails to fetch: `requeue_job`
  queues the job again. A kill that read the job in between does not wait for
  what a third attempt pays for, so that a kill may be acknowledged with a guarded call
  in flight.
- A stop of a run is undone by whoever read the run before it: an attempt writes its live
  status (`pipeline.py:1653`, the run `kill_overwritten`) or `waiting` (`pipeline.py:1659`), a
  finalizer its verdict (`pipeline.py:1598`). After a verdict that lets winners ship, or
  while a live status stands, the trickle ships what the stop withheld, though
  `push_ready_winners` says that an operator kill "must keep working". `StopWithholds` is what
  remains true.
- `RECONCILE_DAY_SQL` asks for the day of the ledger and not of the reservation:
  a call that crosses midnight can lower the new day's ledger by a hold it never
  had. A call left pending by a provider failure is "resolved on resume", which a
  failed or stopped job never does.
- Two attempts that loaded the placeholder lineage both stamp it, the second over
  the first (`pipeline.py`, the fetch stage; `Stamped`).
- `_abstain_pro` on a panel shortage discards the champion of earlier rounds
  (`NoPanel`). A recorded screen is keyed by its token: after a veto changed which
  ideas are ranked, another idea's answer may be replayed.
- A row of another source is swept to "no return" although the amplitude row of
  the send knows of the return, for each row is graded by itself
  (`NegativesAreProven` says as much as holds). An out-paged lookup ingests the first
  return it sees, which may be a later one; `outcomes.py:130-134` derives from it that the
  shorter horizons had none. `amplitude_source.py:55-58` says that without coverage
  silent horizons stay unmeasured; these become negatives at ingest, which asks for no
  stamp, and `NegativesAreProven`, which is about the sweep, says nothing of them. Click rows of settled exposures
  and unresolved identities stay at the head of their `LIMIT`. Rows keyed by the
  winner are never graded while gated, which is why `SendsAreMeasured` excludes
  them. The heartbeat is saved at the end of a tick: a sweep before it is ungated.
- Sessions that read before one another's commits write over what they have not seen
  (`Evidence`, the exceptions of its properties). Two updates of one stored row, or two
  registrations of one exposure, are read-modify-writes: the last claim wins and a
  conflict is lost, though `merge_routing` is to fail closed. An ingest that read a row
  before a sweep graded it writes its return over the measured "no", though
  `outcomes.py:350-352` says that a resolved value is never rewritten. A promotion computed
  while a sibling commits a bounce, or the loss of the control, leaves a grant nothing
  proves, until the next report or sweep of the winner that nobody overtakes.
- A conflict or a late link that reaches an exposure does not re-evaluate the outcome rows
  already stored. In `_promote_warm_start` a treated-only observation changes the
  status only if it is positive, so that what it says depends on order.
- A report keyed by one exposure that names another moves the row to the second; the
  winner of the first, which the row was the proof of, is not promoted again
  (`outcomes.py`, the merge by key): its next report repairs it.
- A click whose exposure was never registered (its send malformed, or sent before
  the first window) is refused by the foreign key, twice, and with it the tick:
  the cursor stays (`SendsAreRegistered` with `Malformed = {m1}`). The comment of
  `_event_to_outcome` expects such a click to be stored. While no cursor is saved
  the first window slides.

## 4. Proofs

`RunLifecycle_proofs` proves, for any runs, jobs, workers, attempts, rounds,
busy stages, flips, kills and slow labels (`LifecycleAssumption`: jobs belong to
runs, the bounds are natural numbers), four theorems: `TypeCorrect`,
`PaidWorkIsExclusive`, `EveryDoneJobHasAnOutcome`, `DurableProgress`.

None of these invariants is inductive. `IInv` adds what they rest on:

- `LocalInv`, what a loop holds at each label: a job inside run_job, a run while
  finalizing, a verdict before it is written, a round to spare past the guard;
- `CreatedInv`, that nothing happens to a run before it is created, without which
  the creation of a run could reset a job somebody works on;
- `OutcomeInv`, that a loop past the score stage has seen the outcome row, which
  is why `FinishReady` cannot finish a Pro without one.

`PaidExclusive` is kept because each writer of a job's row or owner waits for the
heartbeat on it: the claim, the requeue, the finish, the reaper and the kill each
have a step saying so. `DurableProgress` is the same invariant read over steps.

The same module goes on for a deployment in which no step between two heartbeats
outlasts the lease (`SlowAt = {}`, the assumption that `lease_seconds` is chosen to
satisfy) and where nobody kills (`Killable = {}`, for the code lets a kill be
overwritten): `VerdictsStand` proves `VerdictStands`. What carries it:

- `LeaseInv`: a job in hand has its owner and a held lease, so no other claim and
  no reaper takes it;
- `TriesInv`: the attempts a loop read with its claim are those of the row, so the
  comparison that decides between a requeue and a failure is made on a true count, and
  no job is queued without an attempt left;
- `RunningInv`: a job in hand runs, and a verdict still to be written is the
  aggregate of a run whose jobs have all ended. Ended jobs stay as they ended
  (`EndedStays`), so the verdict is still true when it is written.

`PaidCalls_proofs` proves, for any runs, jobs, calls, workers, limits, days,
crashes and slow labels (`CallsAssumption`), `CallsInvariance`, `CallsTyped` (with
it: no hold exceeds a limit), `OneAttemptPays` and `AnswersArePaidOnce`. The
argument of the last: an outstanding call is `pending` or `abandoned`
(`Unrecorded`), for whoever would record it must be past the guard of the same
job, where only one attempt can be (`Exclusive`), and the call in hand is one of
the job in hand (`LocalInv`). The lock, not the lease, carries the argument:
nothing is assumed of `SlowAt`.

`HoldsCover` proves `HoldCoversCalls` for `SlowAt = {}`. Here the
lease matters, because the recovery of a dead attempt's calls runs before the
guard. `OwnerInv` gives a job one owner, `RecoveryInv` says that the calls a recovery
holds are as it left them. `HoldInv` is the strengthening: a run's hold covers
`Worst` for every call it *owes*, those outstanding and those abandoned whose hold
is not converted yet. Each step that lowers the hold resolves as many calls as it
gives up worst cases, and no other step adds a call without adding its worst case.

`LedgersMoveTogether` proves `LedgersAgree` for finitely many runs within a day
(`MaxDays = 0`; after a midnight it is false of the code), again for `SlowAt = {}`.
Each of the three writers of the ledgers moves the fleet's ledger by what it
moves a run's two (a sum changes by the change of one summand); that a conversion or
a settlement is never cut off at zero, where the two would part, is `HoldInv`.

`ChargesCovered` proves `ChargesAreCovered`, and assumes nothing of leases, deaths, midnights
or survived failures. `CourseInv` follows an attempt: who has a call in hand owns the job
(`Owns`), and past its recovery nothing of the job is pending but what it has in hand
(`Resolved`), so that a call is in at most one hand at a time. `MoneyInv` is the account of a
run: each call has a *credit*, its worst case while it is out, and then what the worst
case leaves over the charge until that is settled; what was paid and all credits are at
most what is spent and held (`Backed`). A settlement gives up the credit of its call, and a
conversion moves a hold into what is spent, so that it may be done twice without losing
a charge.

`EvolveLoop_proofs` proves, for any mechanisms, numbers of candidates, rounds and
refills, scores, deaths, vetoes and retrievals (`EvolveAssumption`), `LoopTyped`,
`LedgerNamesTheChampion` (`OneChampion`), `ResumptionForgetsNothing`
(`ResumeForgetsNothing`), `TheBestWins` (`BestWins`) and, for `StableSpec`,
`VerdictsBelong` (`VerdictsAreOwn`) and `ShippedWentTheWholeWay`
(`ShippedIsConfirmed`). First come lemmas about the recursive functions of the
module: what `Keep`, `Dedupe` and `IdeasOf` return has no idea twice and no idea that
was not offered, and the replay of a longer ledger is the replay of the shorter,
one round on. `LoopInv` says that the ledger, the candidates and the owner's
`LoopState` are one history: a candidate's status is what the replay makes of its
round, and the state in hand is the replay, at whatever label the owner dies.
`TheBestWins` assumes `KeepDelta > 0`: with a zero margin a challenger that ties the
champion takes its place, and the dethroned one scored as much. `StableSpec`
starts where a warm start is offered but nothing changes, or none is offered;
`Stable` says what that leaves: the ideas of the round are the same whenever it is
redone, so that a recorded verdict or screen is still about the idea at its position
(`OwnVerdicts`). Without it the property is the violation `warm_resume` shows.

`Handoff_proofs` proves, for any Pros, workers, kinds of winner, versions and late
POSTs (`HandoffAssumption`), `HandoffTyped`, `DecidedMayShip` (`OnlyShippable`),
`StopIsFinal` (`Spec => StopWithholds`) and `BoundaryImplementsIntake`
(`Spec => ImplementsIntake`). The invariant says of each
place a row passes through that it may ship and has its durable row: what a sender
read (`SenderInv`), what is under way and what is decided (`WireInv`); and that what
a sender was told and what a receipt says is what was decided (`HonestInv`).
`ReadyStays` is why a check made once suffices: nothing that makes a winner
shippable is ever taken back. Of the refinement, an insert announces, a `Take`
decides what was undecided of it, a `Record` records, and every other step
stutters.

`Checkpoints_proofs` proves, for any exposures, Pros, horizons and grace
(`CheckpointAssumption`), `StampsAreHonest` (`CoverageIsHonest`) and
`SilenceIsProven` (`NegativesAreProven`). `ClockInv` and `ReachInv` bound the clocks:
no stamp, saved or still to be saved, reaches past `now - Grace`, so that a later
visit is younger than every stamp; `HonestInv` says of the saved stamps and of
those still to be saved that what they cover was looked up. That the answer of
Amplitude has everything older than `Grace` (`MayHaveSeen`) is where the delay of
indexing enters. The second theorem reads the stamps at the moment of grading;
it assumes that some horizon is the longest, as one of finitely many is.
`CheckpointTyped` proves `TypeOK`: what a tick found due was sent a horizon and
`Grace` before it (`DueInv`), so that no stamp reaches before the beginning, and a
found return is the least of a set of times; that is membership only, for an out-paged lookup
may date a return later than the first.

`SendPoller_proofs` proves `LinksWait` (`LateWinnersOnly`) and
`CursorPassesNothing` (`CursorIsHonest`), for any sends and any clocks of the poller.
`GivenUpInv` carries the first: what is stored without its winner was old enough,
and its winner came later still. For the second `WindowInv` says that a window
begins at the cursor and ends where everything is indexed, and `StoredInv` how far
a tick has stored. It assumes `StartCursor = 0`: with a first window that looks back
a fixed time, older events are left out by design. `PollerTyped` proves `TypeOK` from
the same invariant, with the part of it that no traffic without a run is stored.

`Evidence_proofs` proves, for any sessions that overlap anyhow, any records, registrations,
exposures and numbers of writes, `EvidenceTyped` (`TypeOK`), `ProofIsEarned`
(`EligibilityIsEarned`), `GrantsAreCausal` (`GrantIsCausal`), `MeasurementsStand` (`MeasuredStands`)
and `DisagreementCloses` (`DisagreementFailsClosed`). They follow from one invariant (`Inv`): what
a session holds is what the tables say, but for the rows and exposures others committed
since it began. `ReadWell` says so of an ingest that read, `SawWell` of a registration, `Sound` of
what will be written over what was read, and `FlushedWell` of a promotion: of a session that
nobody overtook it is computed from the rows its commit will leave (`SolePromotion`). On this
rests `ClaimsInv`: the routing of a row or an exposure that no session wrote blindly says
what was claimed of it.

`DataInduction` holds what the other modules need of numbers and finite sets. The
library states induction for an operator, which no prover here can
instantiate; these lemmas state it for the *set* of the numbers, or of the subsets,
that have the property, and rest on one fact of the library, that every set of
naturals has a least element. From it: a recursion over an interval has exactly one
solution, which is how a recursive function is unfolded, and sums over a finite set
split, grow and change as sums do.

TLC checked each of these invariants on the instances before it was proved.

Every safety invariant and every action property that a passing run checks is
stated by a theorem. Only model-checked are the five liveness properties
`RunsSettle`, `SlotIsGranted`, `RetriesDeliver`, `SendsAreMeasured` and
`SendsAreRegistered`: fairness needs `ENABLED`, which is beyond the prover. The three
properties the code violates have no theorem, of course.

Three theorems speak of what their run has. `HoldsCover` and `LedgersMoveTogether` speak of
`SlowAt = {}`, as the run `calls_crash` does, and the second of one day; `VerdictsStand` of a run
nobody kills, as `lifecycle_settle` does. The rest hold for every value of the constants,
but for the cursor to start from, the positive margin, the longest horizon and
`StableSpec`, each named where the theorem is.

## 5. Not modelled, and plan

- *Items* (`items.py`): a catalogue written once per winner, which no other code
  reads or writes. Its races are decided by one guarded `UPDATE` and one unique
  constraint in the same statement.
- *Pure rules* (`personas.py`, `scoring.py`, `feasibility.py`): `select_winner` and `gate_pro`
  appear as their outcome in `EvolveLoop`; panels, scores and prompts are arithmetic
  and text over data no property here tells apart.
- *Authentication*, the *funnel* report, *migrations*, the *context flow client* and
  the *web client*: stateless, read-only or external.
- Batches of several records and sweeps of several rows in one commit: `Evidence` has one.
- A handoff of several runs at once: `Handoff` has one.

Worth stating next: an abstract ledger, in which every dollar reserved is released
or spent once, and what of it `PaidCalls` implements when no hold is lost.
