------------------------- MODULE RunLifecycle_proofs -------------------------
(***************************************************************************)
(* Theorems about RunLifecycle for every number of runs, jobs, workers,    *)
(* attempts and rounds: first for workers that outlast their lease         *)
(* anywhere, then for those that do not.                                   *)
(*                                                                         *)
(* The invariants of RunLifecycle are not inductive as they stand.  What   *)
(* they rest on is said here: what a worker loop holds at each label       *)
(* (LocalInv), that nothing happens to a run before it is created          *)
(* (CreatedInv), and that a worker past the score stage has seen its Pro's *)
(* outcome row (OutcomeInv).                                               *)
(***************************************************************************)
EXTENDS RunLifecycle, TLAPS

\* Labels at which no job is being worked on, unless the job is finalizing.
Outside == {"idle", "sweep", "finalize", "verdict"}
Paying == Guarded \cup {"persist"}

\* What the local variables of a loop hold at each label.
LocalInv ==
    \A w \in Workers :
        /\ pc[w] \notin Outside => cur[w] \in Jobs
        /\ pc[w] \in {"idle", "sweep"} \/ cur[w] = NoJob => stage[w] = 0
        /\ pc[w] \in {"finalize", "verdict"} => target[w] \in Runs
        /\ pc[w] = "verdict" => seen[w] \in Verdicts
        /\ pc[w] = "insert" => seen[w] \in WinnerKind \ {"none"}
        /\ pc[w] \in Paying /\ stage[w] = Evolve => round[w] < MaxRounds

\* A run that does not exist has no job, no worker and no kill request.
CreatedInv ==
    /\ \A j \in Jobs : runStatus[RunOf[j]] = "absent" => jobStatus[j] = "absent"
    /\ \A w \in Workers : cur[w] \in Jobs => jobStatus[cur[w]] # "absent"
    /\ \A r \in Runs : /\ killPc[r] # "idle" => runStatus[r] # "absent"
                       /\ killSet[r] \subseteq JobsOf(r)
    /\ \A w \in Workers : target[w] \in Runs => runStatus[target[w]] # "absent"

\* A worker past the score stage, or done with it, has seen the outcome row.
OutcomeInv ==
    \A w \in Workers :
        /\ cur[w] \in Jobs
        /\ \/ stage[w] > Score
           \/ stage[w] = Score /\ pc[w] \in {"loaded", "fetch", "complete"}
        => winner[cur[w]] # "none"

\* A step of a Pro's durable progress.
Progress ==
    \A j \in Jobs :
        /\ winner[j] # "none" => winner'[j] = winner[j]
        /\ checkpoint'[j] >= checkpoint[j]
        /\ rounds'[j] \in {rounds[j], rounds[j] + 1}

IInv == TypeOK /\ LocalInv /\ CreatedInv /\ PaidExclusive /\ OutcomeInv /\ DoneHasOutcome

-----------------------------------------------------------------------------
(* Typing.                                                                 *)

\* The labels a worker loop is sent to are labels.
LEMMA Labels ==
    {"idle", "claimed", "loaded", "fetch", "requeued", "stage", "work", "insert",
     "persist", "complete", "halt", "drop", "fail", "crash", "finalize", "verdict",
     "sweep", "paid", "call", "held"} \subseteq Pc
  BY DEF Pc, Guarded

\* A move to a label keeps pc in its type.
LEMMA GotoType ==
    ASSUME LocalTypeOK, NEW w \in Workers, NEW p \in Pc, Goto(w, p)
    PROVE  pc' \in [Workers -> Pc]
  BY DEF LocalTypeOK, Goto

\* A loop that leaves run_job has well-typed locals.
LEMMA LeaveType ==
    ASSUME LocalTypeOK, NEW w \in Workers, Leave(w)
    PROVE  LocalTypeOK'
  BY LifecycleAssumption
   DEF LocalTypeOK, Leave, Goto, Pc, RunStatus, WinnerKind, Ready

\* A loop inside run_job has a job, and that job a run.
LEMMA Working ==
    ASSUME LocalInv, NEW w \in Workers, pc[w] \notin Outside
    PROVE  cur[w] \in Jobs /\ Run(w) \in Runs
  BY LifecycleAssumption DEF LocalInv, Run

\* finalize_run computes a verdict for every run.
LEMMA AggregateType == \A r \in Runs : Aggregate(r) \in Verdicts
  <1>1. SUFFICES ASSUME NEW r \in Runs PROVE Aggregate(r) \in Verdicts
    OBVIOUS
  <1> QED
    BY DEF Aggregate, Verdicts

\* What a stage decides to insert is an outcome row.
LEMMA OutcomeKindsType ==
    ASSUME NEW w \in Workers
    PROVE  OutcomeKinds(w) \subseteq WinnerKind \ {"none"}
  BY DEF OutcomeKinds, WinnerKind, Context, Evolve, Final, Score

\* Every transaction leaves rows of their types: attempts stop at
\* max_attempts (CLAIM_SQL) and rounds at the loop's bound (_stage_evolve).
LEMMA DbTypeStep ==
    ASSUME TypeOK, LocalInv, Next
    PROVE  DbTypeOK'
<1>1. ASSUME NEW r \in Runs, CreateRun(r) PROVE DbTypeOK'
  BY <1>1
   DEF CreateRun, DbTypeOK, RunStatus, TerminalRun, JobStatus, TerminalJob,
       TypeOK
<1>2. ASSUME NEW r \in Runs, KillCheck(r) PROVE DbTypeOK'
  BY <1>2 DEF KillCheck, dbVars, DbTypeOK, TypeOK
<1>3. ASSUME NEW r \in Runs, KillFlush(r) PROVE DbTypeOK'
  BY <1>3 DEF KillFlush, dbVars, DbTypeOK, TypeOK
<1>4. ASSUME NEW r \in Runs, KillCommit(r) PROVE DbTypeOK'
  BY <1>4
   DEF KillCommit, DbTypeOK, RunStatus, TerminalRun, JobStatus,
       TerminalJob, TypeOK
<1>5. ASSUME NEW w \in Workers, NEW j \in Jobs, Claim(w, j) PROVE DbTypeOK'
  BY <1>5, Working, LifecycleAssumption
   DEF Claim, Claimable, DbTypeOK, JobStatus, TerminalJob, Outside, TypeOK
<1>6. ASSUME NEW j \in Jobs, LeaseExpires(j) PROVE DbTypeOK'
  BY <1>6 DEF LeaseExpires, DbTypeOK, TypeOK
<1>7. ASSUME NEW w \in Workers, Crash(w) PROVE DbTypeOK'
  BY <1>7, Working, LifecycleAssumption
   DEF Crash, dbVars, DbTypeOK, Outside, TypeOK
<1>8. ASSUME NEW w \in Workers, Raise(w) PROVE DbTypeOK'
  BY <1>8, Working, LifecycleAssumption
   DEF Raise, dbVars, DbTypeOK, Outside, TypeOK
<1>9. ASSUME NEW w \in Workers, Load(w) PROVE DbTypeOK'
  BY <1>9, Working, LifecycleAssumption
   DEF Load, dbVars, DbTypeOK, Outside, TypeOK
<1>10. ASSUME NEW w \in Workers, SetRunning(w) PROVE DbTypeOK'
  BY <1>10, Working, LifecycleAssumption
   DEF SetRunning, Run, DbTypeOK, RunStatus, TerminalRun, Outside, TypeOK
<1>11. ASSUME NEW w \in Workers, FetchOk(w) PROVE DbTypeOK'
  BY <1>11, Working, LifecycleAssumption
   DEF FetchOk, dbVars, DbTypeOK, Outside, TypeOK
<1>12. ASSUME NEW w \in Workers, FetchFails(w) PROVE DbTypeOK'
  BY <1>12, Working, LifecycleAssumption
   DEF FetchFails, Exhausted, Requeue, Run, DbTypeOK, JobStatus,
       TerminalJob, Outside, TypeOK
<1>13. ASSUME NEW w \in Workers, SetWaiting(w) PROVE DbTypeOK'
  BY <1>13, Working, LifecycleAssumption
   DEF SetWaiting, Run, DbTypeOK, RunStatus, TerminalRun, Outside, TypeOK
<1>14. ASSUME NEW w \in Workers, EnterStage(w) PROVE DbTypeOK'
  BY <1>14, Working, LifecycleAssumption
   DEF EnterStage, Run, dbVars, DbTypeOK, Outside, TypeOK
<1>15. ASSUME NEW w \in Workers, DecideOutcome(w) PROVE DbTypeOK'
  BY <1>15, Working, LifecycleAssumption
   DEF DecideOutcome, dbVars, DbTypeOK, Outside, TypeOK
<1>16. ASSUME NEW w \in Workers, InsertOutcome(w) PROVE DbTypeOK'
  <2>1. CASE winner' = [winner EXCEPT ![cur[w]] = seen[w]]
    <3>1. seen[w] \in WinnerKind
      BY <1>16 DEF InsertOutcome, LocalInv
    <3> QED
      BY <1>16, <2>1, <3>1 DEF InsertOutcome, TypeOK, DbTypeOK
  <2>2. CASE UNCHANGED winner
    BY <1>16, <2>2 DEF InsertOutcome, TypeOK, DbTypeOK
  <2> QED
    BY <1>16, <2>1, <2>2 DEF InsertOutcome
<1>17. ASSUME NEW w \in Workers, Guard(w) PROVE DbTypeOK'
  BY <1>17, Working, LifecycleAssumption
   DEF Guard, Measure, Run, dbVars, DbTypeOK, Outside, TypeOK
<1>18. ASSUME NEW w \in Workers, Reserve(w) PROVE DbTypeOK'
  BY <1>18, Working, LifecycleAssumption
   DEF Reserve, Run, dbVars, DbTypeOK, Outside, TypeOK
<1>19. ASSUME NEW w \in Workers, ReserveRefused(w) PROVE DbTypeOK'
  BY <1>19, Working, LifecycleAssumption
   DEF ReserveRefused, Run, dbVars, DbTypeOK, Outside, TypeOK
<1>20. ASSUME NEW w \in Workers, ReplayCalls(w) PROVE DbTypeOK'
  BY <1>20, Working, LifecycleAssumption
   DEF ReplayCalls, Measure, dbVars, DbTypeOK, Outside, TypeOK
<1>21. ASSUME NEW w \in Workers, CallReturns(w) PROVE DbTypeOK'
  BY <1>21, Working, LifecycleAssumption
   DEF CallReturns, Run, dbVars, DbTypeOK, Outside, TypeOK
<1>22. ASSUME NEW w \in Workers, CallFails(w) PROVE DbTypeOK'
  BY <1>22, Working, LifecycleAssumption
   DEF CallFails, Run, dbVars, DbTypeOK, Outside, TypeOK
<1>23. ASSUME NEW w \in Workers, CommitCache(w) PROVE DbTypeOK'
  BY <1>23, Working, LifecycleAssumption
   DEF CommitCache, CommitHeartbeat, DbTypeOK, Outside, TypeOK
<1>24. ASSUME NEW w \in Workers, CommitRound(w) PROVE DbTypeOK'
  <2>1. cur[w] \in Jobs
    BY <1>24, Working DEF CommitRound, Outside
  <2>2. round[w] < MaxRounds
    BY <1>24 DEF CommitRound, LocalInv, Paying, Guarded
  <2>3. lease' \in [Jobs -> {"none", "held", "expired"}]
    BY <1>24 DEF CommitRound, CommitHeartbeat, TypeOK, DbTypeOK
  <2>4. rounds' \in [Jobs -> 0..MaxRounds]
    BY <1>24, <2>1, <2>2, LifecycleAssumption
     DEF CommitRound, TypeOK, DbTypeOK, LocalTypeOK
  <2> QED
    BY <1>24, <2>3, <2>4 DEF CommitRound, TypeOK, DbTypeOK
<1>25. ASSUME NEW w \in Workers, AbstainRound(w) PROVE DbTypeOK'
  BY <1>25, Working, LifecycleAssumption
   DEF AbstainRound, CommitHeartbeat, DbTypeOK, WinnerKind, Outside, TypeOK
<1>26. ASSUME NEW w \in Workers, CommitResult(w) PROVE DbTypeOK'
  BY <1>26, Working, LifecycleAssumption
   DEF CommitResult, CommitHeartbeat, Measure, DbTypeOK, Outside, TypeOK
<1>27. ASSUME NEW w \in Workers, CompleteStage(w) PROVE DbTypeOK'
  BY <1>27, Working, LifecycleAssumption
   DEF CompleteStage, Measure, Merged, DbTypeOK, Ready, LocalTypeOK,
       Outside, TypeOK
<1>28. ASSUME NEW w \in Workers, FinishReady(w) PROVE DbTypeOK'
  BY <1>28, Working, LifecycleAssumption
   DEF FinishReady, FinishJob, Run, DbTypeOK, JobStatus, TerminalJob,
       Outside, TypeOK
<1>29. ASSUME NEW w \in Workers, FinishFailed(w) PROVE DbTypeOK'
  BY <1>29, Working, LifecycleAssumption
   DEF FinishFailed, FinishJob, Run, DbTypeOK, JobStatus, TerminalJob,
       Outside, TypeOK
<1>30. ASSUME NEW w \in Workers, FinishStopped(w) PROVE DbTypeOK'
  BY <1>30, Working, LifecycleAssumption
   DEF FinishStopped, FinishJob, DbTypeOK, JobStatus, TerminalJob, Outside,
       TypeOK
<1>31. ASSUME NEW w \in Workers, StopRun(w) PROVE DbTypeOK'
  BY <1>31, Working, LifecycleAssumption
   DEF StopRun, Run, DbTypeOK, RunStatus, TerminalRun, Outside, TypeOK
<1>32. ASSUME NEW w \in Workers, RequeueCrashed(w) PROVE DbTypeOK'
  BY <1>32, Working, LifecycleAssumption
   DEF RequeueCrashed, Exhausted, Requeue, Run, DbTypeOK, JobStatus,
       TerminalJob, Outside, TypeOK
<1>33. ASSUME NEW w \in Workers, FinalizeRead(w) PROVE DbTypeOK'
  BY <1>33, Working, LifecycleAssumption
   DEF FinalizeRead, AfterFinalize, Aggregate, Finalizable, dbVars,
       DbTypeOK, Outside, TypeOK
<1>34. ASSUME NEW w \in Workers, FinalizeWrite(w) PROVE DbTypeOK'
  <2>1. seen[w] \in RunStatus
    BY <1>34 DEF FinalizeWrite, LocalInv, Verdicts, RunStatus, TerminalRun
  <2> QED
    BY <1>34, <2>1 DEF FinalizeWrite, TypeOK, DbTypeOK
<1>35. ASSUME NEW w \in Workers, Beat(w) PROVE DbTypeOK'
  BY <1>35
   DEF Beat, Claimable, StaleJobs, StalledRuns, DbTypeOK, JobStatus,
       TerminalJob, TypeOK
<1>36. ASSUME NEW w \in Workers, Sweep(w) PROVE DbTypeOK'
  BY <1>36 DEF Sweep, StalledRuns, dbVars, DbTypeOK, TypeOK
<1>37. ASSUME FleetSwitch PROVE DbTypeOK'
  BY <1>37 DEF FleetSwitch, dbVars, DbTypeOK, TypeOK
<1> QED
  BY <1>1, <1>2, <1>3, <1>4, <1>5, <1>6, <1>7, <1>8, <1>9, <1>10, <1>11,
     <1>12, <1>13, <1>14, <1>15, <1>16, <1>17, <1>18, <1>19, <1>20, <1>21,
     <1>22, <1>23, <1>24, <1>25, <1>26, <1>27, <1>28, <1>29, <1>30, <1>31,
     <1>32, <1>33, <1>34, <1>35, <1>36, <1>37
   DEF Next, RunJob

\* Every step leaves each loop with well-typed locals.
LEMMA LocalTypeStep ==
    ASSUME TypeOK, LocalInv, Next
    PROVE  LocalTypeOK'
<1>1. ASSUME NEW r \in Runs, CreateRun(r) PROVE LocalTypeOK'
  BY <1>1 DEF CreateRun, localVars, LocalTypeOK, TypeOK
<1>2. ASSUME NEW r \in Runs, KillCheck(r) PROVE LocalTypeOK'
  BY <1>2 DEF KillCheck, localVars, LocalTypeOK, TypeOK
<1>3. ASSUME NEW r \in Runs, KillFlush(r) PROVE LocalTypeOK'
  BY <1>3 DEF KillFlush, localVars, LocalTypeOK, TypeOK
<1>4. ASSUME NEW r \in Runs, KillCommit(r) PROVE LocalTypeOK'
  BY <1>4 DEF KillCommit, localVars, LocalTypeOK, TypeOK
<1>5. ASSUME NEW w \in Workers, NEW j \in Jobs, Claim(w, j) PROVE LocalTypeOK'
  <2>1. pc' \in [Workers -> Pc]
    BY <1>5, Labels, GotoType DEF Claim, TypeOK
  <2> QED
    BY <1>5, <2>1, LeaveType, Working DEF Claim, TypeOK, LocalTypeOK, Outside
<1>6. ASSUME NEW j \in Jobs, LeaseExpires(j) PROVE LocalTypeOK'
  BY <1>6 DEF LeaseExpires, localVars, LocalTypeOK, TypeOK
<1>7. ASSUME NEW w \in Workers, Crash(w) PROVE LocalTypeOK'
  BY <1>7, LeaveType DEF Crash, TypeOK
<1>8. ASSUME NEW w \in Workers, Raise(w) PROVE LocalTypeOK'
  <2>1. pc' \in [Workers -> Pc]
    BY <1>8, Labels, GotoType DEF Raise, TypeOK
  <2> QED
    BY <1>8, <2>1 DEF Raise, WinnerKind, TypeOK, LocalTypeOK
<1>9. ASSUME NEW w \in Workers, Load(w) PROVE LocalTypeOK'
  <2>1. CASE Leave(w)
    BY <2>1, LeaveType DEF TypeOK
  <2>2. CASE ~Leave(w)
    <3>1. pc' \in [Workers -> Pc]
      BY <1>9, <2>2, Labels, GotoType DEF Load, TypeOK
    <3>2. cur[w] \in Jobs /\ Run(w) \in Runs
      BY <1>9, Working DEF Load, Outside
    <3> QED
      BY <1>9, <2>2, <3>1, <3>2
       DEF Load, localVars, Run, DbTypeOK, Ready, TypeOK, LocalTypeOK
  <2> QED
    BY <2>1, <2>2
<1>10. ASSUME NEW w \in Workers, SetRunning(w) PROVE LocalTypeOK'
  <2>1. pc' \in [Workers -> Pc]
    BY <1>10, Labels, GotoType DEF SetRunning, TypeOK
  <2> QED
    BY <1>10, <2>1 DEF SetRunning, WinnerKind, TypeOK, LocalTypeOK
<1>11. ASSUME NEW w \in Workers, FetchOk(w) PROVE LocalTypeOK'
  <2>1. CASE Leave(w)
    BY <2>1, LeaveType DEF TypeOK
  <2>2. CASE ~Leave(w)
    <3>1. pc' \in [Workers -> Pc]
      BY <1>11, <2>2, Labels, GotoType DEF FetchOk, TypeOK
    <3> QED
      BY <1>11, <2>2, <3>1 DEF FetchOk, Ready, TypeOK, LocalTypeOK
  <2> QED
    BY <2>1, <2>2
<1>12. ASSUME NEW w \in Workers, FetchFails(w) PROVE LocalTypeOK'
  <2>1. CASE Leave(w)
    BY <2>1, LeaveType DEF TypeOK
  <2>2. CASE ~Leave(w)
    <3>1. pc' \in [Workers -> Pc]
      BY <1>12, <2>2, Labels, GotoType DEF FetchFails, Requeue, TypeOK
    <3>2. cur[w] \in Jobs /\ Run(w) \in Runs
      BY <1>12, Working DEF FetchFails, Outside
    <3> QED
      BY <1>12, <2>2, <3>1, <3>2
       DEF FetchFails, Requeue, localVars, Ready, TypeOK, LocalTypeOK
  <2> QED
    BY <2>1, <2>2
<1>13. ASSUME NEW w \in Workers, SetWaiting(w) PROVE LocalTypeOK'
  BY <1>13, LeaveType DEF SetWaiting, TypeOK
<1>14. ASSUME NEW w \in Workers, EnterStage(w) PROVE LocalTypeOK'
  <2>1. pc' \in [Workers -> Pc]
    BY <1>14, Labels, GotoType DEF EnterStage, TypeOK
  <2>2. cur[w] \in Jobs
    BY <1>14, Working DEF EnterStage, Outside
  <2>3. round' \in [Workers -> 0..MaxRounds]
    BY <1>14, <2>2, LifecycleAssumption
     DEF EnterStage, TypeOK, DbTypeOK, LocalTypeOK
  <2> QED
    BY <1>14, <2>1, <2>3 DEF EnterStage, TypeOK, LocalTypeOK
<1>15. ASSUME NEW w \in Workers, DecideOutcome(w) PROVE LocalTypeOK'
  <2>1. pc' \in [Workers -> Pc]
    BY <1>15, Labels, GotoType DEF DecideOutcome, TypeOK
  <2> QED
    BY <1>15, <2>1
     DEF DecideOutcome, OutcomeKinds, WinnerKind, TypeOK, LocalTypeOK
<1>16. ASSUME NEW w \in Workers, InsertOutcome(w) PROVE LocalTypeOK'
  <2>1. pc' \in [Workers -> Pc]
    BY <1>16, Labels, GotoType DEF InsertOutcome, TypeOK
  <2> QED
    BY <1>16, <2>1 DEF InsertOutcome, WinnerKind, TypeOK, LocalTypeOK
<1>17. ASSUME NEW w \in Workers, Guard(w) PROVE LocalTypeOK'
  <2>1. CASE Leave(w)
    BY <2>1, LeaveType DEF TypeOK
  <2>2. CASE ~Leave(w)
    <3>1. pc' \in [Workers -> Pc]
      BY <1>17, <2>2, Labels, GotoType DEF Guard, StopRoute, TypeOK
    <3> QED
      BY <1>17, <2>2, <3>1 DEF Guard, localVars, TypeOK, LocalTypeOK
  <2> QED
    BY <2>1, <2>2
<1>18. ASSUME NEW w \in Workers, Reserve(w) PROVE LocalTypeOK'
  <2>1. pc' \in [Workers -> Pc]
    BY <1>18, Labels, GotoType DEF Reserve, localVars, TypeOK
  <2> QED
    BY <1>18, <2>1, LeaveType, Working
     DEF Reserve, localVars, TypeOK, LocalTypeOK, Outside
<1>19. ASSUME NEW w \in Workers, ReserveRefused(w) PROVE LocalTypeOK'
  <2>1. pc' \in [Workers -> Pc]
    BY <1>19, Labels, GotoType
     DEF ReserveRefused, StopRoute, localVars, TypeOK
  <2> QED
    BY <1>19, <2>1, LeaveType, Working
     DEF ReserveRefused, StopRoute, localVars, TypeOK, LocalTypeOK, Outside
<1>20. ASSUME NEW w \in Workers, ReplayCalls(w) PROVE LocalTypeOK'
  <2>1. pc' \in [Workers -> Pc]
    BY <1>20, Labels, GotoType DEF ReplayCalls, localVars, TypeOK
  <2> QED
    BY <1>20, <2>1, LeaveType, Working
     DEF ReplayCalls, localVars, TypeOK, LocalTypeOK, Outside
<1>21. ASSUME NEW w \in Workers, CallReturns(w) PROVE LocalTypeOK'
  <2>1. pc' \in [Workers -> Pc]
    BY <1>21, Labels, GotoType DEF CallReturns, localVars, TypeOK
  <2> QED
    BY <1>21, <2>1, LeaveType, Working
     DEF CallReturns, localVars, TypeOK, LocalTypeOK, Outside
<1>22. ASSUME NEW w \in Workers, CallFails(w) PROVE LocalTypeOK'
  <2>1. pc' \in [Workers -> Pc]
    BY <1>22, Labels, GotoType DEF CallFails, StopRoute, localVars, TypeOK
  <2> QED
    BY <1>22, <2>1, LeaveType, Working
     DEF CallFails, StopRoute, localVars, TypeOK, LocalTypeOK, Outside
<1>23. ASSUME NEW w \in Workers, CommitCache(w) PROVE LocalTypeOK'
  <2>1. pc' \in [Workers -> Pc]
    BY <1>23, Labels, GotoType DEF CommitCache, localVars, TypeOK
  <2> QED
    BY <1>23, <2>1, LeaveType, Working
     DEF CommitCache, localVars, TypeOK, LocalTypeOK, Outside
<1>24. ASSUME NEW w \in Workers, CommitRound(w) PROVE LocalTypeOK'
  <2>1. pc' \in [Workers -> Pc]
    BY <1>24, Labels, GotoType DEF CommitRound, TypeOK
  <2>2. round[w] < MaxRounds
    BY <1>24 DEF CommitRound, LocalInv, Paying, Guarded
  <2>3. round' \in [Workers -> 0..MaxRounds]
    BY <1>24, <2>2, LifecycleAssumption DEF CommitRound, TypeOK, LocalTypeOK
  <2> QED
    BY <1>24, <2>1, <2>3 DEF CommitRound, TypeOK, LocalTypeOK
<1>25. ASSUME NEW w \in Workers, AbstainRound(w) PROVE LocalTypeOK'
  <2>1. pc' \in [Workers -> Pc]
    BY <1>25, Labels, GotoType DEF AbstainRound, localVars, TypeOK
  <2> QED
    BY <1>25, <2>1, LeaveType, Working
     DEF AbstainRound, localVars, TypeOK, LocalTypeOK, Outside
<1>26. ASSUME NEW w \in Workers, CommitResult(w) PROVE LocalTypeOK'
  <2>1. pc' \in [Workers -> Pc]
    BY <1>26, Labels, GotoType DEF CommitResult, localVars, TypeOK
  <2> QED
    BY <1>26, <2>1, LeaveType, Working
     DEF CommitResult, localVars, TypeOK, LocalTypeOK, Outside
<1>27. ASSUME NEW w \in Workers, CompleteStage(w) PROVE LocalTypeOK'
  <2>1. CASE Leave(w)
    BY <2>1, LeaveType DEF TypeOK
  <2>2. CASE ~Leave(w)
    <3>1. pc' \in [Workers -> Pc]
      BY <1>27, <2>2, Labels, GotoType DEF CompleteStage, TypeOK
    <3> QED
      BY <1>27, <2>2, <3>1 DEF CompleteStage, Ready, TypeOK, LocalTypeOK
  <2> QED
    BY <2>1, <2>2
<1>28. ASSUME NEW w \in Workers, FinishReady(w) PROVE LocalTypeOK'
  <2>1. pc' \in [Workers -> Pc]
    BY <1>28, Labels, GotoType DEF FinishReady, FinishJob, TypeOK
  <2> QED
    BY <1>28, <2>1, LeaveType, Working
     DEF FinishReady, FinishJob, TypeOK, LocalTypeOK, Outside
<1>29. ASSUME NEW w \in Workers, FinishFailed(w) PROVE LocalTypeOK'
  <2>1. pc' \in [Workers -> Pc]
    BY <1>29, Labels, GotoType DEF FinishFailed, TypeOK
  <2>2. Run(w) \in Runs
    BY <1>29, Working DEF FinishFailed, Outside
  <2>3. /\ target' \in [Workers -> Runs \cup {NoRun}]
        /\ stage' \in [Workers -> 0..Ready]
    BY <1>29, <2>2 DEF FinishFailed, TypeOK, LocalTypeOK, Ready
  <2> QED
    BY <1>29, <2>1, <2>3 DEF FinishFailed, TypeOK, LocalTypeOK
<1>30. ASSUME NEW w \in Workers, FinishStopped(w) PROVE LocalTypeOK'
  BY <1>30, LeaveType DEF FinishStopped, TypeOK
<1>31. ASSUME NEW w \in Workers, StopRun(w) PROVE LocalTypeOK'
  <2>1. pc' \in [Workers -> Pc]
    BY <1>31, Labels, GotoType DEF StopRun, localVars, TypeOK
  <2> QED
    BY <1>31, <2>1, LeaveType, Working
     DEF StopRun, localVars, TypeOK, LocalTypeOK, Outside
<1>32. ASSUME NEW w \in Workers, RequeueCrashed(w) PROVE LocalTypeOK'
  <2>1. CASE Leave(w)
    BY <2>1, LeaveType DEF TypeOK
  <2>2. CASE ~Leave(w)
    <3>1. pc' \in [Workers -> Pc]
      BY <1>32, <2>2, Labels, GotoType DEF RequeueCrashed, Requeue, TypeOK
    <3>2. cur[w] \in Jobs /\ Run(w) \in Runs
      BY <1>32, Working DEF RequeueCrashed, Outside
    <3> QED
      BY <1>32, <2>2, <3>1, <3>2
       DEF RequeueCrashed, Requeue, localVars, Ready, TypeOK, LocalTypeOK
  <2> QED
    BY <2>1, <2>2
<1>33. ASSUME NEW w \in Workers, FinalizeRead(w) PROVE LocalTypeOK'
  <2>1. CASE Leave(w)
    BY <2>1, LeaveType DEF TypeOK
  <2>2. CASE ~Leave(w) /\ AfterFinalize(w)
    <3>1. pc' \in [Workers -> Pc]
      BY <2>2, Labels, GotoType DEF AfterFinalize, TypeOK
    <3> QED
      BY <2>2, <3>1 DEF AfterFinalize, TypeOK, LocalTypeOK, WinnerKind
  <2>3. CASE seen' = [seen EXCEPT ![w] = Aggregate(target[w])] /\ Goto(w, "verdict")
             /\ UNCHANGED <<cur, target, stage, round, tries>>
    <3>1. pc' \in [Workers -> Pc]
      BY <2>3, Labels, GotoType DEF TypeOK
    <3>2. Aggregate(target[w]) \in RunStatus
      BY <1>33, AggregateType
       DEF FinalizeRead, LocalInv, Verdicts, RunStatus, TerminalRun
    <3> QED
      BY <2>3, <3>1, <3>2 DEF TypeOK, LocalTypeOK
  <2> QED
    BY <1>33, <2>1, <2>2, <2>3 DEF FinalizeRead
<1>34. ASSUME NEW w \in Workers, FinalizeWrite(w) PROVE LocalTypeOK'
  <2>1. CASE Leave(w)
    BY <2>1, LeaveType DEF TypeOK
  <2>2. CASE ~Leave(w)
    <3>1. pc' \in [Workers -> Pc]
      BY <1>34, <2>2, Labels, GotoType DEF FinalizeWrite, AfterFinalize, TypeOK
    <3> QED
      BY <1>34, <2>2, <3>1
       DEF FinalizeWrite, AfterFinalize, WinnerKind, TypeOK, LocalTypeOK
  <2> QED
    BY <2>1, <2>2
<1>35. ASSUME NEW w \in Workers, Beat(w) PROVE LocalTypeOK'
  <2>1. pc' \in [Workers -> Pc]
    BY <1>35, Labels, GotoType DEF Beat, localVars, TypeOK
  <2> QED
    BY <1>35, <2>1, LeaveType, Working
     DEF Beat, localVars, TypeOK, LocalTypeOK, Outside
<1>36. ASSUME NEW w \in Workers, Sweep(w) PROVE LocalTypeOK'
  <2>1. pc' \in [Workers -> Pc]
    BY <1>36, Labels, GotoType DEF Sweep, TypeOK
  <2> QED
    BY <1>36, <2>1 DEF Sweep, StalledRuns, TypeOK, LocalTypeOK
<1>37. ASSUME FleetSwitch PROVE LocalTypeOK'
  BY <1>37 DEF FleetSwitch, localVars, LocalTypeOK, TypeOK
<1> QED
  BY <1>1, <1>2, <1>3, <1>4, <1>5, <1>6, <1>7, <1>8, <1>9, <1>10, <1>11,
     <1>12, <1>13, <1>14, <1>15, <1>16, <1>17, <1>18, <1>19, <1>20, <1>21,
     <1>22, <1>23, <1>24, <1>25, <1>26, <1>27, <1>28, <1>29, <1>30, <1>31,
     <1>32, <1>33, <1>34, <1>35, <1>36, <1>37
   DEF Next, RunJob

\* run_job neither flips the fleet switch nor moves a kill request.
LEMMA RunJobKeepsEnv ==
    ASSUME NEW w \in Workers, RunJob(w)
    PROVE  UNCHANGED <<envVars, killVars>>
  BY
   DEF RunJob, Load, SetRunning, FetchOk, FetchFails, SetWaiting,
       EnterStage, DecideOutcome, InsertOutcome, Guard, Reserve,
       ReserveRefused, ReplayCalls, CallReturns, CallFails, CommitCache,
       CommitRound, AbstainRound, CommitResult, CompleteStage, FinishReady,
       FinishFailed, FinishStopped, StopRun, RequeueCrashed, FinalizeRead,
       FinalizeWrite, Requeue

\* The fleet switch and the kill requests keep their types.
LEMMA EnvTypeStep ==
    ASSUME TypeOK, Next
    PROVE  EnvTypeOK'
<1>1. ASSUME NEW r \in Runs, CreateRun(r) PROVE EnvTypeOK'
  BY <1>1 DEF CreateRun, envVars, killVars, TypeOK, EnvTypeOK
<1>2. ASSUME NEW r \in Runs, KillCheck(r) PROVE EnvTypeOK'
  BY <1>2 DEF KillCheck, envVars, TypeOK, EnvTypeOK
<1>3. ASSUME NEW r \in Runs, KillFlush(r) PROVE EnvTypeOK'
  BY <1>3 DEF KillFlush, envVars, JobsOf, TypeOK, EnvTypeOK
<1>4. ASSUME NEW r \in Runs, KillCommit(r) PROVE EnvTypeOK'
  BY <1>4 DEF KillCommit, envVars, TypeOK, EnvTypeOK
<1>5. ASSUME NEW w \in Workers, NEW j \in Jobs, Claim(w, j) PROVE EnvTypeOK'
  BY <1>5 DEF Claim, envVars, killVars, TypeOK, EnvTypeOK
<1>6. ASSUME NEW j \in Jobs, LeaseExpires(j) PROVE EnvTypeOK'
  BY <1>6 DEF LeaseExpires, envVars, killVars, TypeOK, EnvTypeOK
<1>7. ASSUME NEW w \in Workers, Crash(w) PROVE EnvTypeOK'
  BY <1>7 DEF Crash, envVars, killVars, TypeOK, EnvTypeOK
<1>8. ASSUME NEW w \in Workers, Raise(w) PROVE EnvTypeOK'
  BY <1>8 DEF Raise, envVars, killVars, TypeOK, EnvTypeOK
<1>9. ASSUME NEW w \in Workers, Beat(w) PROVE EnvTypeOK'
  BY <1>9 DEF Beat, envVars, killVars, TypeOK, EnvTypeOK
<1>10. ASSUME NEW w \in Workers, Sweep(w) PROVE EnvTypeOK'
  BY <1>10 DEF Sweep, envVars, killVars, TypeOK, EnvTypeOK
<1>11. ASSUME FleetSwitch PROVE EnvTypeOK'
  BY <1>11, LifecycleAssumption DEF FleetSwitch, killVars, TypeOK, EnvTypeOK
<1>12. ASSUME NEW w \in Workers, RunJob(w) PROVE EnvTypeOK'
  BY <1>12, RunJobKeepsEnv DEF envVars, killVars, TypeOK, EnvTypeOK
<1> QED
  BY <1>1, <1>2, <1>3, <1>4, <1>5, <1>6, <1>7, <1>8, <1>9, <1>10, <1>11, <1>12
   DEF Next


\* Leaving empties the loop's hands: a loop that leaves keeps no job.
LEMMA NotLeaving ==
    ASSUME TypeOK, NEW w \in Workers, cur[w] \in Jobs, UNCHANGED localVars
    PROVE  ~Leave(w)
  BY LifecycleAssumption DEF Leave, localVars, TypeOK, LocalTypeOK

\* Where finalize_run returns to, the locals are those of the label.
LEMMA AfterFinalizeLocal ==
    ASSUME TypeOK, LocalInv, NEW w \in Workers, AfterFinalize(w),
           pc[w] \in {"finalize", "verdict"}
    PROVE  LocalInv'
  <1>1. CASE Leave(w)
    BY <1>1 DEF Leave, Goto, LocalInv, TypeOK, LocalTypeOK, Outside, Paying, Guarded
  <1>2. CASE stage[w] = Ready /\ Goto(w, "complete") /\ UNCHANGED <<cur, stage, round>>
             /\ seen' = [seen EXCEPT ![w] = "none"]
             /\ target' = [target EXCEPT ![w] = NoRun]
    <2>1. cur[w] \in Jobs
      BY <1>2 DEF LocalInv, TypeOK, LocalTypeOK, Ready
    <2> QED
      BY <1>2, <2>1
       DEF Goto, LocalInv, TypeOK, LocalTypeOK, Outside, Paying, Guarded
  <1>3. CASE cur[w] = NoJob /\ Goto(w, "sweep") /\ UNCHANGED <<cur, stage, round>>
             /\ seen' = [seen EXCEPT ![w] = "none"]
             /\ target' = [target EXCEPT ![w] = NoRun]
    BY <1>3 DEF Goto, LocalInv, TypeOK, LocalTypeOK, Outside, Paying, Guarded
  <1> QED
    BY <1>1, <1>2, <1>3 DEF AfterFinalize

\* Every step keeps what a loop holds at its label.
LEMMA LocalStep ==
    ASSUME TypeOK, LocalInv, Next
    PROVE  LocalInv'
<1>1. ASSUME NEW r \in Runs, CreateRun(r) PROVE LocalInv'
  BY <1>1 DEF CreateRun, localVars, LocalInv
<1>2. ASSUME NEW r \in Runs, KillCheck(r) PROVE LocalInv'
  BY <1>2 DEF KillCheck, localVars, LocalInv
<1>3. ASSUME NEW r \in Runs, KillFlush(r) PROVE LocalInv'
  BY <1>3 DEF KillFlush, localVars, LocalInv
<1>4. ASSUME NEW r \in Runs, KillCommit(r) PROVE LocalInv'
  BY <1>4 DEF KillCommit, localVars, LocalInv
<1>5. ASSUME NEW w \in Workers, NEW j \in Jobs, Claim(w, j) PROVE LocalInv'
  BY <1>5, LifecycleAssumption
   DEF Claim, Goto, Guarded, LocalInv, TypeOK, LocalTypeOK, Outside,
       Paying, Evolve
<1>6. ASSUME NEW j \in Jobs, LeaseExpires(j) PROVE LocalInv'
  BY <1>6 DEF LeaseExpires, localVars, LocalInv
<1>7. ASSUME NEW w \in Workers, Crash(w) PROVE LocalInv'
  BY <1>7, LifecycleAssumption
   DEF Crash, Goto, Leave, LocalInv, TypeOK, LocalTypeOK, Outside, Paying,
       Guarded, Evolve
<1>8. ASSUME NEW w \in Workers, Raise(w) PROVE LocalInv'
  BY <1>8, LifecycleAssumption
   DEF Raise, Goto, Guarded, LocalInv, TypeOK, LocalTypeOK, Outside,
       Paying, Evolve
<1>9. ASSUME NEW w \in Workers, Load(w) PROVE LocalInv'
  BY <1>9, LifecycleAssumption
   DEF Load, Goto, Leave, localVars, LocalInv, TypeOK, LocalTypeOK,
       Outside, Paying, Guarded, Evolve
<1>10. ASSUME NEW w \in Workers, SetRunning(w) PROVE LocalInv'
  BY <1>10, LifecycleAssumption
   DEF SetRunning, Goto, Run, LocalInv, TypeOK, LocalTypeOK, Outside,
       Paying, Guarded, Evolve
<1>11. ASSUME NEW w \in Workers, FetchOk(w) PROVE LocalInv'
  BY <1>11, LifecycleAssumption
   DEF FetchOk, Goto, Leave, LocalInv, TypeOK, LocalTypeOK, Outside,
       Paying, Guarded, Evolve
<1>12. ASSUME NEW w \in Workers, FetchFails(w) PROVE LocalInv'
  BY <1>12, LifecycleAssumption
   DEF FetchFails, Goto, Guarded, Leave, Requeue, Run, localVars, LocalInv,
       TypeOK, LocalTypeOK, Outside, Paying, Evolve
<1>13. ASSUME NEW w \in Workers, SetWaiting(w) PROVE LocalInv'
  BY <1>13, LifecycleAssumption
   DEF SetWaiting, Goto, Leave, Run, LocalInv, TypeOK, LocalTypeOK,
       Outside, Paying, Guarded, Evolve
<1>14. ASSUME NEW w \in Workers, EnterStage(w) PROVE LocalInv'
  BY <1>14, LifecycleAssumption
   DEF EnterStage, Goto, Run, LocalInv, TypeOK, LocalTypeOK, Outside,
       Paying, Guarded, Evolve
<1>15. ASSUME NEW w \in Workers, DecideOutcome(w) PROVE LocalInv'
  <2>1. PICK k \in WinnerKind \ {"none"} : seen' = [seen EXCEPT ![w] = k]
    BY <1>15, OutcomeKindsType DEF DecideOutcome
  <2> QED
    BY <1>15, <2>1
     DEF DecideOutcome, Goto, LocalInv, TypeOK, LocalTypeOK, Outside, Paying,
         Guarded
<1>16. ASSUME NEW w \in Workers, InsertOutcome(w) PROVE LocalInv'
  BY <1>16, LifecycleAssumption
   DEF InsertOutcome, Goto, LocalInv, TypeOK, LocalTypeOK, Outside, Paying,
       Guarded, Evolve
<1>17. ASSUME NEW w \in Workers, Guard(w) PROVE LocalInv'
  <2>1. CASE Leave(w)
    BY <1>17, <2>1 DEF Guard, Leave, Goto, LocalInv, TypeOK, LocalTypeOK, Outside,
                      Paying, Guarded, Evolve
  <2>2. CASE UNCHANGED localVars
    <3>1. stage[w] = Evolve => round[w] < MaxRounds
      BY <1>17 DEF Guard, NeedsGuard, Evolve, Final, Measure
    <3>2. \E p \in {"drop", "halt", "paid"} : Goto(w, p)
      BY <1>17, <2>2, Working, NotLeaving DEF Guard, StopRoute, Outside
    <3> QED
      BY <1>17, <2>2, <3>1, <3>2
       DEF Guard, Goto, LocalInv, TypeOK, LocalTypeOK, localVars, Outside, Paying,
           Guarded
  <2> QED
    BY <1>17, <2>1, <2>2 DEF Guard
<1>18. ASSUME NEW w \in Workers, Reserve(w) PROVE LocalInv'
  BY <1>18, LifecycleAssumption
   DEF Reserve, Goto, Run, localVars, LocalInv, TypeOK, LocalTypeOK,
       Outside, Paying, Guarded, Evolve
<1>19. ASSUME NEW w \in Workers, ReserveRefused(w) PROVE LocalInv'
  BY <1>19, LifecycleAssumption
   DEF ReserveRefused, Goto, Run, StopRoute, localVars, LocalInv, TypeOK,
       LocalTypeOK, Outside, Paying, Guarded, Evolve
<1>20. ASSUME NEW w \in Workers, ReplayCalls(w) PROVE LocalInv'
  BY <1>20, LifecycleAssumption
   DEF ReplayCalls, Goto, localVars, LocalInv, TypeOK, LocalTypeOK,
       Outside, Paying, Guarded, Evolve
<1>21. ASSUME NEW w \in Workers, CallReturns(w) PROVE LocalInv'
  BY <1>21, LifecycleAssumption
   DEF CallReturns, Goto, Run, localVars, LocalInv, TypeOK, LocalTypeOK,
       Outside, Paying, Guarded, Evolve
<1>22. ASSUME NEW w \in Workers, CallFails(w) PROVE LocalInv'
  BY <1>22, LifecycleAssumption
   DEF CallFails, Goto, Run, StopRoute, localVars, LocalInv, TypeOK,
       LocalTypeOK, Outside, Paying, Guarded, Evolve
<1>23. ASSUME NEW w \in Workers, CommitCache(w) PROVE LocalInv'
  BY <1>23, LifecycleAssumption
   DEF CommitCache, Goto, Guarded, localVars, LocalInv, TypeOK,
       LocalTypeOK, Outside, Paying, Evolve
<1>24. ASSUME NEW w \in Workers, CommitRound(w) PROVE LocalInv'
  BY <1>24, LifecycleAssumption
   DEF CommitRound, Goto, Guarded, LocalInv, TypeOK, LocalTypeOK, Outside,
       Paying, Evolve
<1>25. ASSUME NEW w \in Workers, AbstainRound(w) PROVE LocalInv'
  BY <1>25, LifecycleAssumption
   DEF AbstainRound, Goto, Guarded, localVars, LocalInv, TypeOK,
       LocalTypeOK, Outside, Paying, Evolve
<1>26. ASSUME NEW w \in Workers, CommitResult(w) PROVE LocalInv'
  BY <1>26, LifecycleAssumption
   DEF CommitResult, Goto, Guarded, localVars, LocalInv, TypeOK,
       LocalTypeOK, Outside, Paying, Evolve
<1>27. ASSUME NEW w \in Workers, CompleteStage(w) PROVE LocalInv'
  BY <1>27, LifecycleAssumption
   DEF CompleteStage, Goto, Guarded, Leave, LocalInv, TypeOK, LocalTypeOK,
       Outside, Paying, Evolve
<1>28. ASSUME NEW w \in Workers, FinishReady(w) PROVE LocalInv'
  BY <1>28, LifecycleAssumption
   DEF FinishReady, FinishJob, Goto, Guarded, Run, LocalInv, TypeOK,
       LocalTypeOK, Outside, Paying, Evolve
<1>29. ASSUME NEW w \in Workers, FinishFailed(w) PROVE LocalInv'
  BY <1>29, LifecycleAssumption
   DEF FinishFailed, FinishJob, Goto, Guarded, Run, LocalInv, TypeOK,
       LocalTypeOK, Outside, Paying, Evolve
<1>30. ASSUME NEW w \in Workers, FinishStopped(w) PROVE LocalInv'
  BY <1>30, LifecycleAssumption
   DEF FinishStopped, FinishJob, Goto, Guarded, Leave, LocalInv, TypeOK,
       LocalTypeOK, Outside, Paying, Evolve
<1>31. ASSUME NEW w \in Workers, StopRun(w) PROVE LocalInv'
  BY <1>31, LifecycleAssumption
   DEF StopRun, Goto, Run, localVars, LocalInv, TypeOK, LocalTypeOK,
       Outside, Paying, Guarded, Evolve
<1>32. ASSUME NEW w \in Workers, RequeueCrashed(w) PROVE LocalInv'
  BY <1>32, LifecycleAssumption
   DEF RequeueCrashed, Goto, Guarded, Leave, Requeue, Run, localVars,
       LocalInv, TypeOK, LocalTypeOK, Outside, Paying, Evolve
<1>33. ASSUME NEW w \in Workers, FinalizeRead(w) PROVE LocalInv'
  <2>1. CASE AfterFinalize(w)
    BY <1>33, <2>1, AfterFinalizeLocal DEF FinalizeRead
  <2>2. CASE seen' = [seen EXCEPT ![w] = Aggregate(target[w])] /\ Goto(w, "verdict")
             /\ UNCHANGED <<cur, target, stage, round, tries>>
    <3>1. Aggregate(target[w]) \in Verdicts
      BY <1>33, AggregateType DEF FinalizeRead, LocalInv
    <3> QED
      BY <1>33, <2>2, <3>1
       DEF FinalizeRead, Goto, LocalInv, TypeOK, LocalTypeOK, Outside, Paying,
           Guarded
  <2> QED
    BY <1>33, <2>1, <2>2 DEF FinalizeRead
<1>34. ASSUME NEW w \in Workers, FinalizeWrite(w) PROVE LocalInv'
  BY <1>34, AfterFinalizeLocal DEF FinalizeWrite
<1>35. ASSUME NEW w \in Workers, Beat(w) PROVE LocalInv'
  BY <1>35, LifecycleAssumption
   DEF Beat, Goto, Guarded, StalledRuns, localVars, LocalInv, TypeOK,
       LocalTypeOK, Outside, Paying, Evolve
<1>36. ASSUME NEW w \in Workers, Sweep(w) PROVE LocalInv'
  BY <1>36, LifecycleAssumption
   DEF Sweep, Goto, StalledRuns, LocalInv, TypeOK, LocalTypeOK, Outside,
       Paying, Guarded, Evolve
<1>37. ASSUME FleetSwitch PROVE LocalInv'
  BY <1>37 DEF FleetSwitch, localVars, LocalInv
<1> QED
  BY <1>1, <1>2, <1>3, <1>4, <1>5, <1>6, <1>7, <1>8, <1>9, <1>10, <1>11,
     <1>12, <1>13, <1>14, <1>15, <1>16, <1>17, <1>18, <1>19, <1>20, <1>21,
     <1>22, <1>23, <1>24, <1>25, <1>26, <1>27, <1>28, <1>29, <1>30, <1>31,
     <1>32, <1>33, <1>34, <1>35, <1>36, <1>37
   DEF Next, RunJob

\* Every step keeps runs that do not exist without jobs or workers.
LEMMA CreatedStep ==
    ASSUME TypeOK, LocalInv, CreatedInv, Next
    PROVE  CreatedInv'
<1>1. ASSUME NEW r \in Runs, CreateRun(r) PROVE CreatedInv'
  BY <1>1, LifecycleAssumption
   DEF CreateRun, killVars, localVars, CreatedInv, TypeOK, LocalTypeOK,
       DbTypeOK
<1>2. ASSUME NEW r \in Runs, KillCheck(r) PROVE CreatedInv'
  BY <1>2, LifecycleAssumption
   DEF KillCheck, dbVars, localVars, CreatedInv, TypeOK, LocalTypeOK,
       DbTypeOK
<1>3. ASSUME NEW r \in Runs, KillFlush(r) PROVE CreatedInv'
  BY <1>3, LifecycleAssumption
   DEF KillFlush, JobsOf, dbVars, localVars, CreatedInv, TypeOK,
       LocalTypeOK, DbTypeOK
<1>4. ASSUME NEW r \in Runs, KillCommit(r) PROVE CreatedInv'
  <2>1. \A j \in Jobs : jobStatus'[j] # "absent" =>
                jobStatus[j] # "absent" \/ RunOf[j] = r
    BY <1>4 DEF KillCommit, CreatedInv, JobsOf, TypeOK, DbTypeOK
  <2>2. \A j \in Jobs : jobStatus[j] # "absent" => jobStatus'[j] # "absent"
    BY <1>4 DEF KillCommit
  <2>3. /\ runStatus'[r] = "stopped"
        /\ \A s \in Runs \ {r} : runStatus'[s] = runStatus[s]
    BY <1>4 DEF KillCommit, TypeOK, DbTypeOK
  <2>4. \A s \in Runs : /\ killPc'[s] # "idle" => killPc[s] # "idle" \/ s = r
                        /\ killSet'[s] \subseteq killSet[s]
    BY <1>4 DEF KillCommit, TypeOK, EnvTypeOK
  <2>5. UNCHANGED <<cur, target>>
    BY <1>4 DEF KillCommit, localVars
  <2>6. \A j \in Jobs : runStatus'[RunOf[j]] = "absent" => jobStatus'[j] = "absent"
    BY <2>1, <2>3, LifecycleAssumption DEF CreatedInv
  <2>7. \A s \in Runs : /\ killPc'[s] # "idle" => runStatus'[s] # "absent"
                        /\ killSet'[s] \subseteq JobsOf(s)
    BY <2>3, <2>4 DEF CreatedInv
  <2> QED
    BY <2>2, <2>3, <2>5, <2>6, <2>7 DEF CreatedInv, JobsOf
<1>5. ASSUME NEW w \in Workers, NEW j \in Jobs, Claim(w, j) PROVE CreatedInv'
  BY <1>5, LifecycleAssumption
   DEF Claim, Claimable, Goto, Guarded, killVars, CreatedInv, TypeOK,
       LocalTypeOK, DbTypeOK, LocalInv, Outside
<1>6. ASSUME NEW j \in Jobs, LeaseExpires(j) PROVE CreatedInv'
  BY <1>6, LifecycleAssumption
   DEF LeaseExpires, killVars, localVars, CreatedInv, TypeOK, LocalTypeOK,
       DbTypeOK
<1>7. ASSUME NEW w \in Workers, Crash(w) PROVE CreatedInv'
  BY <1>7, LifecycleAssumption
   DEF Crash, Goto, Leave, dbVars, killVars, CreatedInv, TypeOK,
       LocalTypeOK, DbTypeOK, LocalInv, Outside
<1>8. ASSUME NEW w \in Workers, Raise(w) PROVE CreatedInv'
  BY <1>8, LifecycleAssumption
   DEF Raise, Goto, Guarded, dbVars, killVars, CreatedInv, TypeOK,
       LocalTypeOK, DbTypeOK, LocalInv, Outside
<1>9. ASSUME NEW w \in Workers, Load(w) PROVE CreatedInv'
  BY <1>9, LifecycleAssumption
   DEF Load, Goto, Leave, dbVars, killVars, localVars, CreatedInv, TypeOK,
       LocalTypeOK, DbTypeOK, LocalInv, Outside
<1>10. ASSUME NEW w \in Workers, SetRunning(w) PROVE CreatedInv'
  BY <1>10, LifecycleAssumption
   DEF SetRunning, Goto, Run, killVars, CreatedInv, TypeOK, LocalTypeOK,
       DbTypeOK, LocalInv, Outside
<1>11. ASSUME NEW w \in Workers, FetchOk(w) PROVE CreatedInv'
  BY <1>11, LifecycleAssumption
   DEF FetchOk, Goto, Leave, dbVars, killVars, CreatedInv, TypeOK,
       LocalTypeOK, DbTypeOK, LocalInv, Outside
<1>12. ASSUME NEW w \in Workers, FetchFails(w) PROVE CreatedInv'
  BY <1>12, LifecycleAssumption
   DEF FetchFails, Goto, Guarded, Leave, Requeue, Run, killVars, localVars,
       CreatedInv, TypeOK, LocalTypeOK, DbTypeOK, LocalInv, Outside
<1>13. ASSUME NEW w \in Workers, SetWaiting(w) PROVE CreatedInv'
  BY <1>13, LifecycleAssumption
   DEF SetWaiting, Goto, Leave, Run, killVars, CreatedInv, TypeOK,
       LocalTypeOK, DbTypeOK, LocalInv, Outside
<1>14. ASSUME NEW w \in Workers, EnterStage(w) PROVE CreatedInv'
  BY <1>14, LifecycleAssumption
   DEF EnterStage, Goto, Run, dbVars, killVars, CreatedInv, TypeOK,
       LocalTypeOK, DbTypeOK, LocalInv, Outside
<1>15. ASSUME NEW w \in Workers, DecideOutcome(w) PROVE CreatedInv'
  BY <1>15, LifecycleAssumption
   DEF DecideOutcome, Goto, OutcomeKinds, dbVars, killVars, CreatedInv,
       TypeOK, LocalTypeOK, DbTypeOK, LocalInv, Outside
<1>16. ASSUME NEW w \in Workers, InsertOutcome(w) PROVE CreatedInv'
  BY <1>16, LifecycleAssumption
   DEF InsertOutcome, Goto, killVars, CreatedInv, TypeOK, LocalTypeOK,
       DbTypeOK, LocalInv, Outside
<1>17. ASSUME NEW w \in Workers, Guard(w) PROVE CreatedInv'
  BY <1>17, LifecycleAssumption
   DEF Guard, Goto, Guarded, Leave, NeedsGuard, Run, StopRoute, dbVars,
       killVars, localVars, CreatedInv, TypeOK, LocalTypeOK, DbTypeOK,
       LocalInv, Outside
<1>18. ASSUME NEW w \in Workers, Reserve(w) PROVE CreatedInv'
  BY <1>18, LifecycleAssumption
   DEF Reserve, Goto, Run, dbVars, killVars, localVars, CreatedInv, TypeOK,
       LocalTypeOK, DbTypeOK, LocalInv, Outside
<1>19. ASSUME NEW w \in Workers, ReserveRefused(w) PROVE CreatedInv'
  BY <1>19, LifecycleAssumption
   DEF ReserveRefused, Goto, Run, StopRoute, dbVars, killVars, localVars,
       CreatedInv, TypeOK, LocalTypeOK, DbTypeOK, LocalInv, Outside
<1>20. ASSUME NEW w \in Workers, ReplayCalls(w) PROVE CreatedInv'
  BY <1>20, LifecycleAssumption
   DEF ReplayCalls, Goto, dbVars, killVars, localVars, CreatedInv, TypeOK,
       LocalTypeOK, DbTypeOK, LocalInv, Outside
<1>21. ASSUME NEW w \in Workers, CallReturns(w) PROVE CreatedInv'
  BY <1>21, LifecycleAssumption
   DEF CallReturns, Goto, Run, dbVars, killVars, localVars, CreatedInv,
       TypeOK, LocalTypeOK, DbTypeOK, LocalInv, Outside
<1>22. ASSUME NEW w \in Workers, CallFails(w) PROVE CreatedInv'
  BY <1>22, LifecycleAssumption
   DEF CallFails, Goto, Run, StopRoute, dbVars, killVars, localVars,
       CreatedInv, TypeOK, LocalTypeOK, DbTypeOK, LocalInv, Outside
<1>23. ASSUME NEW w \in Workers, CommitCache(w) PROVE CreatedInv'
  BY <1>23, LifecycleAssumption
   DEF CommitCache, Goto, Guarded, killVars, localVars, CreatedInv, TypeOK,
       LocalTypeOK, DbTypeOK, LocalInv, Outside
<1>24. ASSUME NEW w \in Workers, CommitRound(w) PROVE CreatedInv'
  BY <1>24, LifecycleAssumption
   DEF CommitRound, Goto, Guarded, killVars, CreatedInv, TypeOK,
       LocalTypeOK, DbTypeOK, LocalInv, Outside
<1>25. ASSUME NEW w \in Workers, AbstainRound(w) PROVE CreatedInv'
  BY <1>25, LifecycleAssumption
   DEF AbstainRound, Goto, Guarded, killVars, localVars, CreatedInv,
       TypeOK, LocalTypeOK, DbTypeOK, LocalInv, Outside
<1>26. ASSUME NEW w \in Workers, CommitResult(w) PROVE CreatedInv'
  BY <1>26, LifecycleAssumption
   DEF CommitResult, Goto, Guarded, killVars, localVars, CreatedInv,
       TypeOK, LocalTypeOK, DbTypeOK, LocalInv, Outside
<1>27. ASSUME NEW w \in Workers, CompleteStage(w) PROVE CreatedInv'
  BY <1>27, LifecycleAssumption
   DEF CompleteStage, Goto, Guarded, Leave, killVars, CreatedInv, TypeOK,
       LocalTypeOK, DbTypeOK, LocalInv, Outside
<1>28. ASSUME NEW w \in Workers, FinishReady(w) PROVE CreatedInv'
  BY <1>28, LifecycleAssumption
   DEF FinishReady, FinishJob, Goto, Guarded, Run, killVars, CreatedInv,
       TypeOK, LocalTypeOK, DbTypeOK, LocalInv, Outside
<1>29. ASSUME NEW w \in Workers, FinishFailed(w) PROVE CreatedInv'
  BY <1>29, LifecycleAssumption
   DEF FinishFailed, FinishJob, Goto, Guarded, Run, killVars, CreatedInv,
       TypeOK, LocalTypeOK, DbTypeOK, LocalInv, Outside
<1>30. ASSUME NEW w \in Workers, FinishStopped(w) PROVE CreatedInv'
  BY <1>30, LifecycleAssumption
   DEF FinishStopped, FinishJob, Goto, Guarded, Leave, killVars,
       CreatedInv, TypeOK, LocalTypeOK, DbTypeOK, LocalInv, Outside
<1>31. ASSUME NEW w \in Workers, StopRun(w) PROVE CreatedInv'
  BY <1>31, LifecycleAssumption
   DEF StopRun, Goto, Run, killVars, localVars, CreatedInv, TypeOK,
       LocalTypeOK, DbTypeOK, LocalInv, Outside
<1>32. ASSUME NEW w \in Workers, RequeueCrashed(w) PROVE CreatedInv'
  BY <1>32, LifecycleAssumption
   DEF RequeueCrashed, Goto, Guarded, Leave, Requeue, Run, killVars,
       localVars, CreatedInv, TypeOK, LocalTypeOK, DbTypeOK, LocalInv, Outside
<1>33. ASSUME NEW w \in Workers, FinalizeRead(w) PROVE CreatedInv'
  BY <1>33, LifecycleAssumption
   DEF FinalizeRead, AfterFinalize, Goto, JobsOf, Leave, dbVars, killVars,
       CreatedInv, TypeOK, LocalTypeOK, DbTypeOK, LocalInv, Outside
<1>34. ASSUME NEW w \in Workers, FinalizeWrite(w) PROVE CreatedInv'
  <2>1. target[w] \in Runs /\ seen[w] # "absent"
    BY <1>34 DEF FinalizeWrite, LocalInv, Verdicts
  <2>2. \A r \in Runs : runStatus'[r] = "absent" => runStatus[r] = "absent"
    BY <1>34, <2>1 DEF FinalizeWrite, TypeOK, DbTypeOK
  <2>3. UNCHANGED <<jobStatus, killPc, killSet>>
    BY <1>34 DEF FinalizeWrite, killVars
  <2>4. \A x \in Workers : /\ cur'[x] \in {cur[x], NoJob}
                           /\ target'[x] \in {target[x], NoRun}
    BY <1>34 DEF FinalizeWrite, AfterFinalize, Leave, TypeOK, LocalTypeOK
  <2> QED
    BY <2>2, <2>3, <2>4, LifecycleAssumption DEF CreatedInv, JobsOf
<1>35. ASSUME NEW w \in Workers, Beat(w) PROVE CreatedInv'
  BY <1>35, LifecycleAssumption
   DEF Beat, Claimable, Goto, Guarded, JobsOf, StaleJobs, StalledRuns,
       killVars, localVars, CreatedInv, TypeOK, LocalTypeOK, DbTypeOK,
       LocalInv, Outside
<1>36. ASSUME NEW w \in Workers, Sweep(w) PROVE CreatedInv'
  BY <1>36, LifecycleAssumption
   DEF Sweep, Goto, JobsOf, StalledRuns, dbVars, killVars, CreatedInv,
       TypeOK, LocalTypeOK, DbTypeOK, LocalInv, Outside
<1>37. ASSUME FleetSwitch PROVE CreatedInv'
  BY <1>37, LifecycleAssumption
   DEF FleetSwitch, dbVars, killVars, localVars, CreatedInv, TypeOK,
       LocalTypeOK, DbTypeOK
<1> QED
  BY <1>1, <1>2, <1>3, <1>4, <1>5, <1>6, <1>7, <1>8, <1>9, <1>10, <1>11,
     <1>12, <1>13, <1>14, <1>15, <1>16, <1>17, <1>18, <1>19, <1>20, <1>21,
     <1>22, <1>23, <1>24, <1>25, <1>26, <1>27, <1>28, <1>29, <1>30, <1>31,
     <1>32, <1>33, <1>34, <1>35, <1>36, <1>37
   DEF Next, RunJob

\* requeue_job touches no job another worker is paying for.
LEMMA RequeuePaid ==
    ASSUME TypeOK, LocalInv, PaidExclusive, NEW w \in Workers, ~HoldsRow(w),
           NEW n, NEW p \in {"idle", "requeued"}, Requeue(w, n, p)
    PROVE  PaidExclusive'
  <1>1. \A x \in Workers : HoldsRow(x) => x # w /\ cur[x] \in Jobs /\ cur[x] # cur[w]
    BY DEF Requeue, JobRowFree, LocalInv, HoldsRow, Guarded, Outside
  <1>2. \A x \in Workers : HoldsRow(x)' => HoldsRow(x) /\ cur'[x] = cur[x]
    BY DEF Requeue, Goto, Leave, HoldsRow, Guarded, localVars, TypeOK, LocalTypeOK
  <1>3. \A j \in Jobs \ {cur[w]} : jobStatus'[j] = jobStatus[j]
    BY DEF Requeue, TypeOK, DbTypeOK
  <1> QED
    BY <1>1, <1>2, <1>3 DEF Requeue, PaidExclusive

\* Every step keeps paid work exclusive: whoever changes a job's row waits
\* for the heartbeat a guard left on it (_heartbeat, CLAIM_SQL's SKIP LOCKED).
LEMMA PaidExclusiveStep ==
    ASSUME TypeOK, LocalInv, CreatedInv, PaidExclusive, Next
    PROVE  PaidExclusive'
<1>1. ASSUME NEW r \in Runs, CreateRun(r) PROVE PaidExclusive'
  <2>1. \A x \in Workers : HoldsRow(x) => RunOf[cur[x]] # r /\ cur[x] \in Jobs
    BY <1>1 DEF CreateRun, CreatedInv, LocalInv, HoldsRow, Guarded, Outside
  <2> QED
    BY <1>1, <2>1 DEF CreateRun, PaidExclusive, HoldsRow, localVars
<1>2. ASSUME NEW r \in Runs, KillCheck(r) PROVE PaidExclusive'
  BY <1>2
   DEF KillCheck, dbVars, localVars, PaidExclusive, HoldsRow, Guarded,
       TypeOK, LocalTypeOK, DbTypeOK
<1>3. ASSUME NEW r \in Runs, KillFlush(r) PROVE PaidExclusive'
  BY <1>3
   DEF KillFlush, JobsOf, dbVars, localVars, PaidExclusive, HoldsRow,
       Guarded, TypeOK, LocalTypeOK, DbTypeOK
<1>4. ASSUME NEW r \in Runs, KillCommit(r) PROVE PaidExclusive'
  <2>1. \A x \in Workers : HoldsRow(x) => cur[x] \in Jobs \ killSet[r]
    BY <1>4 DEF KillCommit, KillRowsFree, LocalInv, HoldsRow, Guarded, Outside
  <2> QED
    BY <1>4, <2>1 DEF KillCommit, PaidExclusive, HoldsRow, localVars
<1>5. ASSUME NEW w \in Workers, NEW j \in Jobs, Claim(w, j) PROVE PaidExclusive'
  BY <1>5
   DEF Claim, Claimable, Goto, Guarded, HoldsRow, JobRowFree, killVars,
       PaidExclusive, TypeOK, LocalTypeOK, DbTypeOK, dbVars, localVars
<1>6. ASSUME NEW j \in Jobs, LeaseExpires(j) PROVE PaidExclusive'
  BY <1>6
   DEF LeaseExpires, killVars, localVars, PaidExclusive, HoldsRow, Guarded,
       TypeOK, LocalTypeOK, DbTypeOK, dbVars
<1>7. ASSUME NEW w \in Workers, Crash(w) PROVE PaidExclusive'
  BY <1>7
   DEF Crash, Goto, Leave, dbVars, killVars, PaidExclusive, HoldsRow,
       Guarded, TypeOK, LocalTypeOK, DbTypeOK, localVars
<1>8. ASSUME NEW w \in Workers, Raise(w) PROVE PaidExclusive'
  BY <1>8
   DEF Raise, Goto, Guarded, dbVars, killVars, PaidExclusive, HoldsRow,
       TypeOK, LocalTypeOK, DbTypeOK, localVars
<1>9. ASSUME NEW w \in Workers, Load(w) PROVE PaidExclusive'
  BY <1>9
   DEF Load, Goto, Leave, dbVars, killVars, localVars, PaidExclusive,
       HoldsRow, Guarded, TypeOK, LocalTypeOK, DbTypeOK
<1>10. ASSUME NEW w \in Workers, SetRunning(w) PROVE PaidExclusive'
  BY <1>10
   DEF SetRunning, Goto, Run, killVars, PaidExclusive, HoldsRow, Guarded,
       TypeOK, LocalTypeOK, DbTypeOK, dbVars, localVars
<1>11. ASSUME NEW w \in Workers, FetchOk(w) PROVE PaidExclusive'
  BY <1>11
   DEF FetchOk, Goto, Leave, dbVars, killVars, PaidExclusive, HoldsRow,
       Guarded, TypeOK, LocalTypeOK, DbTypeOK, localVars
<1>12. ASSUME NEW w \in Workers, FetchFails(w) PROVE PaidExclusive'
  BY <1>12, RequeuePaid DEF FetchFails, HoldsRow, Guarded
<1>13. ASSUME NEW w \in Workers, SetWaiting(w) PROVE PaidExclusive'
  BY <1>13
   DEF SetWaiting, Goto, Leave, Run, killVars, PaidExclusive, HoldsRow,
       Guarded, TypeOK, LocalTypeOK, DbTypeOK, dbVars, localVars
<1>14. ASSUME NEW w \in Workers, EnterStage(w) PROVE PaidExclusive'
  BY <1>14
   DEF EnterStage, Goto, Run, dbVars, killVars, PaidExclusive, HoldsRow,
       Guarded, TypeOK, LocalTypeOK, DbTypeOK, localVars
<1>15. ASSUME NEW w \in Workers, DecideOutcome(w) PROVE PaidExclusive'
  BY <1>15
   DEF DecideOutcome, Goto, dbVars, killVars, PaidExclusive, HoldsRow,
       Guarded, TypeOK, LocalTypeOK, DbTypeOK, localVars
<1>16. ASSUME NEW w \in Workers, InsertOutcome(w) PROVE PaidExclusive'
  BY <1>16
   DEF InsertOutcome, Goto, killVars, PaidExclusive, HoldsRow, Guarded,
       TypeOK, LocalTypeOK, DbTypeOK, dbVars, localVars
<1>17. ASSUME NEW w \in Workers, Guard(w) PROVE PaidExclusive'
  BY <1>17
   DEF Guard, Goto, Guarded, HeartbeatOk, HoldsRow, JobRowFree, Leave, Run,
       dbVars, killVars, localVars, PaidExclusive, TypeOK, LocalTypeOK,
       DbTypeOK
<1>18. ASSUME NEW w \in Workers, Reserve(w) PROVE PaidExclusive'
  BY <1>18
   DEF Reserve, Goto, Run, dbVars, killVars, localVars, PaidExclusive,
       HoldsRow, Guarded, TypeOK, LocalTypeOK, DbTypeOK
<1>19. ASSUME NEW w \in Workers, ReserveRefused(w) PROVE PaidExclusive'
  BY <1>19
   DEF ReserveRefused, Goto, Run, dbVars, killVars, localVars,
       PaidExclusive, HoldsRow, Guarded, TypeOK, LocalTypeOK, DbTypeOK
<1>20. ASSUME NEW w \in Workers, ReplayCalls(w) PROVE PaidExclusive'
  BY <1>20
   DEF ReplayCalls, Goto, dbVars, killVars, localVars, PaidExclusive,
       HoldsRow, Guarded, TypeOK, LocalTypeOK, DbTypeOK
<1>21. ASSUME NEW w \in Workers, CallReturns(w) PROVE PaidExclusive'
  BY <1>21
   DEF CallReturns, Goto, Run, dbVars, killVars, localVars, PaidExclusive,
       HoldsRow, Guarded, TypeOK, LocalTypeOK, DbTypeOK
<1>22. ASSUME NEW w \in Workers, CallFails(w) PROVE PaidExclusive'
  BY <1>22
   DEF CallFails, Goto, Run, dbVars, killVars, localVars, PaidExclusive,
       HoldsRow, Guarded, TypeOK, LocalTypeOK, DbTypeOK
<1>23. ASSUME NEW w \in Workers, CommitCache(w) PROVE PaidExclusive'
  BY <1>23
   DEF CommitCache, Goto, Guarded, HoldsRow, killVars, localVars,
       PaidExclusive, TypeOK, LocalTypeOK, DbTypeOK, dbVars
<1>24. ASSUME NEW w \in Workers, CommitRound(w) PROVE PaidExclusive'
  BY <1>24
   DEF CommitRound, Goto, Guarded, HoldsRow, killVars, PaidExclusive,
       TypeOK, LocalTypeOK, DbTypeOK, dbVars, localVars
<1>25. ASSUME NEW w \in Workers, AbstainRound(w) PROVE PaidExclusive'
  BY <1>25
   DEF AbstainRound, Goto, Guarded, HoldsRow, killVars, localVars,
       PaidExclusive, TypeOK, LocalTypeOK, DbTypeOK, dbVars
<1>26. ASSUME NEW w \in Workers, CommitResult(w) PROVE PaidExclusive'
  BY <1>26
   DEF CommitResult, Goto, Guarded, HoldsRow, killVars, localVars,
       PaidExclusive, TypeOK, LocalTypeOK, DbTypeOK, dbVars
<1>27. ASSUME NEW w \in Workers, CompleteStage(w) PROVE PaidExclusive'
  BY <1>27
   DEF CompleteStage, Goto, Guarded, HoldsRow, JobRowFree, Leave, killVars,
       PaidExclusive, TypeOK, LocalTypeOK, DbTypeOK, dbVars, localVars
<1>28. ASSUME NEW w \in Workers, FinishReady(w) PROVE PaidExclusive'
  BY <1>28
   DEF FinishReady, FinishJob, Goto, Guarded, HoldsRow, JobRowFree, Run,
       killVars, PaidExclusive, TypeOK, LocalTypeOK, DbTypeOK, dbVars,
       localVars
<1>29. ASSUME NEW w \in Workers, FinishFailed(w) PROVE PaidExclusive'
  BY <1>29
   DEF FinishFailed, FinishJob, Goto, Guarded, HoldsRow, JobRowFree, Run,
       killVars, PaidExclusive, TypeOK, LocalTypeOK, DbTypeOK, dbVars,
       localVars
<1>30. ASSUME NEW w \in Workers, FinishStopped(w) PROVE PaidExclusive'
  BY <1>30
   DEF FinishStopped, FinishJob, Goto, Guarded, HoldsRow, JobRowFree,
       Leave, killVars, PaidExclusive, TypeOK, LocalTypeOK, DbTypeOK, dbVars,
       localVars
<1>31. ASSUME NEW w \in Workers, StopRun(w) PROVE PaidExclusive'
  BY <1>31
   DEF StopRun, Goto, Run, killVars, localVars, PaidExclusive, HoldsRow,
       Guarded, TypeOK, LocalTypeOK, DbTypeOK, dbVars
<1>32. ASSUME NEW w \in Workers, RequeueCrashed(w) PROVE PaidExclusive'
  BY <1>32, RequeuePaid DEF RequeueCrashed, HoldsRow, Guarded
<1>33. ASSUME NEW w \in Workers, FinalizeRead(w) PROVE PaidExclusive'
  BY <1>33
   DEF FinalizeRead, AfterFinalize, Goto, JobsOf, Leave, dbVars, killVars,
       PaidExclusive, HoldsRow, Guarded, TypeOK, LocalTypeOK, DbTypeOK,
       localVars
<1>34. ASSUME NEW w \in Workers, FinalizeWrite(w) PROVE PaidExclusive'
  BY <1>34
   DEF FinalizeWrite, AfterFinalize, Goto, Leave, killVars, PaidExclusive,
       HoldsRow, Guarded, TypeOK, LocalTypeOK, DbTypeOK, dbVars, localVars
<1>35. ASSUME NEW w \in Workers, Beat(w) PROVE PaidExclusive'
  <2>1. \A x \in Workers : HoldsRow(x) => cur[x] \in Jobs \ StaleJobs
    BY <1>35 DEF Beat, JobRowFree, StaleJobs, LocalInv, HoldsRow, Guarded, Outside
  <2>2. \A x \in Workers : HoldsRow(x)' => HoldsRow(x)
    BY <1>35 DEF Beat, Goto, HoldsRow, Guarded, TypeOK, LocalTypeOK
  <2> QED
    BY <1>35, <2>1, <2>2 DEF Beat, PaidExclusive, HoldsRow, localVars
<1>36. ASSUME NEW w \in Workers, Sweep(w) PROVE PaidExclusive'
  BY <1>36
   DEF Sweep, Goto, JobsOf, dbVars, killVars, PaidExclusive, HoldsRow,
       Guarded, TypeOK, LocalTypeOK, DbTypeOK, localVars
<1>37. ASSUME FleetSwitch PROVE PaidExclusive'
  BY <1>37
   DEF FleetSwitch, dbVars, killVars, localVars, PaidExclusive, HoldsRow,
       Guarded, TypeOK, LocalTypeOK, DbTypeOK
<1> QED
  BY <1>1, <1>2, <1>3, <1>4, <1>5, <1>6, <1>7, <1>8, <1>9, <1>10, <1>11,
     <1>12, <1>13, <1>14, <1>15, <1>16, <1>17, <1>18, <1>19, <1>20, <1>21,
     <1>22, <1>23, <1>24, <1>25, <1>26, <1>27, <1>28, <1>29, <1>30, <1>31,
     <1>32, <1>33, <1>34, <1>35, <1>36, <1>37
   DEF Next, RunJob


\* Steps that change no row and take no loop to a later stage.
LEMMA OutcomeLeft ==
    ASSUME TypeOK, OutcomeInv, DoneHasOutcome, NEW w \in Workers, UNCHANGED dbVars,
           Leave(w)
    PROVE  (OutcomeInv /\ DoneHasOutcome)'
  BY LifecycleAssumption
   DEF Leave, Goto, OutcomeInv, DoneHasOutcome, TypeOK, LocalTypeOK, Score, dbVars

LEMMA OutcomeKept ==
    ASSUME TypeOK, OutcomeInv, DoneHasOutcome, NEW w \in Workers, UNCHANGED dbVars,
           NEW p \in {"drop", "halt", "paid"}, Goto(w, p), UNCHANGED localVars
    PROVE  (OutcomeInv /\ DoneHasOutcome)'
  BY DEF Goto, localVars, OutcomeInv, DoneHasOutcome, TypeOK, LocalTypeOK, Score,
         dbVars

\* Every step keeps the outcome of a scored Pro on record.
LEMMA OutcomeStep ==
    ASSUME TypeOK, LocalInv, OutcomeInv, DoneHasOutcome, Next
    PROVE  (OutcomeInv /\ DoneHasOutcome)'
<1>1. ASSUME NEW r \in Runs, CreateRun(r) PROVE (OutcomeInv /\ DoneHasOutcome)'
  BY <1>1
   DEF CreateRun, localVars, OutcomeInv, DoneHasOutcome, TypeOK,
       LocalTypeOK, DbTypeOK, Score, dbVars
<1>2. ASSUME NEW r \in Runs, KillCheck(r) PROVE (OutcomeInv /\ DoneHasOutcome)'
  BY <1>2
   DEF KillCheck, dbVars, localVars, OutcomeInv, DoneHasOutcome, TypeOK,
       LocalTypeOK, DbTypeOK, Score
<1>3. ASSUME NEW r \in Runs, KillFlush(r) PROVE (OutcomeInv /\ DoneHasOutcome)'
  BY <1>3
   DEF KillFlush, dbVars, localVars, OutcomeInv, DoneHasOutcome, TypeOK,
       LocalTypeOK, DbTypeOK, Score
<1>4. ASSUME NEW r \in Runs, KillCommit(r) PROVE (OutcomeInv /\ DoneHasOutcome)'
  BY <1>4
   DEF KillCommit, Guarded, localVars, OutcomeInv, DoneHasOutcome, TypeOK,
       LocalTypeOK, DbTypeOK, Score, dbVars
<1>5. ASSUME NEW w \in Workers, NEW j \in Jobs, Claim(w, j)
      PROVE  (OutcomeInv /\ DoneHasOutcome)'
  BY <1>5
   DEF Claim, Claimable, Goto, Guarded, OutcomeInv, DoneHasOutcome, TypeOK,
       LocalTypeOK, DbTypeOK, Score, dbVars, LocalInv, Outside
<1>6. ASSUME NEW j \in Jobs, LeaseExpires(j)
      PROVE  (OutcomeInv /\ DoneHasOutcome)'
  BY <1>6
   DEF LeaseExpires, localVars, OutcomeInv, DoneHasOutcome, TypeOK,
       LocalTypeOK, DbTypeOK, Score, dbVars
<1>7. ASSUME NEW w \in Workers, Crash(w) PROVE (OutcomeInv /\ DoneHasOutcome)'
  BY <1>7
   DEF Crash, Goto, Leave, dbVars, OutcomeInv, DoneHasOutcome, TypeOK,
       LocalTypeOK, DbTypeOK, Score, LocalInv, Outside
<1>8. ASSUME NEW w \in Workers, Raise(w) PROVE (OutcomeInv /\ DoneHasOutcome)'
  BY <1>8
   DEF Raise, Goto, Guarded, dbVars, OutcomeInv, DoneHasOutcome, TypeOK,
       LocalTypeOK, DbTypeOK, Score, LocalInv, Outside
<1>9. ASSUME NEW w \in Workers, Load(w) PROVE (OutcomeInv /\ DoneHasOutcome)'
  BY <1>9
   DEF Load, Goto, Leave, dbVars, localVars, OutcomeInv, DoneHasOutcome,
       TypeOK, LocalTypeOK, DbTypeOK, Score, LocalInv, Outside
<1>10. ASSUME NEW w \in Workers, SetRunning(w)
       PROVE  (OutcomeInv /\ DoneHasOutcome)'
  BY <1>10
   DEF SetRunning, Goto, OutcomeInv, DoneHasOutcome, TypeOK, LocalTypeOK,
       DbTypeOK, Score, dbVars, LocalInv, Outside
<1>11. ASSUME NEW w \in Workers, FetchOk(w)
       PROVE  (OutcomeInv /\ DoneHasOutcome)'
  BY <1>11
   DEF FetchOk, Goto, Leave, dbVars, OutcomeInv, DoneHasOutcome, TypeOK,
       LocalTypeOK, DbTypeOK, Score, LocalInv, Outside, Evolve, Final, Measure,
       Ready, Context
<1>12. ASSUME NEW w \in Workers, FetchFails(w)
       PROVE  (OutcomeInv /\ DoneHasOutcome)'
  BY <1>12
   DEF FetchFails, Goto, Guarded, Leave, Requeue, localVars, OutcomeInv,
       DoneHasOutcome, TypeOK, LocalTypeOK, DbTypeOK, Score, dbVars, LocalInv,
       Outside
<1>13. ASSUME NEW w \in Workers, SetWaiting(w)
       PROVE  (OutcomeInv /\ DoneHasOutcome)'
  BY <1>13
   DEF SetWaiting, Goto, Leave, OutcomeInv, DoneHasOutcome, TypeOK,
       LocalTypeOK, DbTypeOK, Score, dbVars, LocalInv, Outside
<1>14. ASSUME NEW w \in Workers, EnterStage(w)
       PROVE  (OutcomeInv /\ DoneHasOutcome)'
  BY <1>14
   DEF EnterStage, Goto, dbVars, OutcomeInv, DoneHasOutcome, TypeOK,
       LocalTypeOK, DbTypeOK, Score, LocalInv, Outside, Evolve, Final, Measure,
       Ready, Context
<1>15. ASSUME NEW w \in Workers, DecideOutcome(w)
       PROVE  (OutcomeInv /\ DoneHasOutcome)'
  BY <1>15
   DEF DecideOutcome, Goto, OutcomeKinds, dbVars, OutcomeInv,
       DoneHasOutcome, TypeOK, LocalTypeOK, DbTypeOK, Score, LocalInv, Outside,
       Evolve, Final, Measure, Ready, Context
<1>16. ASSUME NEW w \in Workers, InsertOutcome(w)
       PROVE  (OutcomeInv /\ DoneHasOutcome)'
  BY <1>16
   DEF InsertOutcome, Goto, OutcomeInv, DoneHasOutcome, TypeOK,
       LocalTypeOK, DbTypeOK, Score, dbVars, LocalInv, Outside
<1>17. ASSUME NEW w \in Workers, Guard(w) PROVE (OutcomeInv /\ DoneHasOutcome)'
  <2>1. StopRoute(w) \in {"drop", "halt"}
    BY DEF StopRoute
  <2>2. CASE HeartbeatOk(w)
    <3> DEFINE p == IF fleetKilled \/ runStatus[Run(w)] = "stopped"
                    THEN StopRoute(w) ELSE "paid"
    <3>1. p \in {"drop", "halt", "paid"}
      BY <2>1
    <3>2. Goto(w, p) /\ UNCHANGED localVars /\ UNCHANGED dbVars
      BY <1>17, <2>2 DEF Guard
    <3> QED
      BY <3>1, <3>2, OutcomeKept
  <2>3. CASE ~HeartbeatOk(w)
    BY <1>17, <2>3, OutcomeLeft DEF Guard
  <2> QED
    BY <2>2, <2>3
<1>18. ASSUME NEW w \in Workers, Reserve(w)
       PROVE  (OutcomeInv /\ DoneHasOutcome)'
  BY <1>18
   DEF Reserve, Goto, dbVars, localVars, OutcomeInv, DoneHasOutcome,
       TypeOK, LocalTypeOK, DbTypeOK, Score, LocalInv, Outside
<1>19. ASSUME NEW w \in Workers, ReserveRefused(w)
       PROVE  (OutcomeInv /\ DoneHasOutcome)'
  <2>1. StopRoute(w) \in {"drop", "halt"}
    BY DEF StopRoute
  <2> QED
    BY <1>19, <2>1, OutcomeKept DEF ReserveRefused
<1>20. ASSUME NEW w \in Workers, ReplayCalls(w)
       PROVE  (OutcomeInv /\ DoneHasOutcome)'
  BY <1>20
   DEF ReplayCalls, Goto, dbVars, localVars, OutcomeInv, DoneHasOutcome,
       TypeOK, LocalTypeOK, DbTypeOK, Score, LocalInv, Outside, Evolve, Final,
       Measure, Ready, Context
<1>21. ASSUME NEW w \in Workers, CallReturns(w)
       PROVE  (OutcomeInv /\ DoneHasOutcome)'
  BY <1>21
   DEF CallReturns, Goto, dbVars, localVars, OutcomeInv, DoneHasOutcome,
       TypeOK, LocalTypeOK, DbTypeOK, Score, LocalInv, Outside
<1>22. ASSUME NEW w \in Workers, CallFails(w)
       PROVE  (OutcomeInv /\ DoneHasOutcome)'
  BY <1>22
   DEF CallFails, Goto, dbVars, localVars, OutcomeInv, DoneHasOutcome,
       TypeOK, LocalTypeOK, DbTypeOK, Score, LocalInv, Outside, Evolve, Final,
       Measure, Ready, Context
<1>23. ASSUME NEW w \in Workers, CommitCache(w)
       PROVE  (OutcomeInv /\ DoneHasOutcome)'
  BY <1>23
   DEF CommitCache, Goto, Guarded, localVars, OutcomeInv, DoneHasOutcome,
       TypeOK, LocalTypeOK, DbTypeOK, Score, dbVars, LocalInv, Outside
<1>24. ASSUME NEW w \in Workers, CommitRound(w)
       PROVE  (OutcomeInv /\ DoneHasOutcome)'
  BY <1>24
   DEF CommitRound, Goto, Guarded, OutcomeInv, DoneHasOutcome, TypeOK,
       LocalTypeOK, DbTypeOK, Score, dbVars, LocalInv, Outside, Evolve, Final,
       Measure, Ready, Context
<1>25. ASSUME NEW w \in Workers, AbstainRound(w)
       PROVE  (OutcomeInv /\ DoneHasOutcome)'
  BY <1>25
   DEF AbstainRound, Goto, Guarded, localVars, OutcomeInv, DoneHasOutcome,
       TypeOK, LocalTypeOK, DbTypeOK, Score, dbVars, LocalInv, Outside, Evolve,
       Final, Measure, Ready, Context
<1>26. ASSUME NEW w \in Workers, CommitResult(w)
       PROVE  (OutcomeInv /\ DoneHasOutcome)'
  BY <1>26
   DEF CommitResult, Goto, Guarded, localVars, OutcomeInv, DoneHasOutcome,
       TypeOK, LocalTypeOK, DbTypeOK, Score, dbVars, LocalInv, Outside, Evolve,
       Final, Measure, Ready, Context
<1>27. ASSUME NEW w \in Workers, CompleteStage(w)
       PROVE  (OutcomeInv /\ DoneHasOutcome)'
  <2>1. cur[w] \in Jobs /\ stage[w] \in 0..Ready
    BY <1>27, Working DEF CompleteStage, Outside, TypeOK, LocalTypeOK
  <2>2. stage[w] >= Score => winner[cur[w]] # "none"
    BY <1>27, <2>1
     DEF CompleteStage, MaySkip, OutcomeInv, Context, Evolve, Final, Score, Measure,
         Ready
  <2>3. \A j \in Jobs : checkpoint'[j] >= Score =>
            checkpoint[j] >= Score \/ (j = cur[w] /\ stage[w] >= Score)
    BY <1>27, <2>1 DEF CompleteStage, Merged, TypeOK, DbTypeOK, Ready, Score
  <2>4. UNCHANGED <<winner, jobStatus>>
    BY <1>27 DEF CompleteStage
  <2>5. DoneHasOutcome'
    BY <2>2, <2>3, <2>4 DEF DoneHasOutcome
  <2>6. CASE Leave(w)
    BY <2>4, <2>5, <2>6, LifecycleAssumption
     DEF Leave, Goto, OutcomeInv, TypeOK, LocalTypeOK, Score
  <2>7. CASE /\ stage' = [stage EXCEPT ![w] = @ + 1]
             /\ Goto(w, "stage") /\ UNCHANGED cur
    BY <2>1, <2>2, <2>4, <2>5, <2>7
     DEF Goto, OutcomeInv, TypeOK, LocalTypeOK, Score, Ready
  <2> QED
    BY <1>27, <2>5, <2>6, <2>7 DEF CompleteStage
<1>28. ASSUME NEW w \in Workers, FinishReady(w)
       PROVE  (OutcomeInv /\ DoneHasOutcome)'
  BY <1>28
   DEF FinishReady, FinishJob, Goto, Guarded, OutcomeInv, DoneHasOutcome,
       TypeOK, LocalTypeOK, DbTypeOK, Score, dbVars, LocalInv, Outside, Evolve,
       Final, Measure, Ready, Context
<1>29. ASSUME NEW w \in Workers, FinishFailed(w)
       PROVE  (OutcomeInv /\ DoneHasOutcome)'
  BY <1>29
   DEF FinishFailed, FinishJob, Goto, Guarded, OutcomeInv, DoneHasOutcome,
       TypeOK, LocalTypeOK, DbTypeOK, Score, dbVars, LocalInv, Outside
<1>30. ASSUME NEW w \in Workers, FinishStopped(w)
       PROVE  (OutcomeInv /\ DoneHasOutcome)'
  BY <1>30
   DEF FinishStopped, FinishJob, Goto, Guarded, Leave, OutcomeInv,
       DoneHasOutcome, TypeOK, LocalTypeOK, DbTypeOK, Score, dbVars, LocalInv,
       Outside
<1>31. ASSUME NEW w \in Workers, StopRun(w)
       PROVE  (OutcomeInv /\ DoneHasOutcome)'
  BY <1>31
   DEF StopRun, Goto, localVars, OutcomeInv, DoneHasOutcome, TypeOK,
       LocalTypeOK, DbTypeOK, Score, dbVars, LocalInv, Outside
<1>32. ASSUME NEW w \in Workers, RequeueCrashed(w)
       PROVE  (OutcomeInv /\ DoneHasOutcome)'
  BY <1>32
   DEF RequeueCrashed, Goto, Guarded, Leave, Requeue, localVars,
       OutcomeInv, DoneHasOutcome, TypeOK, LocalTypeOK, DbTypeOK, Score,
       dbVars, LocalInv, Outside
<1>33. ASSUME NEW w \in Workers, FinalizeRead(w)
       PROVE  (OutcomeInv /\ DoneHasOutcome)'
  BY <1>33
   DEF FinalizeRead, AfterFinalize, Goto, Leave, dbVars, OutcomeInv,
       DoneHasOutcome, TypeOK, LocalTypeOK, DbTypeOK, Score, LocalInv, Outside,
       Evolve, Final, Measure, Ready, Context
<1>34. ASSUME NEW w \in Workers, FinalizeWrite(w)
       PROVE  (OutcomeInv /\ DoneHasOutcome)'
  BY <1>34
   DEF FinalizeWrite, AfterFinalize, Goto, Leave, OutcomeInv,
       DoneHasOutcome, TypeOK, LocalTypeOK, DbTypeOK, Score, dbVars, LocalInv,
       Outside, Evolve, Final, Measure, Ready, Context
<1>35. ASSUME NEW w \in Workers, Beat(w) PROVE (OutcomeInv /\ DoneHasOutcome)'
  BY <1>35
   DEF Beat, Claimable, Goto, Guarded, StaleJobs, localVars, OutcomeInv,
       DoneHasOutcome, TypeOK, LocalTypeOK, DbTypeOK, Score, dbVars, LocalInv,
       Outside
<1>36. ASSUME NEW w \in Workers, Sweep(w) PROVE (OutcomeInv /\ DoneHasOutcome)'
  BY <1>36
   DEF Sweep, Goto, dbVars, OutcomeInv, DoneHasOutcome, TypeOK,
       LocalTypeOK, DbTypeOK, Score, LocalInv, Outside
<1>37. ASSUME FleetSwitch PROVE (OutcomeInv /\ DoneHasOutcome)'
  BY <1>37
   DEF FleetSwitch, dbVars, localVars, OutcomeInv, DoneHasOutcome, TypeOK,
       LocalTypeOK, DbTypeOK, Score
<1> QED
  BY <1>1, <1>2, <1>3, <1>4, <1>5, <1>6, <1>7, <1>8, <1>9, <1>10, <1>11,
     <1>12, <1>13, <1>14, <1>15, <1>16, <1>17, <1>18, <1>19, <1>20, <1>21,
     <1>22, <1>23, <1>24, <1>25, <1>26, <1>27, <1>28, <1>29, <1>30, <1>31,
     <1>32, <1>33, <1>34, <1>35, <1>36, <1>37
   DEF Next, RunJob

\* No step rewrites an outcome row, a checkpoint or the round ledger.
LEMMA ProgressStep ==
    ASSUME TypeOK, Next
    PROVE  Progress
<1>1. ASSUME NEW r \in Runs, CreateRun(r) PROVE Progress
  BY <1>1 DEF CreateRun, Progress, TypeOK, DbTypeOK
<1>2. ASSUME NEW r \in Runs, KillCheck(r) PROVE Progress
  BY <1>2 DEF KillCheck, dbVars, Progress, TypeOK, DbTypeOK
<1>3. ASSUME NEW r \in Runs, KillFlush(r) PROVE Progress
  BY <1>3 DEF KillFlush, dbVars, Progress, TypeOK, DbTypeOK
<1>4. ASSUME NEW r \in Runs, KillCommit(r) PROVE Progress
  BY <1>4 DEF KillCommit, Progress, TypeOK, DbTypeOK
<1>5. ASSUME NEW w \in Workers, NEW j \in Jobs, Claim(w, j) PROVE Progress
  BY <1>5 DEF Claim, Progress, TypeOK, DbTypeOK
<1>6. ASSUME NEW j \in Jobs, LeaseExpires(j) PROVE Progress
  BY <1>6 DEF LeaseExpires, Progress, TypeOK, DbTypeOK
<1>7. ASSUME NEW w \in Workers, Crash(w) PROVE Progress
  BY <1>7 DEF Crash, dbVars, Progress, TypeOK, DbTypeOK
<1>8. ASSUME NEW w \in Workers, Raise(w) PROVE Progress
  BY <1>8 DEF Raise, dbVars, Progress, TypeOK, DbTypeOK
<1>9. ASSUME NEW w \in Workers, Load(w) PROVE Progress
  BY <1>9 DEF Load, dbVars, Progress, TypeOK, DbTypeOK
<1>10. ASSUME NEW w \in Workers, SetRunning(w) PROVE Progress
  BY <1>10 DEF SetRunning, Progress, TypeOK, DbTypeOK
<1>11. ASSUME NEW w \in Workers, FetchOk(w) PROVE Progress
  BY <1>11 DEF FetchOk, dbVars, Progress, TypeOK, DbTypeOK
<1>12. ASSUME NEW w \in Workers, FetchFails(w) PROVE Progress
  BY <1>12 DEF FetchFails, Requeue, Progress, TypeOK, DbTypeOK
<1>13. ASSUME NEW w \in Workers, SetWaiting(w) PROVE Progress
  BY <1>13 DEF SetWaiting, Progress, TypeOK, DbTypeOK
<1>14. ASSUME NEW w \in Workers, EnterStage(w) PROVE Progress
  BY <1>14 DEF EnterStage, dbVars, Progress, TypeOK, DbTypeOK
<1>15. ASSUME NEW w \in Workers, DecideOutcome(w) PROVE Progress
  BY <1>15 DEF DecideOutcome, dbVars, Progress, TypeOK, DbTypeOK
<1>16. ASSUME NEW w \in Workers, InsertOutcome(w) PROVE Progress
  BY <1>16
   DEF InsertOutcome, Progress, TypeOK, DbTypeOK, LocalTypeOK, Merged,
       Ready
<1>17. ASSUME NEW w \in Workers, Guard(w) PROVE Progress
  BY <1>17 DEF Guard, dbVars, Progress, TypeOK, DbTypeOK
<1>18. ASSUME NEW w \in Workers, Reserve(w) PROVE Progress
  BY <1>18 DEF Reserve, dbVars, Progress, TypeOK, DbTypeOK
<1>19. ASSUME NEW w \in Workers, ReserveRefused(w) PROVE Progress
  BY <1>19 DEF ReserveRefused, dbVars, Progress, TypeOK, DbTypeOK
<1>20. ASSUME NEW w \in Workers, ReplayCalls(w) PROVE Progress
  BY <1>20 DEF ReplayCalls, dbVars, Progress, TypeOK, DbTypeOK
<1>21. ASSUME NEW w \in Workers, CallReturns(w) PROVE Progress
  BY <1>21 DEF CallReturns, dbVars, Progress, TypeOK, DbTypeOK
<1>22. ASSUME NEW w \in Workers, CallFails(w) PROVE Progress
  BY <1>22 DEF CallFails, dbVars, Progress, TypeOK, DbTypeOK
<1>23. ASSUME NEW w \in Workers, CommitCache(w) PROVE Progress
  BY <1>23 DEF CommitCache, Progress, TypeOK, DbTypeOK
<1>24. ASSUME NEW w \in Workers, CommitRound(w) PROVE Progress
  BY <1>24
   DEF CommitRound, Progress, TypeOK, DbTypeOK, LocalTypeOK, Merged, Ready
<1>25. ASSUME NEW w \in Workers, AbstainRound(w) PROVE Progress
  BY <1>25
   DEF AbstainRound, Progress, TypeOK, DbTypeOK, LocalTypeOK, Merged, Ready
<1>26. ASSUME NEW w \in Workers, CommitResult(w) PROVE Progress
  BY <1>26 DEF CommitResult, Progress, TypeOK, DbTypeOK
<1>27. ASSUME NEW w \in Workers, CompleteStage(w) PROVE Progress
  BY <1>27
   DEF CompleteStage, Progress, TypeOK, DbTypeOK, LocalTypeOK, Merged,
       Ready
<1>28. ASSUME NEW w \in Workers, FinishReady(w) PROVE Progress
  BY <1>28 DEF FinishReady, FinishJob, Progress, TypeOK, DbTypeOK
<1>29. ASSUME NEW w \in Workers, FinishFailed(w) PROVE Progress
  BY <1>29 DEF FinishFailed, FinishJob, Progress, TypeOK, DbTypeOK
<1>30. ASSUME NEW w \in Workers, FinishStopped(w) PROVE Progress
  BY <1>30 DEF FinishStopped, FinishJob, Progress, TypeOK, DbTypeOK
<1>31. ASSUME NEW w \in Workers, StopRun(w) PROVE Progress
  BY <1>31 DEF StopRun, Progress, TypeOK, DbTypeOK
<1>32. ASSUME NEW w \in Workers, RequeueCrashed(w) PROVE Progress
  BY <1>32 DEF RequeueCrashed, Requeue, Progress, TypeOK, DbTypeOK
<1>33. ASSUME NEW w \in Workers, FinalizeRead(w) PROVE Progress
  BY <1>33 DEF FinalizeRead, dbVars, Progress, TypeOK, DbTypeOK
<1>34. ASSUME NEW w \in Workers, FinalizeWrite(w) PROVE Progress
  BY <1>34 DEF FinalizeWrite, Progress, TypeOK, DbTypeOK
<1>35. ASSUME NEW w \in Workers, Beat(w) PROVE Progress
  BY <1>35 DEF Beat, Progress, TypeOK, DbTypeOK
<1>36. ASSUME NEW w \in Workers, Sweep(w) PROVE Progress
  BY <1>36 DEF Sweep, dbVars, Progress, TypeOK, DbTypeOK
<1>37. ASSUME FleetSwitch PROVE Progress
  BY <1>37 DEF FleetSwitch, dbVars, Progress, TypeOK, DbTypeOK
<1> QED
  BY <1>1, <1>2, <1>3, <1>4, <1>5, <1>6, <1>7, <1>8, <1>9, <1>10, <1>11,
     <1>12, <1>13, <1>14, <1>15, <1>16, <1>17, <1>18, <1>19, <1>20, <1>21,
     <1>22, <1>23, <1>24, <1>25, <1>26, <1>27, <1>28, <1>29, <1>30, <1>31,
     <1>32, <1>33, <1>34, <1>35, <1>36, <1>37
   DEF Next, RunJob


-----------------------------------------------------------------------------
(* The invariant, and what follows from it.                                *)

\* The invariant holds of a fresh database and idle workers.
LEMMA InitInv == ASSUME Init PROVE IInv
  <1>1. DbTypeOK
    BY LifecycleAssumption
     DEF Init, DbTypeOK, RunStatus, JobStatus, WinnerKind, Ready
  <1>2. LocalTypeOK
    BY LifecycleAssumption DEF Init, LocalTypeOK, Pc, WinnerKind, Ready
  <1>3. EnvTypeOK
    <2>1. fleetKilled \in BOOLEAN
      BY DEF Init
    <2>2. flips \in 0..MaxFlips
      BY LifecycleAssumption DEF Init
    <2>3. /\ killPc \in [Runs -> {"idle", "checked", "flushed", "acked"}]
          /\ killSet \in [Runs -> SUBSET Jobs]
      BY DEF Init
    <2> QED
      BY <2>1, <2>2, <2>3 DEF EnvTypeOK
  <1>4. LocalInv /\ OutcomeInv
    BY LifecycleAssumption
     DEF Init, LocalInv, OutcomeInv, Outside, Paying, Guarded
  <1>5. CreatedInv
    BY LifecycleAssumption DEF Init, CreatedInv
  <1>6. PaidExclusive /\ DoneHasOutcome
    BY DEF Init, PaidExclusive, HoldsRow, Guarded, DoneHasOutcome, Score
  <1> QED
    BY <1>1, <1>2, <1>3, <1>4, <1>5, <1>6 DEF IInv, TypeOK

\* Every step keeps the invariant.
LEMMA InvStep == ASSUME IInv, [Next]_vars PROVE IInv'
  <1>1. CASE Next
    BY <1>1, DbTypeStep, LocalTypeStep, EnvTypeStep, LocalStep, CreatedStep,
       PaidExclusiveStep, OutcomeStep
     DEF IInv, TypeOK
  <1>2. CASE UNCHANGED vars
    BY <1>2
     DEF vars, dbVars, envVars, localVars, killVars, IInv, TypeOK, DbTypeOK,
         LocalTypeOK, EnvTypeOK, LocalInv, CreatedInv, PaidExclusive, HoldsRow,
         OutcomeInv, DoneHasOutcome
  <1> QED
    BY <1>1, <1>2

\* The strengthened invariant holds in every reachable state.
THEOREM Invariance == Spec => []IInv
  <1>1. Init => IInv
    BY InitInv
  <1>2. IInv /\ [Next]_vars => IInv'
    BY InvStep
  <1> QED
    BY <1>1, <1>2, PTL DEF Spec

\* Type correctness: every row, loop and request stays within its type, and no
\* job is ever attempted more often than jobs.max_attempts allows.
THEOREM TypeCorrect == Spec => []TypeOK
  <1>1. IInv => TypeOK
    BY DEF IInv
  <1> QED
    BY Invariance, <1>1, PTL

\* At most one worker is at paid work for a job, and it is the owner on record,
\* however often leases lapse under a live worker (_guard, CLAIM_SQL, kill_run).
THEOREM PaidWorkIsExclusive == Spec => []PaidExclusive
  <1>1. IInv => PaidExclusive
    BY DEF IInv
  <1> QED
    BY Invariance, <1>1, PTL

\* No Pro vanishes: a finished job, and a job checkpointed past its score
\* stage, has its outcome row, whichever attempts completed which stages.
THEOREM EveryDoneJobHasAnOutcome == Spec => []DoneHasOutcome
  <1>1. IInv => DoneHasOutcome
    BY DEF IInv
  <1> QED
    BY Invariance, <1>1, PTL

\* Durable progress is never lost or rewritten by a stale or a second worker.
THEOREM DurableProgress == Spec => ProgressIsDurable
  <1>1. TypeOK /\ [Next]_vars => [Progress]_vars
    BY ProgressStep
  <1> QED
    BY TypeCorrect, <1>1, PTL DEF Spec, ProgressIsDurable, Progress

-----------------------------------------------------------------------------
(* When no live loop outlasts its lease and no operator kills: a verdict   *)
(* stands.  What is above assumes nothing of leases; here a lease makes a  *)
(* job its owner's.                                                        *)

(* The inductive invariants.                                               *)

\* A job in somebody's hands is not offered to anybody else, but for the moment
\* between the requeue and the status of the run.
LeaseInv ==
    \A w \in Workers : cur[w] \in Jobs /\ pc[w] # "requeued" =>
        /\ owner[cur[w]] = w /\ jobStatus[cur[w]] # "queued"
        /\ jobStatus[cur[w]] = "running" => lease[cur[w]] = "held"

\* The attempts requeue_job decides on are those of the row.
TriesInv ==
    /\ \A w \in Workers : cur[w] \in Jobs /\ pc[w] \in {"loaded", "fetch"} =>
           tries[w] = attempts[cur[w]]
    /\ \A j \in Jobs : jobStatus[j] = "absent" => attempts[j] = 0

\* A queued job has an attempt left.
QueuedIsClaimable == \A j \in Jobs : jobStatus[j] = "queued" => attempts[j] < MaxAttempts

TimelyInv == LeaseInv /\ TriesInv /\ QueuedIsClaimable

\* A loop is past the end of its job.
Over(w) == pc[w] \in {"requeued", "finalize", "verdict"} \/ (pc[w] = "complete" /\ stage[w] = Ready)

\* Until then the job is running, and a verdict that waits to be written is true.
RunningInv ==
    /\ \A r \in Runs : killPc[r] = "idle"
    /\ \A w \in Workers : cur[w] \in Jobs /\ ~Over(w) => jobStatus[cur[w]] = "running"
    /\ \A w \in Workers : pc[w] = "verdict" =>
           JobsSettled(target[w]) /\ seen[w] = Aggregate(target[w])

UnkilledInv == RunningInv /\ VerdictStands

-----------------------------------------------------------------------------
(* Steps that leave the queue alone.                                       *)

\* A step of w that takes no job and only leaves the one in hand; the attempts it
\* may decide on later are the ones of the row.
Moves(w) ==
    /\ \A x \in Workers \ {w} : pc'[x] = pc[x] /\ cur'[x] = cur[x] /\ tries'[x] = tries[x]
    /\ cur'[w] \in Jobs =>
          /\ cur'[w] = cur[w] /\ pc[w] # "requeued"
          /\ pc'[w] \in {"loaded", "fetch"} =>
                \/ tries'[w] = attempts[cur[w]]
                \/ tries'[w] = tries[w] /\ pc[w] \in {"loaded", "fetch"}

\* A step that changes no job row but to lengthen a lease.
Rests ==
    /\ UNCHANGED <<jobStatus, owner, attempts>>
    /\ \A j \in Jobs : lease'[j] \in {lease[j], "held"}

LEMMA RestKeeps ==
    ASSUME TypeOK, TimelyInv, NEW w \in Workers, Rests, Moves(w)
    PROVE  TimelyInv'
<1>1. LeaseInv'
  BY DEF TimelyInv, LeaseInv, Rests, Moves
<1>2. TriesInv'
  BY DEF TimelyInv, TriesInv, Rests, Moves
<1> QED
  BY <1>1, <1>2 DEF TimelyInv, QueuedIsClaimable, Rests

\* Most steps of run_job are such steps.
LEMMA ResumeRests ==
    ASSUME TypeOK, LocalInv, NEW w \in Workers,
           RunJob(w) \/ Crash(w) \/ Raise(w) \/ Sweep(w),
           ~FetchFails(w), ~FinishReady(w), ~FinishFailed(w), ~FinishStopped(w),
           ~RequeueCrashed(w)
    PROVE  Rests /\ Moves(w)
<1> USE LifecycleAssumption DEF Rests, Moves, TypeOK, LocalTypeOK, DbTypeOK, LocalInv, Outside, Guarded, Goto
<1>1. CASE SetRunning(w)
  BY <1>1 DEF SetRunning
<1>2. CASE FetchOk(w)
  BY <1>2 DEF FetchOk, Leave, dbVars
<1>3. CASE SetWaiting(w)
  BY <1>3 DEF SetWaiting, Leave
<1>4. CASE EnterStage(w)
  BY <1>4 DEF EnterStage, dbVars
<1>5. CASE DecideOutcome(w)
  BY <1>5 DEF DecideOutcome, dbVars
<1>6. CASE InsertOutcome(w)
  BY <1>6 DEF InsertOutcome
<1>7. CASE Guard(w)
  BY <1>7 DEF Guard, Leave, StopRoute, dbVars, localVars
<1>8. CASE Reserve(w)
  BY <1>8 DEF Reserve, dbVars, localVars
<1>9. CASE ReserveRefused(w)
  BY <1>9 DEF ReserveRefused, StopRoute, dbVars, localVars
<1>10. CASE ReplayCalls(w)
  BY <1>10 DEF ReplayCalls, dbVars, localVars
<1>11. CASE CallReturns(w)
  BY <1>11 DEF CallReturns, dbVars, localVars
<1>12. CASE CallFails(w)
  BY <1>12 DEF CallFails, StopRoute, dbVars, localVars
<1>13. CASE CommitCache(w)
  BY <1>13 DEF CommitCache, CommitHeartbeat, localVars
<1>14. CASE CommitRound(w)
  BY <1>14 DEF CommitRound, CommitHeartbeat
<1>15. CASE AbstainRound(w)
  BY <1>15 DEF AbstainRound, CommitHeartbeat, localVars
<1>16. CASE CommitResult(w)
  BY <1>16 DEF CommitResult, CommitHeartbeat, localVars
<1>17. CASE CompleteStage(w)
  BY <1>17 DEF CompleteStage, Leave
<1>18. CASE StopRun(w)
  BY <1>18 DEF StopRun, localVars
<1>19. CASE FinalizeRead(w)
  BY <1>19 DEF FinalizeRead, AfterFinalize, Leave, dbVars
<1>20. CASE FinalizeWrite(w)
  BY <1>20 DEF FinalizeWrite, AfterFinalize, Leave
<1>21. CASE Load(w)
  BY <1>21 DEF Load, Leave, dbVars, localVars
<1>22. CASE Crash(w)
  BY <1>22 DEF Crash, Leave, dbVars
<1>23. CASE Raise(w)
  BY <1>23 DEF Raise, dbVars
<1>24. CASE Sweep(w)
  BY <1>24 DEF Sweep, dbVars
<1> QED
  BY <1>1, <1>2, <1>3, <1>4, <1>5, <1>6, <1>7, <1>8, <1>9, <1>10, <1>11, <1>12, <1>13, <1>14, <1>15, <1>16, <1>17, <1>18, <1>19, <1>20, <1>21, <1>22, <1>23, <1>24 DEF RunJob

-----------------------------------------------------------------------------
(* Steps that change the queue.                                            *)

\* The statuses a job ends with are not the one it waits with.
LEMMA EndIsNoQueue == "queued" \notin TerminalJob /\ "running" \notin TerminalJob /\ "absent" \notin TerminalJob
  BY DEF TerminalJob

\* A job is claimed only when nobody has it, for a live owner keeps its lease.
LEMMA ClaimTimely ==
    ASSUME TypeOK, LocalInv, TimelyInv, NEW w \in Workers, NEW j \in Jobs, Claim(w, j)
    PROVE  TimelyInv'
<1> USE LifecycleAssumption DEF TypeOK, DbTypeOK, LocalTypeOK, Goto
<1>1. \A x \in Workers : cur[x] = j => pc[x] = "requeued"
  BY DEF Claim, Claimable, TimelyInv, LeaseInv
<1>2. LeaseInv'
  BY <1>1 DEF Claim, TimelyInv, LeaseInv
<1>3. TriesInv'
  BY <1>1 DEF Claim, TimelyInv, TriesInv
<1>4. QueuedIsClaimable'
  BY DEF Claim, TimelyInv, QueuedIsClaimable
<1> QED
  BY <1>2, <1>3, <1>4 DEF TimelyInv

\* A lease that lapses has no live owner.
LEMMA ExpireTimely ==
    ASSUME SlowAt = {}, TypeOK, TimelyInv, NEW j \in Jobs, LeaseExpires(j)
    PROVE  TimelyInv'
<1> USE LifecycleAssumption DEF TypeOK, DbTypeOK, LocalTypeOK
<1>1. \A x \in Workers : cur[x] = j => pc[x] = "requeued"
  BY DEF LeaseExpires, LiveOwner, TimelyInv, LeaseInv
<1>2. LeaseInv'
  BY <1>1 DEF LeaseExpires, TimelyInv, LeaseInv, localVars
<1> QED
  BY <1>2 DEF LeaseExpires, TimelyInv, TriesInv, QueuedIsClaimable, localVars

\* A requeue that decides on the attempts of the row leaves one to the next claim.
LEMMA RequeueTimely ==
    ASSUME TypeOK, LocalInv, TimelyInv, NEW w \in Workers, pc[w] \in {"fetch", "crash"},
           NEW p \in {"idle", "requeued"}, Requeue(w, attempts[cur[w]], p)
    PROVE  TimelyInv'
<1> USE LifecycleAssumption DEF TypeOK, DbTypeOK, LocalTypeOK, Goto
<1>1. cur[w] \in Jobs /\ \A x \in Workers : cur[x] = cur[w] /\ x # w => pc[x] = "requeued"
  BY DEF LocalInv, Outside, TimelyInv, LeaseInv
<1>2. CASE Exhausted(attempts[cur[w]])
  BY <1>1, <1>2 DEF Requeue, TimelyInv, LeaseInv, TriesInv, QueuedIsClaimable
<1>3. CASE ~Exhausted(attempts[cur[w]])
  <2>1. /\ jobStatus' = [jobStatus EXCEPT ![cur[w]] = "queued"]
        /\ lease' = [lease EXCEPT ![cur[w]] = "none"]
        /\ UNCHANGED <<owner, attempts>>
        /\ \A x \in Workers \ {w} : pc'[x] = pc[x] /\ cur'[x] = cur[x] /\ tries'[x] = tries[x]
        /\ cur'[w] \in Jobs => pc'[w] = "requeued"
    BY <1>3 DEF Requeue, Leave, localVars
  <2>2. LeaseInv'
    BY <1>1, <2>1 DEF TimelyInv, LeaseInv
  <2>3. TriesInv'
    BY <1>1, <2>1 DEF TimelyInv, TriesInv
  <2>4. QueuedIsClaimable'
    BY <1>1, <1>3, <2>1 DEF Exhausted, TimelyInv, QueuedIsClaimable
  <2> QED
    BY <2>2, <2>3, <2>4 DEF TimelyInv
<1> QED
  BY <1>2, <1>3

\* A job that ends is never offered again.
LEMMA FinishTimely ==
    ASSUME TypeOK, LocalInv, TimelyInv, NEW w \in Workers,
           FinishReady(w) \/ FinishFailed(w) \/ FinishStopped(w)
    PROVE  TimelyInv'
<1> USE LifecycleAssumption DEF TypeOK, DbTypeOK, LocalTypeOK, Goto
<1>1. PICK st \in TerminalJob : FinishJob(w, st)
  BY DEF FinishReady, FinishFailed, FinishStopped, TerminalJob
<1>2. cur[w] \in Jobs /\ pc[w] \notin {"loaded", "fetch", "requeued"}
  BY DEF LocalInv, Outside, FinishReady, FinishFailed, FinishStopped
<1>3. /\ \A x \in Workers \ {w} : pc'[x] = pc[x] /\ cur'[x] = cur[x] /\ tries'[x] = tries[x]
      /\ cur'[w] \in Jobs => cur'[w] = cur[w] /\ pc'[w] = "finalize"
  BY DEF FinishReady, FinishFailed, FinishStopped, Leave
<1>4. LeaseInv'
  BY <1>1, <1>2, <1>3, EndIsNoQueue DEF FinishJob, TimelyInv, LeaseInv
<1>5. TriesInv'
  BY <1>1, <1>2, <1>3, EndIsNoQueue DEF FinishJob, TimelyInv, TriesInv
<1>6. QueuedIsClaimable'
  BY <1>1, <1>2, EndIsNoQueue DEF FinishJob, TimelyInv, QueuedIsClaimable
<1> QED
  BY <1>4, <1>5, <1>6 DEF TimelyInv

\* New jobs have all their attempts, and reaped and killed ones need none.
LEMMA BatchTimely ==
    ASSUME TypeOK, LocalInv, CreatedInv, TimelyInv,
           \/ \E r \in Runs : CreateRun(r) \/ KillCheck(r) \/ KillFlush(r) \/ KillCommit(r)
           \/ \E w \in Workers : Beat(w)
           \/ FleetSwitch
    PROVE  TimelyInv'
<1> USE LifecycleAssumption DEF TypeOK, DbTypeOK, LocalTypeOK
<1>1. ASSUME NEW r \in Runs, CreateRun(r) PROVE TimelyInv'
  <2>1. \A j \in Jobs : RunOf[j] = r => jobStatus[j] = "absent"
    BY <1>1 DEF CreateRun, CreatedInv
  <2>2. \A x \in Workers : cur[x] \in Jobs => RunOf[cur[x]] # r
    BY <2>1 DEF CreatedInv
  <2>3. LeaseInv'
    BY <1>1, <2>2 DEF CreateRun, localVars, TimelyInv, LeaseInv
  <2> QED
    BY <1>1, <2>1, <2>3 DEF CreateRun, localVars, TimelyInv, TriesInv, QueuedIsClaimable
<1>2. ASSUME NEW r \in Runs, KillCheck(r) \/ KillFlush(r) PROVE TimelyInv'
  BY <1>2 DEF KillCheck, KillFlush, dbVars, localVars, TimelyInv, LeaseInv, TriesInv,
         QueuedIsClaimable
<1>3. ASSUME NEW r \in Runs, KillCommit(r) PROVE TimelyInv'
  BY <1>3 DEF KillCommit, localVars, TimelyInv, LeaseInv, TriesInv, QueuedIsClaimable
<1>4. ASSUME NEW w \in Workers, Beat(w) PROVE TimelyInv'
  BY <1>4 DEF Beat, Goto, localVars, TimelyInv, LeaseInv, TriesInv, QueuedIsClaimable
<1>5. CASE FleetSwitch
  BY <1>5 DEF FleetSwitch, dbVars, localVars, TimelyInv, LeaseInv, TriesInv, QueuedIsClaimable
<1> QED
  BY <1>1, <1>2, <1>3, <1>4, <1>5

LEMMA TimelyInit == ASSUME Init PROVE TimelyInv
  BY LifecycleAssumption DEF Init, TimelyInv, LeaseInv, TriesInv, QueuedIsClaimable

LEMMA TimelyStep == ASSUME SlowAt = {}, IInv, TimelyInv, [Next]_vars PROVE TimelyInv'
<1> USE DEF IInv
<1>1. ASSUME NEW w \in Workers, RunJob(w) \/ Crash(w) \/ Raise(w) \/ Sweep(w) PROVE TimelyInv'
  <2>1. CASE FetchFails(w)
    <3>1. tries[w] = attempts[cur[w]]
      BY <2>1 DEF FetchFails, LocalInv, Outside, TimelyInv, TriesInv
    <3> QED
      BY <2>1, <3>1, RequeueTimely DEF FetchFails
  <2>2. CASE RequeueCrashed(w)
    BY <2>2, RequeueTimely DEF RequeueCrashed
  <2>3. CASE FinishReady(w) \/ FinishFailed(w) \/ FinishStopped(w)
    BY <2>3, FinishTimely
  <2> QED
    BY <1>1, <2>1, <2>2, <2>3, ResumeRests, RestKeeps
<1>2. CASE UNCHANGED vars
  BY <1>2 DEF vars, dbVars, localVars, TimelyInv, LeaseInv, TriesInv, QueuedIsClaimable
<1> QED
  BY <1>1, <1>2, ClaimTimely, ExpireTimely, BatchTimely DEF Next

-----------------------------------------------------------------------------
(* Leases that are kept.                                                   *)

\* Each job has one owner at a time, who knows its attempts.
THEOREM TimelyInvariance == ASSUME SlowAt = {} PROVE Spec => []TimelyInv
<1>1. Init => TimelyInv
  BY TimelyInit
<1>2. IInv /\ TimelyInv /\ [Next]_vars => TimelyInv'
  BY TimelyStep
<1> QED
  BY <1>1, <1>2, Invariance, PTL DEF Spec

-----------------------------------------------------------------------------
(* Verdicts, while nobody kills.                                           *)

\* A loop gets no job but by a claim, and does not take up one that is over.
Proceeds ==
    \A x \in Workers : cur'[x] \in Jobs /\ ~Over(x)' => cur'[x] = cur[x] /\ ~Over(x)

\* A verdict is computed of a settled run, and kept until it is written.
Judges ==
    \A x \in Workers : pc'[x] = "verdict" =>
        /\ target'[x] = target[x] /\ target[x] \in Runs
        /\ \/ pc[x] = "verdict" /\ seen'[x] = seen[x]
           \/ JobsSettled(target[x]) /\ seen'[x] = Aggregate(target[x])

\* Outcome rows are of a job in hand, and verdicts are written as computed.
Records(w) ==
    /\ \A j \in Jobs : winner'[j] # winner[j] => cur[w] = j /\ ~Over(w)
    /\ \A r \in Runs : runStatus'[r] \in Verdicts =>
          \/ runStatus'[r] = runStatus[r]
          \/ pc[w] = "verdict" /\ target[w] = r /\ runStatus'[r] = seen[w]

LEMMA ResumeProceeds ==
    ASSUME TypeOK, LocalInv, NEW w \in Workers,
           RunJob(w) \/ Crash(w) \/ Raise(w) \/ Sweep(w)
    PROVE  Proceeds /\ Judges /\ Records(w)
<1> USE LifecycleAssumption DEF Proceeds, Judges, Records, Over, Verdicts, Run,
        TypeOK, LocalTypeOK, DbTypeOK, LocalInv, Outside, Guarded, Goto
<1>1. CASE Load(w)
  BY <1>1 DEF Load, Leave, dbVars, localVars
<1>2. CASE SetRunning(w)
  BY <1>2 DEF SetRunning
<1>3. CASE FetchOk(w)
  BY <1>3 DEF FetchOk, Leave, dbVars
<1>4. CASE FetchFails(w)
  BY <1>4 DEF FetchFails, Requeue, Leave, localVars
<1>5. CASE SetWaiting(w)
  BY <1>5 DEF SetWaiting, Leave
<1>6. CASE EnterStage(w)
  BY <1>6 DEF EnterStage, dbVars
<1>7. CASE DecideOutcome(w)
  BY <1>7 DEF DecideOutcome, dbVars
<1>8. CASE InsertOutcome(w)
  BY <1>8 DEF InsertOutcome
<1>9. CASE Guard(w)
  BY <1>9 DEF Guard, Leave, StopRoute, dbVars, localVars
<1>10. CASE Reserve(w)
  BY <1>10 DEF Reserve, dbVars, localVars
<1>11. CASE ReserveRefused(w)
  BY <1>11 DEF ReserveRefused, StopRoute, dbVars, localVars
<1>12. CASE ReplayCalls(w)
  BY <1>12 DEF ReplayCalls, dbVars, localVars
<1>13. CASE CallReturns(w)
  BY <1>13 DEF CallReturns, dbVars, localVars
<1>14. CASE CallFails(w)
  BY <1>14 DEF CallFails, StopRoute, dbVars, localVars
<1>15. CASE CommitCache(w)
  BY <1>15 DEF CommitCache, localVars
<1>16. CASE CommitRound(w)
  BY <1>16 DEF CommitRound
<1>17. CASE AbstainRound(w)
  BY <1>17 DEF AbstainRound, localVars
<1>18. CASE CommitResult(w)
  BY <1>18 DEF CommitResult, localVars
<1>19. CASE CompleteStage(w)
  BY <1>19 DEF CompleteStage, Leave
<1>20. CASE FinishReady(w)
  BY <1>20 DEF FinishReady, FinishJob
<1>21. CASE FinishFailed(w)
  BY <1>21 DEF FinishFailed, FinishJob
<1>22. CASE FinishStopped(w)
  BY <1>22 DEF FinishStopped, FinishJob, Leave
<1>23. CASE StopRun(w)
  BY <1>23 DEF StopRun, localVars
<1>24. CASE RequeueCrashed(w)
  BY <1>24 DEF RequeueCrashed, Requeue, Leave, localVars
<1>25. CASE FinalizeRead(w)
  <2>1. CASE AfterFinalize(w)
    BY <1>25, <2>1 DEF FinalizeRead, AfterFinalize, Leave, dbVars
  <2>2. CASE ~AfterFinalize(w)
    <3>1. /\ JobsSettled(target[w]) /\ seen' = [seen EXCEPT ![w] = Aggregate(target[w])]
          /\ pc' = [pc EXCEPT ![w] = "verdict"] /\ UNCHANGED <<cur, target, stage, dbVars>>
      BY <1>25, <2>2 DEF FinalizeRead, Finalizable
    <3>2. target[w] \in Runs /\ pc[w] = "finalize"
      BY <1>25 DEF FinalizeRead
    <3> QED
      BY <3>1, <3>2 DEF dbVars
  <2> QED
    BY <2>1, <2>2
<1>26. CASE FinalizeWrite(w)
  BY <1>26 DEF FinalizeWrite, AfterFinalize, Leave
<1>27. CASE Crash(w)
  BY <1>27 DEF Crash, Leave, dbVars
<1>28. CASE Raise(w)
  BY <1>28 DEF Raise, dbVars
<1>29. CASE Sweep(w)
  BY <1>29 DEF Sweep, dbVars
<1> QED
  BY <1>1, <1>2, <1>3, <1>4, <1>5, <1>6, <1>7, <1>8, <1>9, <1>10, <1>11, <1>12, <1>13, <1>14, <1>15, <1>16, <1>17, <1>18, <1>19, <1>20, <1>21, <1>22, <1>23, <1>24, <1>25, <1>26, <1>27, <1>28, <1>29 DEF RunJob

\* What has ended stays as it ended.
EndedStays ==
    \A j \in Jobs : jobStatus[j] \in TerminalJob =>
        jobStatus'[j] = jobStatus[j] /\ winner'[j] = winner[j]

LEMMA SettledStays ==
    ASSUME EndedStays, NEW r \in Runs, JobsSettled(r)
    PROVE  JobsSettled(r)' /\ Aggregate(r)' = Aggregate(r)
<1>1. \A j \in JobsOf(r) : jobStatus'[j] = jobStatus[j] /\ winner'[j] = winner[j]
  BY DEF EndedStays, JobsSettled, JobsOf
<1>2. JobsSettled(r)'
  BY <1>1 DEF JobsSettled, JobsOf
<1>3. {j \in JobsOf(r) : jobStatus'[j] = "failed"} = {j \in JobsOf(r) : jobStatus[j] = "failed"}
  BY <1>1
<1>4. {winner'[j] : j \in JobsOf(r)} = {winner[j] : j \in JobsOf(r)}
  BY <1>1
<1>5. JobsOf(r)' = JobsOf(r)
  BY DEF JobsOf
<1> QED
  BY <1>2, <1>3, <1>4, <1>5 DEF Aggregate

\* A step that lets ended jobs be, and keeps the jobs in hand running.
LEMMA StandsKept ==
    ASSUME TypeOK, LocalInv, UnkilledInv, EndedStays, Judges, UNCHANGED killPc,
           \A x \in Workers : cur'[x] \in Jobs /\ ~Over(x)' => jobStatus'[cur'[x]] = "running",
           \A r \in Runs : runStatus'[r] \in Verdicts =>
               \/ runStatus'[r] = runStatus[r]
               \/ JobsSettled(r) /\ runStatus'[r] = Aggregate(r)
    PROVE  UnkilledInv'
<1>1. ASSUME NEW x \in Workers, pc'[x] = "verdict"
      PROVE  JobsSettled(target[x])' /\ seen'[x] = Aggregate(target[x])' /\ target'[x] = target[x]
  <2>1. target'[x] = target[x] /\ JobsSettled(target[x]) /\ seen'[x] = Aggregate(target[x])
    BY <1>1 DEF Judges, UnkilledInv, RunningInv
  <2>2. target[x] \in Runs
    BY <1>1 DEF Judges
  <2> QED
    BY <2>1, <2>2, SettledStays
<1>2. RunningInv'
  BY <1>1 DEF UnkilledInv, RunningInv
<1>3. VerdictStands'
  BY SettledStays DEF UnkilledInv, VerdictStands
<1> QED
  BY <1>2, <1>3 DEF UnkilledInv

\* Whoever ends or requeues a job has it in hand, running, and nobody else has.
LEMMA ResumeStands ==
    ASSUME TypeOK, LocalInv, TimelyInv, UnkilledInv, NEW w \in Workers,
           RunJob(w) \/ Crash(w) \/ Raise(w) \/ Sweep(w)
    PROVE  UnkilledInv'
<1> DEFINE Ending == FetchFails(w) \/ FinishReady(w) \/ FinishFailed(w) \/ FinishStopped(w)
                     \/ RequeueCrashed(w)
<1>1. Proceeds /\ Judges /\ Records(w)
  BY ResumeProceeds
<1>2. UNCHANGED killPc
  BY RunJobKeepsEnv DEF Crash, Raise, Sweep, killVars
<1>3. CASE ~Ending
  <2>1. UNCHANGED jobStatus
    BY <1>3, ResumeRests DEF Rests
  <2>2. EndedStays
    BY <1>1, <2>1, EndIsNoQueue DEF EndedStays, Records, UnkilledInv, RunningInv
  <2>3. \A x \in Workers : cur'[x] \in Jobs /\ ~Over(x)' => jobStatus'[cur'[x]] = "running"
    BY <1>1, <2>1 DEF Proceeds, UnkilledInv, RunningInv
  <2> HIDE DEF Ending
  <2> QED
    BY <1>1, <1>2, <2>2, <2>3, StandsKept DEF Records, UnkilledInv, RunningInv
<1>4. CASE Ending
  <2> USE LifecycleAssumption DEF TypeOK, DbTypeOK, LocalTypeOK, Goto
  <2>1. cur[w] \in Jobs /\ ~Over(w)
    BY <1>4 DEF LocalInv, Outside, Over, FetchFails, FinishReady, FinishFailed, FinishStopped,
           RequeueCrashed
  <2>2. jobStatus[cur[w]] = "running"
    BY <2>1 DEF UnkilledInv, RunningInv
  <2>3. /\ \A j \in Jobs \ {cur[w]} : jobStatus'[j] = jobStatus[j]
        /\ UNCHANGED winner
        /\ cur'[w] \in Jobs => pc'[w] \in {"requeued", "finalize"}
    BY <1>4 DEF FetchFails, FinishReady, FinishFailed, FinishStopped, RequeueCrashed,
           Requeue, FinishJob, Leave, localVars
  <2>4. EndedStays
    BY <2>2, <2>3, EndIsNoQueue DEF EndedStays
  <2>5. \A x \in Workers \ {w} : cur[x] = cur[w] => Over(x)
    BY <2>1 DEF TimelyInv, LeaseInv, Over
  <2>6. \A x \in Workers : cur'[x] \in Jobs /\ ~Over(x)' => jobStatus'[cur'[x]] = "running"
    <3> SUFFICES ASSUME NEW x \in Workers, cur'[x] \in Jobs, ~Over(x)'
                 PROVE  jobStatus'[cur'[x]] = "running"
      OBVIOUS
    <3>1. x # w
      BY <2>3 DEF Over
    <3>2. cur'[x] = cur[x] /\ ~Over(x)
      BY <1>1 DEF Proceeds
    <3> QED
      BY <2>3, <2>5, <3>1, <3>2 DEF UnkilledInv, RunningInv
  <2> HIDE DEF Ending
  <2> QED
    BY <1>1, <1>2, <2>4, <2>6, StandsKept DEF Records, UnkilledInv, RunningInv
<1> QED
  BY <1>3, <1>4

\* A step that touches neither jobs nor runs nor loops.
LEMMA StillStands ==
    ASSUME TypeOK, LocalInv, UnkilledInv,
           UNCHANGED <<runStatus, jobStatus, winner, pc, cur, target, stage, seen, killPc>>
    PROVE  UnkilledInv'
<1>1. EndedStays
  BY DEF EndedStays
<1>2. Judges
  BY DEF Judges, LocalInv, UnkilledInv, RunningInv
<1>3. \A x \in Workers : cur'[x] \in Jobs /\ ~Over(x)' => jobStatus'[cur'[x]] = "running"
  BY DEF Over, UnkilledInv, RunningInv
<1> QED
  BY <1>1, <1>2, <1>3, StandsKept

\* Claims, lapsed leases, new runs, reaped jobs and the fleet switch.
LEMMA QueueStands ==
    ASSUME Killable = {}, TypeOK, LocalInv, CreatedInv, TimelyInv, UnkilledInv,
           \/ \E r \in Runs : CreateRun(r) \/ KillCheck(r) \/ KillFlush(r) \/ KillCommit(r)
           \/ \E w \in Workers, j \in Jobs : Claim(w, j)
           \/ \E j \in Jobs : LeaseExpires(j)
           \/ \E w \in Workers : Beat(w)
           \/ FleetSwitch
    PROVE  UnkilledInv'
<1> USE LifecycleAssumption DEF TypeOK, DbTypeOK, LocalTypeOK, Goto
<1>1. ASSUME NEW r \in Runs, KillCheck(r) \/ KillFlush(r) \/ KillCommit(r) PROVE FALSE
  BY <1>1 DEF KillCheck, KillFlush, KillCommit, UnkilledInv, RunningInv
<1>2. ASSUME NEW r \in Runs, CreateRun(r) PROVE UnkilledInv'
  <2>1. \A j \in Jobs : RunOf[j] = r => jobStatus[j] = "absent"
    BY <1>2 DEF CreateRun, CreatedInv
  <2>2. EndedStays /\ UNCHANGED killPc
    BY <1>2, <2>1, EndIsNoQueue DEF CreateRun, EndedStays, killVars
  <2>3. Judges
    BY <1>2 DEF CreateRun, Judges, localVars, LocalInv, UnkilledInv, RunningInv
  <2>4. \A x \in Workers : cur'[x] \in Jobs /\ ~Over(x)' => jobStatus'[cur'[x]] = "running"
    BY <1>2, <2>1 DEF CreateRun, Over, localVars, UnkilledInv, RunningInv
  <2>5. \A s \in Runs : runStatus'[s] \in Verdicts => runStatus'[s] = runStatus[s]
    BY <1>2 DEF CreateRun, Verdicts
  <2> QED
    BY <2>2, <2>3, <2>4, <2>5, StandsKept
<1>3. ASSUME NEW w \in Workers, NEW j \in Jobs, Claim(w, j) PROVE UnkilledInv'
  <2>1. EndedStays /\ UNCHANGED <<killPc, runStatus>>
    BY <1>3, EndIsNoQueue DEF Claim, Claimable, EndedStays, killVars
  <2>2. Judges
    BY <1>3 DEF Claim, Judges, LocalInv, UnkilledInv, RunningInv
  <2>3. \A x \in Workers : cur'[x] \in Jobs /\ ~Over(x)' => jobStatus'[cur'[x]] = "running"
    BY <1>3 DEF Claim, Over, UnkilledInv, RunningInv
  <2> QED
    BY <2>1, <2>2, <2>3, StandsKept
<1>4. ASSUME NEW w \in Workers, Beat(w) PROVE UnkilledInv'
  <2>1. EndedStays /\ UNCHANGED <<killPc, runStatus>>
    BY <1>4, EndIsNoQueue DEF Beat, StaleJobs, EndedStays, killVars
  <2>2. Judges
    BY <1>4 DEF Beat, Judges, localVars, LocalInv, UnkilledInv, RunningInv
  <2>3. \A x \in Workers : cur'[x] \in Jobs /\ ~Over(x)' => jobStatus'[cur'[x]] = "running"
    <3> SUFFICES ASSUME NEW x \in Workers, cur'[x] \in Jobs, ~Over(x)'
                 PROVE  jobStatus'[cur'[x]] = "running"
      OBVIOUS
    <3>1. cur'[x] = cur[x] /\ stage'[x] = stage[x] /\ (pc'[x] = pc[x] \/ pc[x] = "idle")
      BY <1>4 DEF Beat, localVars
    <3>2. ~Over(x) /\ pc[x] # "requeued"
      BY <3>1 DEF Over
    <3>3. jobStatus[cur[x]] = "running" /\ lease[cur[x]] = "held"
      BY <3>1, <3>2 DEF UnkilledInv, RunningInv, TimelyInv, LeaseInv
    <3>4. cur[x] \notin StaleJobs
      BY <3>3 DEF StaleJobs
    <3> QED
      BY <1>4, <3>1, <3>3, <3>4 DEF Beat
  <2> QED
    BY <2>1, <2>2, <2>3, StandsKept
<1>5. ASSUME NEW j \in Jobs, LeaseExpires(j) PROVE UnkilledInv'
  BY <1>5, StillStands DEF LeaseExpires, localVars, killVars
<1>6. CASE FleetSwitch
  BY <1>6, StillStands DEF FleetSwitch, dbVars, localVars, killVars
<1> QED
  BY <1>1, <1>2, <1>3, <1>4, <1>5, <1>6

LEMMA UnkilledInit == ASSUME Init PROVE UnkilledInv
  BY LifecycleAssumption DEF Init, UnkilledInv, RunningInv, VerdictStands, Verdicts

LEMMA UnkilledStep ==
    ASSUME Killable = {}, IInv, TimelyInv, UnkilledInv, [Next]_vars
    PROVE  UnkilledInv'
<1> USE DEF IInv
<1>1. CASE UNCHANGED vars
  BY <1>1, StillStands DEF vars, dbVars, localVars, killVars
<1> QED
  BY <1>1, ResumeStands, QueueStands DEF Next

\* Retries, crashes, siblings that end at once and finishers that race never make
\* a verdict false: while no lease is outlived and nobody kills, the jobs of a run
\* with a verdict stay ended, and it stays what finalize_run computes of them.
THEOREM VerdictsStand ==
    ASSUME SlowAt = {}, Killable = {}
    PROVE  Spec => []VerdictStands
<1>1. Init => UnkilledInv
  BY UnkilledInit
<1>2. IInv /\ TimelyInv /\ UnkilledInv /\ [Next]_vars => UnkilledInv'
  BY UnkilledStep
<1>3. UnkilledInv => VerdictStands
  BY DEF UnkilledInv
<1> QED
  BY <1>1, <1>2, <1>3, Invariance, TimelyInvariance, PTL DEF Spec
=============================================================================
