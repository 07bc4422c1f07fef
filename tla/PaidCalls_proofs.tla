-------------------------- MODULE PaidCalls_proofs --------------------------
(***************************************************************************)
(* Proofs about PaidCalls: types; that two attempts at a job never both    *)
(* pay for one recorded answer; while no attempt outlasts its lease, that  *)
(* the run ledger covers every call that is not resolved and, within a     *)
(* day, that the fleet's ledger moves with those of the runs; and, wherever *)
(* attempts die or outlast their lease, that what the provider charged a   *)
(* run is spent on its ledger or still on hold.                            *)
(***************************************************************************)
EXTENDS PaidCalls, DataInduction

-----------------------------------------------------------------------------
(* The inductive invariant.                                                *)

HasKey == InHand \cup {"reserve", "settle"}

\* What an attempt works on belongs to the job it claimed, and its stage exists.
LocalInv ==
    \A w \in Workers :
        /\ pc[w] # "idle" => cur[w] \in Jobs
        /\ pc[w] = "idle" => todo[w] = {}
        /\ pc[w] = "fetch" => stage[w] <= LastStage
        /\ pc[w] \notin {"idle", "fetch"} => stage[w] >= 1
        /\ pc[w] \notin {"idle", "fetch", "enter"} => stage[w] <= LastStage
        /\ \A k \in todo[w] : JobOf[k] = cur[w]
        /\ pc[w] \in HasKey => key[w] \in Keys /\ JobOf[key[w]] = cur[w]

\* The lock of a guard lets one attempt at a time pay for a job.
Exclusive ==
    \A v, w \in Workers : v # w /\ pc[v] \in Guarded /\ pc[w] \in Guarded => cur[v] # cur[w]

\* While a call is out, nobody records an answer for it.
Unrecorded ==
    \A w \in Workers :
        pc[w] \in {"slot", "call", "refresh"} => row[key[w]] \in {"pending", "abandoned"}

IInv == TypeOK /\ LocalInv /\ Exclusive /\ Unrecorded

\* Labels are told apart by the provers as strings; these are the sets they form.
LEMMA Labels ==
    /\ "idle" \in Pc /\ "fetch" \in Pc /\ "enter" \in Pc /\ "guard" \in Pc /\ "complete" \in Pc
    /\ Guarded \subseteq Pc /\ Recovering \subseteq Pc
    /\ HasKey \subseteq Guarded
    /\ Guarded \cap ({"idle", "fetch", "enter", "guard", "complete"} \cup Recovering) = {}
BY DEF Pc, Guarded, Recovering, HasKey, InHand

\* GREATEST(n - m, 0) is a number and never grows what it is taken from.
LEMMA NotBelowZeroType ==
    ASSUME NEW n \in Nat, NEW m \in Nat
    PROVE  NotBelowZero(n - m) \in Nat /\ NotBelowZero(n - m) <= n
BY DEF NotBelowZero

\* The worst case of n calls is a number.
LEMMA ProductType == ASSUME NEW m \in Nat, NEW n \in Nat PROVE m * n \in Nat
OBVIOUS

-----------------------------------------------------------------------------
(* Types.                                                                  *)

LocalTypeOK ==
    /\ pc \in [Workers -> Pc]
    /\ cur \in [Workers -> Jobs \cup {NoJob}]
    /\ stage \in [Workers -> 0..LastStage + 1]
    /\ todo \in [Workers -> SUBSET Keys]
    /\ key \in [Workers -> Keys \cup {NoKey}]
    /\ stale \in [Workers -> SUBSET Keys]
    /\ cost \in [Workers -> Costs \cup {0}]

JobTypeOK ==
    /\ open \in [Runs -> BOOLEAN]
    /\ jobStatus \in [Jobs -> JobStatus]
    /\ owner \in [Jobs -> Workers \cup {NoWorker}]
    /\ lease \in [Jobs -> {"none", "held", "expired"}]
    /\ attempts \in [Jobs -> 0..MaxAttempts]
    /\ progress \in [Jobs -> 0..LastStage]

FactTypeOK ==
    /\ row \in [Keys -> CallStatus]
    /\ actual \in [Keys -> Costs \cup {0}]
    /\ reserved \in [Runs -> 0..CostLimit]
    /\ spent \in [Runs -> Nat] /\ paid \in [Runs -> Nat]
    /\ today \in 0..MaxDays /\ day \in 0..today
    /\ dayReserved \in 0..DayLimit
    /\ slots \subseteq Workers

\* The type invariant in three parts: jobs, recorded facts, local variables.
LEMMA TypeParts == TypeOK <=> JobTypeOK /\ FactTypeOK /\ LocalTypeOK
BY DEF TypeOK, JobTypeOK, FactTypeOK, LocalTypeOK

\* The end of an attempt, of a job and of a call, whichever action it is part of.
LEMMA LeaveType ==
    ASSUME LocalTypeOK, NEW w \in Workers, Leave(w)
    PROVE  LocalTypeOK'
BY CallsAssumption, Labels DEF LocalTypeOK, Leave, Goto

\* The end of a job keeps the types of its status and of what it clears.
LEMMA FinishType ==
    ASSUME LocalTypeOK, jobStatus \in [Jobs -> JobStatus], NEW w \in Workers,
           NEW status \in JobStatus, Finish(w, status)
    PROVE  LocalTypeOK' /\ jobStatus' \in [Jobs -> JobStatus]
BY LeaveType DEF Finish

\* An answered call leaves the local variables well typed.
LEMMA AnsweredType ==
    ASSUME LocalTypeOK, NEW w \in Workers, Answered(w)
    PROVE  LocalTypeOK'
BY DEF LocalTypeOK, Answered, Goto, Pc, Guarded

\* The context arrived: the stage after the recorded ones.
LEMMA TypeFetchOk ==
    ASSUME TypeOK, LocalInv, NEW w \in Workers, FetchOk(w)
    PROVE  TypeOK'
BY CallsAssumption DEF TypeOK, LocalInv, FetchOk, Goto, jobVars, rowVars, runLedger,
       dayLedger, outside, Pc, Guarded, Recovering

\* The rows read as pending are rows.
LEMMA TypeSelectStale ==
    ASSUME TypeOK, LocalInv, NEW w \in Workers, SelectStale(w)
    PROVE  TypeOK'
BY CallsAssumption DEF TypeOK, SelectStale, Goto, jobVars, rowVars, runLedger,
       dayLedger, outside, Pc, Guarded, Recovering, CallsOf

\* Abandoned is a status of a row.
LEMMA TypeAbandonStale ==
    ASSUME TypeOK, LocalInv, NEW w \in Workers, AbandonStale(w)
    PROVE  TypeOK'
BY CallsAssumption DEF TypeOK, AbandonStale, Goto, jobVars, runLedger, dayLedger,
       outside, localVars, Pc, Guarded, Recovering, CallStatus

\* The day ledger at most starts over.
LEMMA TypePreflight ==
    ASSUME TypeOK, LocalInv, NEW w \in Workers, Preflight(w)
    PROVE  TypeOK'
BY CallsAssumption DEF TypeOK, Preflight, Goto, Fits, DayBase, jobVars, rowVars,
       runLedger, outside, localVars, Pc, Guarded, Recovering

\* The commit that frees the row renews the lease.
LEMMA TypeCommitStage ==
    ASSUME TypeOK, LocalInv, NEW w \in Workers, CommitStage(w)
    PROVE  TypeOK'
BY CallsAssumption DEF TypeOK, LocalInv, CommitStage, Goto, rowVars, runLedger,
       dayLedger, outside, localVars, Pc, Guarded, Recovering

\* The recorded stage is one of the stages.
LEMMA TypeCompleteStage ==
    ASSUME TypeOK, LocalInv, NEW w \in Workers, CompleteStage(w)
    PROVE  TypeOK'
BY CallsAssumption DEF TypeOK, LocalInv, CompleteStage, Goto, rowVars, runLedger,
       dayLedger, outside, Pc, Guarded, Recovering

\* What fits is held, and both holds stay within their limits.
LEMMA TypeReserve ==
    ASSUME TypeOK, LocalInv, NEW w \in Workers, Reserve(w)
    PROVE  TypeOK'
BY CallsAssumption DEF TypeOK, Reserve, Goto, Hold, Fits, DayBase, jobVars, localVars,
       LocalInv, HasKey, InHand, Pc, Guarded, Recovering, CallStatus, Run

\* A slot is taken by a worker.
LEMMA TypeTakeSlot ==
    ASSUME TypeOK, LocalInv, NEW w \in Workers, TakeSlot(w)
    PROVE  TypeOK'
BY CallsAssumption DEF TypeOK, TakeSlot, Goto, jobVars, rowVars, runLedger, dayLedger,
       outside, localVars, Pc, Guarded, Recovering

\* The charge is added to what was paid and what was used.
LEMMA TypeAnswer ==
    ASSUME TypeOK, LocalInv, NEW w \in Workers, NEW c \in Costs, Answer(w, c)
    PROVE  TypeOK'
BY CallsAssumption DEF TypeOK, Answer, Goto, FreeSlot, jobVars, rowVars, runLedger,
       dayLedger, Pc, Guarded, Recovering, Run, LocalInv

\* The charge in hand is recorded.
LEMMA TypeCommitResult ==
    ASSUME TypeOK, LocalInv, NEW w \in Workers, CommitResult(w)
    PROVE  TypeOK'
BY CallsAssumption DEF TypeOK, CommitResult, Goto, jobVars, runLedger, dayLedger,
       outside, localVars, Pc, Guarded, Recovering, CallStatus

\* A dead attempt leaves its local variables empty.
LEMMA TypeCrash ==
    ASSUME TypeOK, LocalInv, NEW w \in Workers, Crash(w)
    PROVE  TypeOK'
BY CallsAssumption, Labels DEF TypeOK, Crash, Goto, Leave, jobVars, rowVars, runLedger,
       dayLedger, outside

\* A claim counts one attempt, and there was one left.
LEMMA TypeClaim ==
    ASSUME TypeOK, LocalInv, NEW w \in Workers, NEW j \in Jobs, Claim(w, j)
    PROVE  TypeOK'
BY CallsAssumption, Labels DEF TypeOK, Claim, Goto, rowVars, runLedger, dayLedger,
       outside, Pc, Guarded, Recovering, JobStatus, TerminalJob

\* A lease lapses.
LEMMA TypeLeaseExpires ==
    ASSUME TypeOK, LocalInv, NEW j \in Jobs, LeaseExpires(j)
    PROVE  TypeOK'
BY CallsAssumption, Labels DEF TypeOK, LeaseExpires, rowVars, runLedger, dayLedger,
       outside, localVars

\* A kill stops the jobs that are not over.
LEMMA TypeKill ==
    ASSUME TypeOK, LocalInv, NEW r \in Runs, Kill(r)
    PROVE  TypeOK'
BY CallsAssumption, Labels DEF TypeOK, Kill, rowVars, runLedger, dayLedger, outside,
       localVars, JobStatus, TerminalJob

\* The date moves, and the ledger's day stays behind.
LEMMA TypeMidnight ==
    ASSUME TypeOK, LocalInv, Midnight
    PROVE  TypeOK'
BY CallsAssumption DEF TypeOK, Midnight, jobVars, rowVars, runLedger, dayLedger,
       localVars

\* The stage begins, or the job is over.
LEMMA TypeEnterStage ==
    ASSUME TypeOK, LocalInv, NEW w \in Workers, EnterStage(w)
    PROVE  TypeOK'
<1>1. /\ UNCHANGED <<open, owner, lease, attempts, progress, slots>>
      /\ UNCHANGED <<rowVars, runLedger, dayLedger, outside>>
  BY DEF EnterStage
<1>2. LocalTypeOK' /\ jobStatus' \in [Jobs -> JobStatus]
  <2>1. CASE Finish(w, "stopped")
    BY <2>1, FinishType, TypeParts DEF JobTypeOK, JobStatus, TerminalJob
  <2>2. CASE Finish(w, "done")
    BY <2>2, FinishType, TypeParts DEF JobTypeOK, JobStatus, TerminalJob
  <2>3. CASE /\ todo' = [todo EXCEPT ![w] = {k \in CallsOf(cur[w]) : StageOf[k] = stage[w]}]
             /\ Goto(w, "resolve")
             /\ UNCHANGED <<jobStatus, cur, stage, key, stale, cost>>
    <3>1. {k \in CallsOf(cur[w]) : StageOf[k] = stage[w]} \subseteq Keys
      BY DEF CallsOf
    <3> QED BY <2>3, <3>1 DEF TypeOK, LocalTypeOK, Goto, Pc, Recovering
  <2> QED BY <2>1, <2>2, <2>3 DEF EnterStage
<1> QED
  BY <1>1, <1>2, TypeParts
  DEF TypeOK, LocalTypeOK, JobTypeOK, FactTypeOK, rowVars, runLedger, dayLedger, outside

\* The hold is released, never below zero, and becomes spend.
LEMMA TypeConvertStale ==
    ASSUME TypeOK, LocalInv, NEW w \in Workers, ConvertStale(w)
    PROVE  TypeOK'
<1> DEFINE n == Cardinality(stale[w])
<1>1. n \in Nat
  BY CallsAssumption, FS_Subset, FS_CardinalityType DEF TypeOK
<1>2. n * Worst \in Nat
  BY <1>1, ProductType, CallsAssumption
<1> HIDE DEF n
<1>3. Run(w) \in Runs
  BY CallsAssumption DEF ConvertStale, LocalInv, Run
<1>4. /\ reserved' = [reserved EXCEPT ![Run(w)] = NotBelowZero(@ - n * Worst)]
      /\ spent' = [spent EXCEPT ![Run(w)] = @ + n * Worst]
  BY DEF ConvertStale, Convert, n
<1>5. reserved[Run(w)] \in Nat /\ reserved[Run(w)] <= CostLimit /\ spent[Run(w)] \in Nat
  BY <1>3, CallsAssumption DEF TypeOK
<1>6. NotBelowZero(reserved[Run(w)] - n * Worst) \in 0..CostLimit
  BY <1>2, <1>5, NotBelowZeroType, CallsAssumption
<1>7. spent[Run(w)] + n * Worst \in Nat
  BY <1>2, <1>5
<1>8. /\ reserved' \in [Runs -> 0..CostLimit]
      /\ spent' \in [Runs -> Nat]
  BY <1>4, <1>6, <1>7 DEF TypeOK
<1>9. LocalTypeOK'
  BY TypeParts DEF ConvertStale, LocalTypeOK, Goto, Pc, Guarded
<1> QED
  BY <1>8, <1>9, TypeParts
  DEF ConvertStale, TypeOK, LocalTypeOK, JobTypeOK, FactTypeOK, jobVars, rowVars, dayLedger, outside

\* The guard passes, or the attempt or the job ends.
LEMMA TypeGuard ==
    ASSUME TypeOK, LocalInv, NEW w \in Workers, Guard(w)
    PROVE  TypeOK'
<1>1. /\ UNCHANGED <<open, owner, lease, attempts, progress, slots>>
      /\ UNCHANGED <<rowVars, runLedger, dayLedger, outside>>
  BY DEF Guard
<1>2. LocalTypeOK' /\ jobStatus' \in [Jobs -> JobStatus]
  <2>1. CASE Leave(w) /\ UNCHANGED jobStatus
    BY <2>1, LeaveType, TypeParts DEF JobTypeOK
  <2>2. CASE Finish(w, "stopped")
    BY <2>2, FinishType, TypeParts DEF JobTypeOK, JobStatus, TerminalJob
  <2>3. CASE /\ Goto(w, IF stage[w] = 1 THEN "preflight" ELSE "next")
             /\ UNCHANGED <<jobStatus, localVars>>
    BY <2>3 DEF TypeOK, LocalTypeOK, Goto, Pc, Guarded, localVars
  <2> QED BY <2>1, <2>2, <2>3 DEF Guard
<1> QED
  BY <1>1, <1>2, TypeParts
  DEF TypeOK, LocalTypeOK, JobTypeOK, FactTypeOK, rowVars, runLedger, dayLedger, outside

\* A recorded charge is one the provider may make.
LEMMA TypeLookup ==
    ASSUME TypeOK, LocalInv, NEW w \in Workers, NEW k \in Keys, Lookup(w, k)
    PROVE  TypeOK'
<1>1. /\ UNCHANGED <<jobVars, rowVars, runLedger, dayLedger, outside, slots>>
      /\ UNCHANGED <<cur, stage, stale>>
  BY DEF Lookup
<1>2. /\ todo' \in [Workers -> SUBSET Keys]
      /\ pc' \in [Workers -> Pc]
      /\ key' \in [Workers -> Keys \cup {NoKey}]
      /\ cost' \in [Workers -> Costs \cup {0}]
  <2>1. CASE row[k] = "reconciled"
    BY <2>1 DEF Lookup, TypeOK
  <2>2. CASE row[k] = "committed"
    <3>1. /\ key' = [key EXCEPT ![w] = k] /\ cost' = [cost EXCEPT ![w] = actual[k]]
          /\ Goto(w, "settle") /\ UNCHANGED todo
      BY <2>2 DEF Lookup
    <3> QED BY <3>1 DEF TypeOK, Goto, Pc, Guarded
  <2>3. CASE row[k] \in {"none", "abandoned"}
    BY <2>3 DEF Lookup, TypeOK, Goto, Pc, Guarded
  <2>4. CASE row[k] = "pending"
    BY <2>4 DEF Lookup, TypeOK, Goto, Pc, Guarded
  <2> QED BY <2>1, <2>2, <2>3, <2>4 DEF Lookup
<1> QED
  BY <1>1, <1>2 DEF TypeOK, jobVars, rowVars, runLedger, dayLedger, outside

\* A refusal stops the job and closes the run.
LEMMA TypeRefused ==
    ASSUME TypeOK, LocalInv, NEW w \in Workers, Refused(w)
    PROVE  TypeOK'
<1>1. Stop(w) /\ Run(w) \in Runs
  BY CallsAssumption DEF Refused, LocalInv, Run
<1>2. LocalTypeOK' /\ jobStatus' \in [Jobs -> JobStatus]
  BY <1>1, FinishType, TypeParts DEF Stop, JobTypeOK, JobStatus, TerminalJob
<1>3. open' \in [Runs -> BOOLEAN]
  BY <1>1 DEF Stop, TypeOK
<1> QED
  BY <1>1, <1>2, <1>3, TypeParts
  DEF Stop, TypeOK, LocalTypeOK, JobTypeOK, FactTypeOK, rowVars, runLedger, dayLedger, outside

\* A failed call is survived, or the job fails or is queued again.
LEMMA TypeCallFails ==
    ASSUME TypeOK, LocalInv, NEW w \in Workers, NEW c \in Costs \cup {0}, CallFails(w, c)
    PROVE  TypeOK'
<1>1. Run(w) \in Runs /\ cur[w] \in Jobs
  BY CallsAssumption DEF CallFails, LocalInv, Run
<1>2. paid' \in [Runs -> Nat] /\ slots' \subseteq Workers
  BY <1>1, CallsAssumption DEF CallFails, FreeSlot, TypeOK
<1>3. /\ LocalTypeOK' /\ jobStatus' \in [Jobs -> JobStatus]
      /\ lease' \in [Jobs -> {"none", "held", "expired"}]
  <2>1. CASE Answered(w) /\ UNCHANGED <<jobStatus, lease>>
    BY <2>1, AnsweredType, TypeParts DEF JobTypeOK
  <2>2. CASE Finish(w, "failed") /\ UNCHANGED lease
    BY <2>2, FinishType, TypeParts DEF JobTypeOK, JobStatus, TerminalJob
  <2>3. CASE Finish(w, "queued") /\ lease' = [lease EXCEPT ![cur[w]] = "none"]
    BY <2>3, FinishType, TypeParts DEF JobTypeOK, JobStatus
  <2> QED BY <2>1, <2>2, <2>3 DEF CallFails
<1> QED
  BY <1>2, <1>3, TypeParts
  DEF CallFails, TypeOK, LocalTypeOK, JobTypeOK, FactTypeOK, rowVars, runLedger, dayLedger

\* The answer is recorded next, or was overtaken.
LEMMA TypeRefresh ==
    ASSUME TypeOK, LocalInv, NEW w \in Workers, Refresh(w)
    PROVE  TypeOK'
<1>1. LocalTypeOK'
  <2>1. CASE Goto(w, "commit") /\ UNCHANGED localVars
    BY <2>1 DEF TypeOK, LocalTypeOK, Goto, Pc, Guarded, localVars
  <2>2. CASE Answered(w)
    BY <2>2, AnsweredType, TypeParts
  <2> QED BY <2>1, <2>2 DEF Refresh
<1> QED
  BY <1>1, TypeParts
  DEF Refresh, TypeOK, LocalTypeOK, JobTypeOK, FactTypeOK, jobVars, rowVars, runLedger, dayLedger, outside

\* Reconciliation only lowers the hold, and keeps the charge.
LEMMA TypeSettle ==
    ASSUME TypeOK, LocalInv, NEW w \in Workers, Settle(w)
    PROVE  TypeOK'
<1>1. Run(w) \in Runs /\ key[w] \in Keys
  BY CallsAssumption DEF Settle, LocalInv, Run, HasKey
<1>2. cost[w] \in Nat /\ cost[w] <= Worst /\ Worst - cost[w] \in Nat
  <2>1. cost[w] \in Costs \cup {0}
    BY DEF TypeOK
  <2>2. \A c \in Costs : c \in Nat /\ c <= Worst
    BY CallsAssumption
  <2>3. Worst \in Nat
    BY CallsAssumption
  <2> QED BY <2>1, <2>2, <2>3
<1>3. reserved' \in [Runs -> 0..CostLimit]
  <2>1. reserved[Run(w)] \in Nat /\ reserved[Run(w)] <= CostLimit
    BY <1>1, CallsAssumption DEF TypeOK
  <2>2. NotBelowZero(reserved[Run(w)] - Worst) \in 0..CostLimit
    BY <2>1, NotBelowZeroType, CallsAssumption
  <2> QED BY <2>2 DEF Settle, Reconcile, TypeOK
<1>4. spent' \in [Runs -> Nat]
  BY <1>1, <1>2 DEF Settle, Reconcile, TypeOK
<1>5. dayReserved' \in 0..DayLimit
  <2>1. dayReserved \in Nat /\ dayReserved <= DayLimit
    BY CallsAssumption DEF TypeOK
  <2>2. NotBelowZero(dayReserved - (Worst - cost[w])) \in 0..DayLimit
    <3> DEFINE delta == Worst - cost[w]
    <3>1. delta \in Nat
      BY <1>2
    <3> HIDE DEF delta
    <3>2. NotBelowZero(dayReserved - delta) \in 0..DayLimit
      BY <2>1, <3>1, NotBelowZeroType, CallsAssumption
    <3> QED BY <3>2 DEF delta
  <2>3. \/ dayReserved' = NotBelowZero(dayReserved - (Worst - cost[w]))
        \/ dayReserved' = dayReserved
    BY DEF Settle, Reconcile
  <2> QED BY <2>1, <2>2, <2>3, CallsAssumption
<1>6. row' \in [Keys -> CallStatus]
  BY <1>1 DEF Settle, TypeOK, CallStatus
<1>7. LocalTypeOK'
  BY AnsweredType, TypeParts DEF Settle
<1> QED
  BY <1>3, <1>4, <1>5, <1>6, <1>7, TypeParts
  DEF Settle, TypeOK, LocalTypeOK, JobTypeOK, FactTypeOK, jobVars, outside

-----------------------------------------------------------------------------
(* The three parts of the invariant, step by step.                         *)

\* An attempt works on calls of the job it claimed: the calls of a stage are those
\* of the job in hand, and a label that needs a call is only reached with one.
LEMMA LocalStep ==
    ASSUME IInv, [Next]_vars
    PROVE  LocalInv'
<1>1. ASSUME NEW w \in Workers, FetchOk(w) PROVE LocalInv'
  BY <1>1 DEF IInv, TypeOK, LocalInv, FetchOk, Goto, InHand, HasKey
<1>2. ASSUME NEW w \in Workers, EnterStage(w) PROVE LocalInv'
  BY <1>2 DEF IInv, TypeOK, LocalInv, EnterStage, Goto, Leave, Finish, InHand,
         HasKey, CallsOf
<1>3. ASSUME NEW w \in Workers, SelectStale(w) PROVE LocalInv'
  BY <1>3 DEF IInv, LocalInv, SelectStale, Goto, InHand, HasKey
<1>4. ASSUME NEW w \in Workers, AbandonStale(w) PROVE LocalInv'
  BY <1>4 DEF IInv, LocalInv, AbandonStale, Goto, localVars, InHand, HasKey
<1>5. ASSUME NEW w \in Workers, ConvertStale(w) PROVE LocalInv'
  BY <1>5 DEF IInv, LocalInv, ConvertStale, Goto, InHand, HasKey
<1>6. ASSUME NEW w \in Workers, Guard(w) PROVE LocalInv'
  BY <1>6 DEF IInv, TypeOK, LocalInv, Guard, Goto, Leave, Finish, localVars, InHand,
         HasKey
<1>7. ASSUME NEW w \in Workers, Preflight(w) PROVE LocalInv'
  BY <1>7 DEF IInv, LocalInv, Preflight, Goto, localVars, InHand, HasKey
<1>8. ASSUME NEW w \in Workers, CompleteStage(w) PROVE LocalInv'
  BY <1>8 DEF IInv, TypeOK, LocalInv, CompleteStage, Goto, InHand, HasKey
<1>9. ASSUME NEW w \in Workers, NEW k \in Keys, Lookup(w, k) PROVE LocalInv'
  BY <1>9 DEF IInv, TypeOK, LocalInv, Lookup, Goto
<1>10. ASSUME NEW w \in Workers, Reserve(w) PROVE LocalInv'
  BY <1>10 DEF IInv, LocalInv, Reserve, Goto, localVars, HasKey
<1>11. ASSUME NEW w \in Workers, Refused(w) PROVE LocalInv'
  BY <1>11 DEF IInv, TypeOK, LocalInv, Refused, Goto, Leave, Finish, Stop, InHand,
         HasKey
<1>12. ASSUME NEW w \in Workers, TakeSlot(w) PROVE LocalInv'
  BY <1>12 DEF IInv, LocalInv, TakeSlot, Goto, localVars, InHand, HasKey
<1>13. ASSUME NEW w \in Workers, NEW c \in Costs, Answer(w, c) PROVE LocalInv'
  BY <1>13 DEF IInv, LocalInv, Answer, Goto, InHand, HasKey
<1>14. ASSUME NEW w \in Workers, NEW c \in Costs \cup {0}, CallFails(w, c) PROVE LocalInv'
  <2>1. CASE Answered(w)
    BY <1>14, <2>1 DEF IInv, TypeOK, LocalInv, CallFails, Answered, Goto, HasKey,
           InHand
  <2>2. CASE Leave(w)
    BY <1>14, <2>2 DEF IInv, TypeOK, LocalInv, CallFails, Leave, Goto, HasKey,
           InHand
  <2> QED BY <1>14, <2>1, <2>2 DEF CallFails, Finish
<1>15. ASSUME NEW w \in Workers, Refresh(w) PROVE LocalInv'
  <2>1. CASE Answered(w)
    BY <1>15, <2>1 DEF IInv, TypeOK, LocalInv, Refresh, Answered, Goto, HasKey,
           InHand
  <2>2. CASE Goto(w, "commit") /\ UNCHANGED localVars
    BY <1>15, <2>2 DEF IInv, TypeOK, LocalInv, Refresh, localVars, Goto, HasKey,
           InHand
  <2> QED BY <1>15, <2>1, <2>2 DEF Refresh
<1>16. ASSUME NEW w \in Workers, CommitResult(w) PROVE LocalInv'
  BY <1>16 DEF IInv, LocalInv, CommitResult, Goto, localVars, InHand, HasKey
<1>17. ASSUME NEW w \in Workers, Settle(w) PROVE LocalInv'
  BY <1>17 DEF IInv, TypeOK, LocalInv, Settle, Goto, Answered, InHand, HasKey
<1>18. ASSUME NEW w \in Workers, Crash(w) PROVE LocalInv'
  BY <1>18 DEF IInv, TypeOK, LocalInv, Crash, Goto, Leave, InHand, HasKey
<1>19. ASSUME NEW w \in Workers, NEW j \in Jobs, Claim(w, j) PROVE LocalInv'
  <2>1. progress[j] \in 0..LastStage /\ todo[w] = {}
    BY <1>19 DEF IInv, TypeOK, LocalInv, Claim
  <2>2. ASSUME NEW v \in Workers, v # w
        PROVE  pc'[v] = pc[v] /\ cur'[v] = cur[v] /\ stage'[v] = stage[v]
    BY <1>19, <2>2 DEF IInv, TypeOK, Claim, Goto
  <2>3. pc'[w] = "fetch" /\ cur'[w] = j /\ stage'[w] = progress[j]
    BY <1>19 DEF IInv, TypeOK, Claim, Goto
  <2> QED
    BY <1>19, <2>1, <2>2, <2>3, CallsAssumption DEF IInv, LocalInv, Claim, HasKey, InHand
<1>20. ASSUME NEW j \in Jobs, LeaseExpires(j) PROVE LocalInv'
  BY <1>20 DEF IInv, LocalInv, LeaseExpires, localVars
<1>21. ASSUME NEW r \in Runs, Kill(r) PROVE LocalInv'
  BY <1>21 DEF IInv, LocalInv, Kill, localVars
<1>22. CASE Midnight
  BY <1>22 DEF IInv, LocalInv, Midnight, localVars
<1>23. CASE UNCHANGED vars
  BY <1>23 DEF IInv, LocalInv, vars, localVars
<1>24. ASSUME NEW w \in Workers, CommitStage(w) PROVE LocalInv'
  BY <1>24 DEF IInv, LocalInv, CommitStage, Goto, localVars, InHand, HasKey
<1> QED
  BY <1>1, <1>2, <1>3, <1>4, <1>5, <1>6, <1>7, <1>8, <1>9, <1>10, <1>11, <1>12,
         <1>13, <1>14, <1>15, <1>16, <1>17, <1>18, <1>19, <1>20, <1>21, <1>22, <1>23, <1>24
  DEF Next, Attempt, Pay

\* Only the guard takes the lock of a job, and it waits while another attempt has
\* it; from there to the end of the stage the lock stays.
LEMMA ExclusiveStep ==
    ASSUME IInv, [Next]_vars
    PROVE  Exclusive'
<1>1. ASSUME NEW w \in Workers, FetchOk(w) PROVE Exclusive'
  BY <1>1 DEF IInv, FetchOk, Goto, Exclusive, Guarded
<1>2. ASSUME NEW w \in Workers, EnterStage(w) PROVE Exclusive'
  BY <1>2 DEF IInv, TypeOK, LocalInv, EnterStage, Goto, Leave, Finish, Exclusive,
         Pc, Guarded, Recovering
<1>3. ASSUME NEW w \in Workers, SelectStale(w) PROVE Exclusive'
  BY <1>3 DEF IInv, SelectStale, Goto, Exclusive, Guarded
<1>4. ASSUME NEW w \in Workers, AbandonStale(w) PROVE Exclusive'
  BY <1>4 DEF IInv, AbandonStale, Goto, localVars, Exclusive, Guarded
<1>5. ASSUME NEW w \in Workers, ConvertStale(w) PROVE Exclusive'
  BY <1>5 DEF IInv, ConvertStale, Goto, Exclusive, Guarded
<1>6. ASSUME NEW w \in Workers, Guard(w) PROVE Exclusive'
  BY <1>6 DEF IInv, TypeOK, Guard, Goto, Leave, Finish, localVars, Exclusive, Pc,
         Guarded, Recovering, JobRowFree
<1>7. ASSUME NEW w \in Workers, Preflight(w) PROVE Exclusive'
  BY <1>7 DEF IInv, Preflight, Goto, localVars, Exclusive, Guarded
<1>8. ASSUME NEW w \in Workers, CompleteStage(w) PROVE Exclusive'
  BY <1>8 DEF IInv, CompleteStage, Goto, Exclusive, Guarded
<1>9. ASSUME NEW w \in Workers, NEW k \in Keys, Lookup(w, k) PROVE Exclusive'
  BY <1>9 DEF IInv, TypeOK, Lookup, Goto, Exclusive, Guarded, Recovering
<1>10. ASSUME NEW w \in Workers, Reserve(w) PROVE Exclusive'
  BY <1>10 DEF IInv, Reserve, Goto, localVars, Exclusive, Guarded
<1>11. ASSUME NEW w \in Workers, Refused(w) PROVE Exclusive'
  BY <1>11 DEF IInv, TypeOK, Refused, Goto, Leave, Finish, Stop, Exclusive, Guarded
<1>12. ASSUME NEW w \in Workers, TakeSlot(w) PROVE Exclusive'
  BY <1>12 DEF IInv, TakeSlot, Goto, localVars, Exclusive, Guarded
<1>13. ASSUME NEW w \in Workers, NEW c \in Costs, Answer(w, c) PROVE Exclusive'
  BY <1>13 DEF IInv, Answer, Goto, Exclusive, Guarded
<1>14. ASSUME NEW w \in Workers, NEW c \in Costs \cup {0}, CallFails(w, c) PROVE Exclusive'
  <2>1. CASE Answered(w)
    BY <1>14, <2>1 DEF IInv, TypeOK, Exclusive, CallFails, Answered, Goto, Guarded
  <2>2. CASE Leave(w)
    BY <1>14, <2>2 DEF IInv, TypeOK, Exclusive, CallFails, Leave, Goto, Guarded
  <2> QED BY <1>14, <2>1, <2>2 DEF CallFails, Finish
<1>15. ASSUME NEW w \in Workers, Refresh(w) PROVE Exclusive'
  BY <1>15 DEF IInv, TypeOK, Refresh, Goto, Answered, localVars, Exclusive, Guarded
<1>16. ASSUME NEW w \in Workers, CommitResult(w) PROVE Exclusive'
  BY <1>16 DEF IInv, CommitResult, Goto, localVars, Exclusive, Guarded
<1>17. ASSUME NEW w \in Workers, Settle(w) PROVE Exclusive'
  BY <1>17 DEF IInv, Settle, Goto, Answered, Exclusive, Guarded
<1>18. ASSUME NEW w \in Workers, Crash(w) PROVE Exclusive'
  BY <1>18 DEF IInv, TypeOK, Crash, Goto, Leave, Exclusive, Guarded
<1>19. ASSUME NEW w \in Workers, NEW j \in Jobs, Claim(w, j) PROVE Exclusive'
  BY <1>19 DEF IInv, Claim, Goto, Exclusive, Guarded
<1>20. ASSUME NEW j \in Jobs, LeaseExpires(j) PROVE Exclusive'
  BY <1>20 DEF IInv, LeaseExpires, localVars, Exclusive
<1>21. ASSUME NEW r \in Runs, Kill(r) PROVE Exclusive'
  BY <1>21 DEF IInv, Kill, localVars, Exclusive
<1>22. CASE Midnight
  BY <1>22 DEF IInv, Midnight, localVars, Exclusive
<1>23. CASE UNCHANGED vars
  BY <1>23 DEF IInv, Exclusive, vars, localVars
<1>24. ASSUME NEW w \in Workers, CommitStage(w) PROVE Exclusive'
  BY <1>24 DEF IInv, Exclusive, CommitStage, Goto, localVars, Guarded
<1> QED
  BY <1>1, <1>2, <1>3, <1>4, <1>5, <1>6, <1>7, <1>8, <1>9, <1>10, <1>11, <1>12,
         <1>13, <1>14, <1>15, <1>16, <1>17, <1>18, <1>19, <1>20, <1>21, <1>22, <1>23, <1>24
  DEF Next, Attempt, Pay

\* A row changes while its call is out only if the one who has the lock changes
\* it, or by abandonment, which records no answer.
LEMMA UnrecordedStep ==
    ASSUME IInv, [Next]_vars
    PROVE  Unrecorded'
<1>1. ASSUME NEW w \in Workers, FetchOk(w) PROVE Unrecorded'
  BY <1>1 DEF IInv, FetchOk, Goto, rowVars, Unrecorded
<1>2. ASSUME NEW w \in Workers, EnterStage(w) PROVE Unrecorded'
  BY <1>2 DEF IInv, TypeOK, EnterStage, Goto, Leave, Finish, rowVars, Unrecorded
<1>3. ASSUME NEW w \in Workers, SelectStale(w) PROVE Unrecorded'
  BY <1>3 DEF IInv, SelectStale, Goto, rowVars, Unrecorded
<1>4. ASSUME NEW w \in Workers, AbandonStale(w) PROVE Unrecorded'
  BY <1>4 DEF IInv, LocalInv, AbandonStale, Goto, localVars, Unrecorded, InHand,
         HasKey
<1>5. ASSUME NEW w \in Workers, ConvertStale(w) PROVE Unrecorded'
  BY <1>5 DEF IInv, ConvertStale, Goto, rowVars, Unrecorded
<1>6. ASSUME NEW w \in Workers, Guard(w) PROVE Unrecorded'
  BY <1>6 DEF IInv, TypeOK, Guard, Goto, Leave, Finish, rowVars, localVars,
         Unrecorded
<1>7. ASSUME NEW w \in Workers, Preflight(w) PROVE Unrecorded'
  BY <1>7 DEF IInv, Preflight, Goto, rowVars, localVars, Unrecorded
<1>8. ASSUME NEW w \in Workers, CompleteStage(w) PROVE Unrecorded'
  BY <1>8 DEF IInv, CompleteStage, Goto, rowVars, Unrecorded
<1>9. ASSUME NEW w \in Workers, NEW k \in Keys, Lookup(w, k) PROVE Unrecorded'
  BY <1>9 DEF IInv, TypeOK, Lookup, Goto, rowVars, Unrecorded
<1>10. ASSUME NEW w \in Workers, Reserve(w) PROVE Unrecorded'
  BY <1>10 DEF IInv, TypeOK, LocalInv, Reserve, Goto, localVars, Unrecorded, HasKey
<1>11. ASSUME NEW w \in Workers, Refused(w) PROVE Unrecorded'
  BY <1>11 DEF IInv, Refused, Goto, Leave, Finish, Stop, rowVars, Unrecorded
<1>12. ASSUME NEW w \in Workers, TakeSlot(w) PROVE Unrecorded'
  BY <1>12 DEF IInv, TakeSlot, Goto, rowVars, localVars, Unrecorded
<1>13. ASSUME NEW w \in Workers, NEW c \in Costs, Answer(w, c) PROVE Unrecorded'
  BY <1>13 DEF IInv, Answer, Goto, rowVars, Unrecorded
<1>14. ASSUME NEW w \in Workers, NEW c \in Costs \cup {0}, CallFails(w, c) PROVE Unrecorded'
  <2>1. CASE Answered(w)
    BY <1>14, <2>1 DEF IInv, TypeOK, Unrecorded, CallFails, Answered, Goto, rowVars
  <2>2. CASE Leave(w)
    BY <1>14, <2>2 DEF IInv, TypeOK, Unrecorded, CallFails, Leave, Goto, rowVars
  <2> QED BY <1>14, <2>1, <2>2 DEF CallFails, Finish
<1>15. ASSUME NEW w \in Workers, Refresh(w) PROVE Unrecorded'
  BY <1>15 DEF IInv, TypeOK, Refresh, Goto, Answered, rowVars, localVars, Unrecorded
<1>16. ASSUME NEW w \in Workers, CommitResult(w) PROVE Unrecorded'
  BY <1>16 DEF IInv, LocalInv, CommitResult, Goto, localVars, Exclusive, Unrecorded,
         Pc, Guarded, InHand, HasKey
<1>17. ASSUME NEW w \in Workers, Settle(w) PROVE Unrecorded'
  BY <1>17 DEF IInv, LocalInv, Settle, Goto, Answered, Exclusive, Unrecorded,
         Guarded, InHand, HasKey
<1>18. ASSUME NEW w \in Workers, Crash(w) PROVE Unrecorded'
  BY <1>18 DEF IInv, TypeOK, Crash, Goto, Leave, rowVars, Unrecorded
<1>19. ASSUME NEW w \in Workers, NEW j \in Jobs, Claim(w, j) PROVE Unrecorded'
  BY <1>19 DEF IInv, Claim, Goto, rowVars, Unrecorded
<1>20. ASSUME NEW j \in Jobs, LeaseExpires(j) PROVE Unrecorded'
  BY <1>20 DEF IInv, LeaseExpires, rowVars, localVars, Unrecorded
<1>21. ASSUME NEW r \in Runs, Kill(r) PROVE Unrecorded'
  BY <1>21 DEF IInv, Kill, rowVars, localVars, Unrecorded
<1>22. CASE Midnight
  BY <1>22 DEF IInv, Midnight, rowVars, localVars, Unrecorded
<1>23. CASE UNCHANGED vars
  BY <1>23 DEF IInv, Unrecorded, vars, localVars, rowVars
<1>24. ASSUME NEW w \in Workers, CommitStage(w) PROVE Unrecorded'
  BY <1>24 DEF IInv, Unrecorded, CommitStage, Goto, rowVars, localVars
<1> QED
  BY <1>1, <1>2, <1>3, <1>4, <1>5, <1>6, <1>7, <1>8, <1>9, <1>10, <1>11, <1>12,
         <1>13, <1>14, <1>15, <1>16, <1>17, <1>18, <1>19, <1>20, <1>21, <1>22, <1>23, <1>24
  DEF Next, Attempt, Pay

\* Every action keeps the types of the rows, the ledgers and the local variables.
LEMMA TypeStep ==
    ASSUME IInv, [Next]_vars
    PROVE  TypeOK'
<1> TypeOK /\ LocalInv
  BY DEF IInv
<1>1. ASSUME NEW w \in Workers, FetchOk(w) PROVE TypeOK' BY <1>1, TypeFetchOk
<1>2. ASSUME NEW w \in Workers, EnterStage(w) PROVE TypeOK' BY <1>2, TypeEnterStage
<1>3. ASSUME NEW w \in Workers, SelectStale(w) PROVE TypeOK' BY <1>3, TypeSelectStale
<1>4. ASSUME NEW w \in Workers, AbandonStale(w) PROVE TypeOK' BY <1>4, TypeAbandonStale
<1>5. ASSUME NEW w \in Workers, ConvertStale(w) PROVE TypeOK' BY <1>5, TypeConvertStale
<1>6. ASSUME NEW w \in Workers, Guard(w) PROVE TypeOK' BY <1>6, TypeGuard
<1>7. ASSUME NEW w \in Workers, Preflight(w) PROVE TypeOK' BY <1>7, TypePreflight
<1>8. ASSUME NEW w \in Workers, CompleteStage(w) PROVE TypeOK' BY <1>8, TypeCompleteStage
<1>9. ASSUME NEW w \in Workers, NEW k \in Keys, Lookup(w, k) PROVE TypeOK' BY <1>9, TypeLookup
<1>10. ASSUME NEW w \in Workers, Reserve(w) PROVE TypeOK' BY <1>10, TypeReserve
<1>11. ASSUME NEW w \in Workers, Refused(w) PROVE TypeOK' BY <1>11, TypeRefused
<1>12. ASSUME NEW w \in Workers, TakeSlot(w) PROVE TypeOK' BY <1>12, TypeTakeSlot
<1>13. ASSUME NEW w \in Workers, NEW c \in Costs, Answer(w, c) PROVE TypeOK' BY <1>13, TypeAnswer
<1>14. ASSUME NEW w \in Workers, NEW c \in Costs \cup {0}, CallFails(w, c) PROVE TypeOK' BY <1>14, TypeCallFails
<1>15. ASSUME NEW w \in Workers, Refresh(w) PROVE TypeOK' BY <1>15, TypeRefresh
<1>16. ASSUME NEW w \in Workers, CommitResult(w) PROVE TypeOK' BY <1>16, TypeCommitResult
<1>17. ASSUME NEW w \in Workers, Settle(w) PROVE TypeOK' BY <1>17, TypeSettle
<1>18. ASSUME NEW w \in Workers, Crash(w) PROVE TypeOK' BY <1>18, TypeCrash
<1>19. ASSUME NEW w \in Workers, NEW j \in Jobs, Claim(w, j) PROVE TypeOK' BY <1>19, TypeClaim
<1>20. ASSUME NEW j \in Jobs, LeaseExpires(j) PROVE TypeOK' BY <1>20, TypeLeaseExpires
<1>21. ASSUME NEW r \in Runs, Kill(r) PROVE TypeOK' BY <1>21, TypeKill
<1>22. CASE Midnight BY <1>22, TypeMidnight
<1>23. CASE UNCHANGED vars
  BY <1>23 DEF TypeOK, vars, jobVars, rowVars, runLedger, dayLedger, outside,
         localVars
<1>24. ASSUME NEW w \in Workers, CommitStage(w) PROVE TypeOK' BY <1>24, TypeCommitStage
<1> QED
  BY <1>1, <1>2, <1>3, <1>4, <1>5, <1>6, <1>7, <1>8, <1>9, <1>10, <1>11, <1>12,
         <1>13, <1>14, <1>15, <1>16, <1>17, <1>18, <1>19, <1>20, <1>21, <1>22, <1>23, <1>24
  DEF Next, Attempt, Pay

-----------------------------------------------------------------------------
(* The theorems.                                                           *)

\* No attempt has begun: the invariant holds of the empty tables.
LEMMA InitInv == ASSUME Init PROVE IInv
<1>1. TypeOK
  BY CallsAssumption DEF Init, TypeOK, JobStatus, TerminalJob, CallStatus, Pc
<1>2. LocalInv /\ Exclusive /\ Unrecorded
  BY DEF Init, LocalInv, Exclusive, Unrecorded, HasKey, InHand, Guarded
<1> QED BY <1>1, <1>2 DEF IInv

\* The invariant of the two attempts that may work on one job: types, what each
\* attempt has in hand, the lock, and that an outstanding call is unrecorded.
THEOREM CallsInvariance == Spec => []IInv
<1>1. Init => IInv
  BY InitInv
<1>2. IInv /\ [Next]_vars => IInv'
  BY TypeStep, LocalStep, ExclusiveStep, UnrecordedStep DEF IInv
<1> QED BY <1>1, <1>2, PTL DEF Spec

\* The rows, the ledgers and the local variables keep their types; in particular
\* neither limit is ever exceeded by what is on hold, and no hold is negative.
THEOREM CallsTyped == Spec => []TypeOK
<1>1. IInv => TypeOK
  BY DEF IInv
<1> QED BY <1>1, CallsInvariance, PTL

\* One attempt at a time is between the guard and the end of the stage of a job,
\* whether or not it still owns the job: the heartbeat's lock, not the lease.
THEOREM OneAttemptPays == Spec => []Exclusive
<1>1. IInv => Exclusive
  BY DEF IInv
<1> QED BY <1>1, CallsInvariance, PTL

\* The provider is never paid for an answer that is recorded already, though an
\* attempt may outlast its lease, crash anywhere and be overtaken.
THEOREM AnswersArePaidOnce == Spec => RecordedAnswersAreReused
<1>1. ASSUME IInv, Next, NEW w \in Workers, NEW k \in Keys,
             pc[w] = "call", key[w] = k
      PROVE  row[k] \notin {"committed", "reconciled"}
  BY <1>1 DEF IInv, Unrecorded
<1>2. IInv /\ [Next]_vars =>
        [\A w \in Workers, k \in Keys :
            pc[w] = "call" /\ key[w] = k /\ pc'[w] = "refresh"
                => row[k] \notin {"committed", "reconciled"}]_vars
  BY <1>1
<1> QED BY <1>2, CallsInvariance, PTL DEF Spec, RecordedAnswersAreReused

-----------------------------------------------------------------------------
(* When no live attempt outlasts its lease: the run ledger holds the worst *)
(* case of every call that is not resolved.  What is above assumes nothing *)
(* of leases and has the lock of a guard; the recovery of abandoned calls  *)
(* runs before the guard, and here the lease protects it.                  *)

(* The inductive invariant.                                                *)

\* A job in hand is its holder's alone.
OwnerInv ==
    \A w \in Workers : cur[w] \in Jobs =>
        /\ owner[cur[w]] = w /\ jobStatus[cur[w]] # "queued"
        /\ jobStatus[cur[w]] = "running" => lease[cur[w]] = "held"

\* The calls a recovery holds are as it left them, and so is an answer in hand.
Recovers(w) ==
    /\ pc[w] \in {"abandon", "convert"} => stale[w] \subseteq CallsOf(cur[w])
    /\ pc[w] = "abandon" => \A k \in stale[w] : row[k] = "pending"
    /\ pc[w] = "convert" => \A k \in stale[w] : row[k] = "abandoned"
    /\ pc[w] = "commit" => row[key[w]] = "pending"
    /\ pc[w] = "settle" => row[key[w]] = "committed"

RecoveryInv == \A w \in Workers : Recovers(w)

Outstanding(r) == {k \in CallsOfRun(r) : row[k] \in {"pending", "committed"}}

\* Abandoned, and not yet converted.
Converting(r) == {k \in CallsOfRun(r) : \E w \in Workers : pc[w] = "convert" /\ k \in stale[w]}

Owed(r) == Outstanding(r) \cup Converting(r)

\* What is owed is held.
HoldInv == \A r \in Runs : reserved[r] >= Worst * Cardinality(Owed(r))

HoldsInv == OwnerInv /\ RecoveryInv /\ HoldInv

-----------------------------------------------------------------------------
(* One owner.                                                              *)

\* A step of w that keeps or drops its job, and touches no other job's row.
KeepsOrDrops(w) ==
    /\ UNCHANGED owner
    /\ \A x \in Workers \ {w} : cur'[x] = cur[x]
    /\ \A j \in Jobs \ {cur[w]} : jobStatus'[j] = jobStatus[j] /\ lease'[j] = lease[j]
    /\ cur'[w] \in Jobs =>
          /\ cur'[w] = cur[w] /\ jobStatus'[cur[w]] = jobStatus[cur[w]]
          /\ lease'[cur[w]] \in {lease[cur[w]], "held"}

\* An attempt keeps the job it claimed, or drops it and is idle.
LEMMA AttemptKeepsOrDrops ==
    ASSUME TypeOK, LocalInv, NEW w \in Workers, Attempt(w) \/ Crash(w)
    PROVE  KeepsOrDrops(w)
<1> USE CallsAssumption DEF TypeOK, LocalInv, KeepsOrDrops, Leave, Finish, Goto, jobVars, localVars
<1>1. CASE FetchOk(w)
  BY <1>1 DEF FetchOk
<1>2. CASE EnterStage(w)
  BY <1>2 DEF EnterStage
<1>3. CASE SelectStale(w)
  BY <1>3 DEF SelectStale
<1>4. CASE AbandonStale(w)
  BY <1>4 DEF AbandonStale
<1>5. CASE ConvertStale(w)
  BY <1>5 DEF ConvertStale
<1>6. CASE Guard(w)
  BY <1>6 DEF Guard
<1>7. CASE Preflight(w)
  BY <1>7 DEF Preflight
<1>8. CASE CommitStage(w)
  BY <1>8 DEF CommitStage
<1>9. CASE CompleteStage(w)
  BY <1>9 DEF CompleteStage
<1>10. CASE \E k \in Keys : Lookup(w, k)
  BY <1>10 DEF Lookup
<1>11. CASE Reserve(w)
  BY <1>11 DEF Reserve
<1>12. CASE Refused(w)
  BY <1>12 DEF Refused, Stop
<1>13. CASE TakeSlot(w)
  BY <1>13 DEF TakeSlot
<1>14. CASE \E c \in Costs : Answer(w, c)
  BY <1>14 DEF Answer
<1>15. CASE \E c \in Costs \cup {0} : CallFails(w, c)
  BY <1>15 DEF CallFails, Answered
<1>16. CASE Refresh(w)
  BY <1>16 DEF Refresh, Answered
<1>17. CASE CommitResult(w)
  BY <1>17 DEF CommitResult
<1>18. CASE Settle(w)
  BY <1>18 DEF Settle, Answered
<1>19. CASE Crash(w)
  BY <1>19 DEF Crash
<1> QED
  BY <1>1, <1>2, <1>3, <1>4, <1>5, <1>6, <1>7, <1>8, <1>9, <1>10, <1>11, <1>12, <1>13, <1>14, <1>15, <1>16, <1>17, <1>18, <1>19 DEF Attempt, Pay

\* While no attempt outlasts its lease, an attempt owns the job it works on.
LEMMA OwnerStep ==
    ASSUME SlowAt = {}, TypeOK, LocalInv, OwnerInv, Next
    PROVE  OwnerInv'
<1> USE CallsAssumption DEF TypeOK, Goto
<1>1. ASSUME NEW w \in Workers, Attempt(w) \/ Crash(w) PROVE OwnerInv'
  BY <1>1, AttemptKeepsOrDrops DEF KeepsOrDrops, OwnerInv
<1>2. ASSUME NEW w \in Workers, NEW j \in Jobs, Claim(w, j) PROVE OwnerInv'
  <2>1. \A x \in Workers : cur[x] # j
    BY <1>2 DEF Claim, OwnerInv
  <2> QED
    BY <1>2, <2>1 DEF Claim, OwnerInv
<1>3. ASSUME NEW j \in Jobs, LeaseExpires(j) PROVE OwnerInv'
  <2>1. \A x \in Workers : cur[x] # j
    BY <1>3 DEF LeaseExpires, OwnerInv
  <2> QED
    BY <1>3, <2>1 DEF LeaseExpires, OwnerInv, localVars
<1>4. ASSUME NEW r \in Runs, Kill(r) PROVE OwnerInv'
  BY <1>4 DEF Kill, OwnerInv, localVars
<1>5. CASE Midnight
  BY <1>5 DEF Midnight, OwnerInv, jobVars, localVars
<1> QED
  BY <1>1, <1>2, <1>3, <1>4, <1>5 DEF Next

-----------------------------------------------------------------------------
(* Recoveries and answers in hand.                                         *)

\* A step of w touches calls of its own job only.
OwnCalls(w) ==
    /\ \A x \in Workers \ {w} : /\ pc'[x] = pc[x] /\ cur'[x] = cur[x]
                                /\ stale'[x] = stale[x] /\ key'[x] = key[x]
    /\ \A k \in Keys : row'[k] # row[k] => JobOf[k] = cur[w]

\* An attempt changes no call but those of its job.
LEMMA AttemptOwnCalls ==
    ASSUME TypeOK, LocalInv, RecoveryInv, NEW w \in Workers, Attempt(w) \/ Crash(w)
    PROVE  OwnCalls(w) /\ Recovers(w)'
<1> USE CallsAssumption DEF TypeOK, LocalInv, OwnCalls, RecoveryInv, Recovers, HasKey, InHand, Guarded,
        CallsOf, Leave, Finish, Goto, rowVars, localVars
<1>1. CASE FetchOk(w)
  BY <1>1 DEF FetchOk
<1>2. CASE EnterStage(w)
  BY <1>2 DEF EnterStage
<1>3. CASE SelectStale(w)
  BY <1>3 DEF SelectStale
<1>4. CASE AbandonStale(w)
  BY <1>4 DEF AbandonStale
<1>5. CASE ConvertStale(w)
  BY <1>5 DEF ConvertStale
<1>6. CASE Guard(w)
  BY <1>6 DEF Guard
<1>7. CASE Preflight(w)
  BY <1>7 DEF Preflight
<1>8. CASE CommitStage(w)
  BY <1>8 DEF CommitStage
<1>9. CASE CompleteStage(w)
  BY <1>9 DEF CompleteStage
<1>10. CASE \E k \in Keys : Lookup(w, k)
  BY <1>10 DEF Lookup
<1>11. CASE Reserve(w)
  BY <1>11 DEF Reserve
<1>12. CASE Refused(w)
  BY <1>12 DEF Refused, Stop
<1>13. CASE TakeSlot(w)
  BY <1>13 DEF TakeSlot
<1>14. CASE \E c \in Costs : Answer(w, c)
  BY <1>14 DEF Answer
<1>15. CASE \E c \in Costs \cup {0} : CallFails(w, c)
  BY <1>15 DEF CallFails, Answered
<1>16. CASE Refresh(w)
  BY <1>16 DEF Refresh, Answered
<1>17. CASE CommitResult(w)
  BY <1>17 DEF CommitResult
<1>18. CASE Settle(w)
  BY <1>18 DEF Settle, Answered
<1>19. CASE Crash(w)
  BY <1>19 DEF Crash
<1> QED
  BY <1>1, <1>2, <1>3, <1>4, <1>5, <1>6, <1>7, <1>8, <1>9, <1>10, <1>11, <1>12, <1>13, <1>14, <1>15, <1>16, <1>17, <1>18, <1>19 DEF Attempt, Pay

\* What a recovery found is still so when it comes to convert it.
LEMMA RecoveryStep ==
    ASSUME TypeOK, LocalInv, OwnerInv, RecoveryInv, Next
    PROVE  RecoveryInv'
<1> USE CallsAssumption DEF TypeOK
<1>1. ASSUME NEW w \in Workers, Attempt(w) \/ Crash(w) PROVE RecoveryInv'
  <2> SUFFICES ASSUME NEW x \in Workers, x # w PROVE Recovers(x)'
    BY <1>1, AttemptOwnCalls DEF RecoveryInv
  <2>1. OwnCalls(w)
    BY <1>1, AttemptOwnCalls
  <2>2. cur[x] \in Jobs => cur[x] # cur[w]
    BY DEF OwnerInv
  <2>3. /\ pc[x] \in {"abandon", "convert"} => \A k \in stale[x] : row'[k] = row[k]
        /\ pc[x] \in {"commit", "settle"} => row'[key[x]] = row[key[x]]
    BY <2>1, <2>2 DEF OwnCalls, RecoveryInv, Recovers, LocalInv, CallsOf, HasKey, InHand
  <2> QED
    BY <2>1, <2>3 DEF OwnCalls, RecoveryInv, Recovers, CallsOf
<1>2. ASSUME NEW w \in Workers, NEW j \in Jobs, Claim(w, j) PROVE RecoveryInv'
  BY <1>2 DEF Claim, Goto, rowVars, RecoveryInv, Recovers, CallsOf
<1>3. CASE \/ \E j \in Jobs : LeaseExpires(j)
           \/ \E r \in Runs : Kill(r)
           \/ Midnight
  BY <1>3 DEF LeaseExpires, Kill, Midnight, rowVars, localVars, RecoveryInv, Recovers, CallsOf
<1> QED
  BY <1>1, <1>2, <1>3 DEF Next

-----------------------------------------------------------------------------
(* Holds.                                                                  *)

\* What is owed are calls, finitely many.
LEMMA OwedFinite ==
    ASSUME NEW S \in SUBSET Keys
    PROVE  /\ IsFiniteSet(S) /\ Cardinality(S) \in Nat
           /\ \A T \in SUBSET S : IsFiniteSet(T) /\ Cardinality(T) \in Nat
                                  /\ Cardinality(T) <= Cardinality(S)
  BY CallsAssumption, FS_Subset, FS_CardinalityType

\* What a run owes is a set of calls.
LEMMA OwedType == \A r \in Runs : Owed(r) \in SUBSET Keys
  BY DEF Owed, Outstanding, Converting, CallsOfRun

\* The worst case of fewer calls is no more, and of one more call one worst case more.
LEMMA WorstOfFewer ==
    ASSUME NEW m \in Nat, NEW n \in Nat, m <= n
    PROVE  Worst * m \in Nat /\ Worst * n \in Nat /\ Worst * m <= Worst * n
<1>1. PICK d \in Nat : n = m + d
  <2>1. n - m \in Nat /\ n = m + (n - m)
    OBVIOUS
  <2> QED
    BY <2>1
<1>2. Worst * n = Worst * m + Worst * d
  BY <1>1, CallsAssumption
<1>3. Worst * m \in Nat /\ Worst * d \in Nat
  BY CallsAssumption, ProductType
<1> QED
  BY <1>2, <1>3

\* The worst case of m + n calls is that of m and that of n.
LEMMA WorstOfSum ==
    ASSUME NEW m \in Nat, NEW n \in Nat
    PROVE  Worst * (m + n) = Worst * m + n * Worst /\ Worst * (m + 1) = Worst * m + Worst
  BY CallsAssumption

\* A step that gives up no hold, and owes nothing new.
LEMMA OwesNoMore ==
    ASSUME TypeOK, TypeOK', HoldInv, UNCHANGED reserved, \A r \in Runs : Owed(r)' \subseteq Owed(r)
    PROVE  HoldInv'
<1> SUFFICES ASSUME NEW r \in Runs PROVE reserved[r] >= Worst * Cardinality(Owed(r)')
  BY DEF HoldInv
<1>1. /\ Cardinality(Owed(r)) \in Nat /\ Cardinality(Owed(r)') \in Nat
      /\ Cardinality(Owed(r)') <= Cardinality(Owed(r))
  BY OwedFinite, OwedType
<1>2. /\ Worst * Cardinality(Owed(r)') <= Worst * Cardinality(Owed(r))
      /\ Worst * Cardinality(Owed(r)') \in Nat /\ Worst * Cardinality(Owed(r)) \in Nat
  BY <1>1, WorstOfFewer
<1> QED
  BY <1>2 DEF HoldInv, TypeOK

\* Most steps change no call that is owed, and start no conversion.
LEMMA QuietOwes ==
    ASSUME UNCHANGED row,
           \A x \in Workers : pc'[x] = "convert" => pc[x] = "convert" /\ stale'[x] = stale[x]
    PROVE  \A r \in Runs : Owed(r)' \subseteq Owed(r)
  BY DEF Owed, Outstanding, Converting, CallsOfRun

\* A step that leaves the ledger and the rows alone keeps the hold.
LEMMA QuietKeeps ==
    ASSUME TypeOK, TypeOK', LocalInv, HoldInv, NEW w \in Workers, Attempt(w) \/ Crash(w),
           ~AbandonStale(w), ~ConvertStale(w), ~Reserve(w), ~CommitResult(w), ~Settle(w)
    PROVE  HoldInv'
<1>1. /\ UNCHANGED <<row, reserved>>
      /\ \A x \in Workers : pc'[x] = "convert" => pc[x] = "convert" /\ stale'[x] = stale[x]
  <2> USE CallsAssumption DEF TypeOK, Leave, Finish, Goto, rowVars, runLedger, localVars
  <2>1. CASE FetchOk(w)
    BY <2>1 DEF FetchOk
  <2>2. CASE EnterStage(w)
    BY <2>2 DEF EnterStage
  <2>3. CASE SelectStale(w)
    BY <2>3 DEF SelectStale
  <2>4. CASE Guard(w)
    BY <2>4 DEF Guard
  <2>5. CASE Preflight(w)
    BY <2>5 DEF Preflight
  <2>6. CASE CommitStage(w)
    BY <2>6 DEF CommitStage
  <2>7. CASE CompleteStage(w)
    BY <2>7 DEF CompleteStage
  <2>8. CASE \E k \in Keys : Lookup(w, k)
    BY <2>8 DEF Lookup
  <2>9. CASE Refused(w)
    BY <2>9 DEF Refused, Stop
  <2>10. CASE TakeSlot(w)
    BY <2>10 DEF TakeSlot
  <2>11. CASE \E c \in Costs : Answer(w, c)
    BY <2>11 DEF Answer
  <2>12. CASE \E c \in Costs \cup {0} : CallFails(w, c)
    BY <2>12 DEF CallFails, Answered
  <2>13. CASE Refresh(w)
    BY <2>13 DEF Refresh, Answered
  <2>14. CASE Crash(w)
    BY <2>14 DEF Crash
  <2> QED
    BY <2>1, <2>2, <2>3, <2>4, <2>5, <2>6, <2>7, <2>8, <2>9, <2>10, <2>11, <2>12, <2>13, <2>14 DEF Attempt, Pay
<1> QED
  BY <1>1, QuietOwes, OwesNoMore

\* A reservation holds the worst case of the call it begins.
LEMMA ReserveKeeps ==
    ASSUME TypeOK, TypeOK', LocalInv, HoldInv, NEW w \in Workers, Reserve(w)
    PROVE  HoldInv'
<1> DEFINE k == key[w]
<1>1. k \in Keys /\ Run(w) \in Runs /\ RunOf[JobOf[k]] = Run(w)
  BY CallsAssumption DEF Reserve, LocalInv, HasKey, Run
<1>2. /\ row' = [row EXCEPT ![k] = "pending"]
      /\ reserved' = [reserved EXCEPT ![Run(w)] = @ + Worst]
      /\ stale' = stale /\ \A x \in Workers : pc'[x] = "convert" => pc[x] = "convert"
  BY DEF Reserve, Hold, Goto, localVars, TypeOK
<1> HIDE DEF k
<1>3. ASSUME NEW r \in Runs PROVE reserved'[r] >= Worst * Cardinality(Owed(r)')
  <2>1. /\ IsFiniteSet(Owed(r)) /\ Cardinality(Owed(r)) \in Nat
        /\ IsFiniteSet(Owed(r)') /\ Cardinality(Owed(r)') \in Nat
    <3>1. Owed(r) \in SUBSET Keys
      BY OwedType
    <3>2. Owed(r)' \in SUBSET Keys
      BY DEF Owed, Outstanding, Converting, CallsOfRun
    <3>3. IsFiniteSet(Owed(r)) /\ Cardinality(Owed(r)) \in Nat
      BY <3>1, OwedFinite
    <3>4. IsFiniteSet(Owed(r)') /\ Cardinality(Owed(r)') \in Nat
      BY <3>2, OwedFinite
    <3> QED
      BY <3>3, <3>4
  <2>2. reserved[r] >= Worst * Cardinality(Owed(r)) /\ reserved[r] \in Nat
    BY DEF HoldInv, TypeOK
  <2>3. Worst * Cardinality(Owed(r)') \in Nat /\ Worst * Cardinality(Owed(r)) \in Nat
    BY <2>1, WorstOfFewer
  <2>4. CASE r = Run(w)
    <3>1. Owed(r)' \subseteq Owed(r) \cup {k}
      BY <1>2 DEF Owed, Outstanding, Converting, CallsOfRun, TypeOK
    <3>2. Cardinality(Owed(r)') <= Cardinality(Owed(r)) + 1
      <4>1. /\ IsFiniteSet(Owed(r) \cup {k})
            /\ Cardinality(Owed(r) \cup {k}) \in Nat
            /\ Cardinality(Owed(r) \cup {k}) <= Cardinality(Owed(r)) + 1
        <5> DEFINE A == Owed(r)
        <5>1. IsFiniteSet(A) /\ Cardinality(A) \in Nat
          BY <2>1
        <5> HIDE DEF A
        <5>2. /\ IsFiniteSet(A \cup {k})
              /\ Cardinality(A \cup {k}) = IF k \in A THEN Cardinality(A) ELSE Cardinality(A) + 1
          BY <5>1, FS_AddElement
        <5>3. Cardinality(A \cup {k}) \in Nat /\ Cardinality(A \cup {k}) <= Cardinality(A) + 1
          BY <5>1, <5>2
        <5> QED
          BY <5>2, <5>3 DEF A
      <4>2. Cardinality(Owed(r)') <= Cardinality(Owed(r) \cup {k})
        BY <3>1, <4>1, FS_Subset
      <4> QED
        BY <2>1, <4>1, <4>2
    <3>3. Worst * Cardinality(Owed(r)') <= Worst * (Cardinality(Owed(r)) + 1)
      BY <2>1, <3>2, WorstOfFewer
    <3>4. Worst * (Cardinality(Owed(r)) + 1) = Worst * Cardinality(Owed(r)) + Worst
      BY <2>1, WorstOfSum
    <3>5. reserved'[r] = reserved[r] + Worst
      BY <1>2, <2>4 DEF TypeOK
    <3> QED
      BY <2>2, <2>3, <3>3, <3>4, <3>5, CallsAssumption
  <2>5. CASE r # Run(w)
    <3>1. Owed(r)' \subseteq Owed(r)
      BY <1>1, <1>2, <2>5 DEF Owed, Outstanding, Converting, CallsOfRun, TypeOK
    <3>2. Worst * Cardinality(Owed(r)') <= Worst * Cardinality(Owed(r))
      BY <2>1, <3>1, OwedFinite, OwedType, WorstOfFewer
    <3>3. reserved'[r] = reserved[r]
      BY <1>2, <2>5 DEF TypeOK
    <3> QED
      BY <2>2, <2>3, <3>2, <3>3
  <2> QED
    BY <2>4, <2>5
<1> QED
  BY <1>3 DEF HoldInv

\* A release gives up what is owed of some calls of a run, and no more.
LEMMA ReleaseKeeps ==
    ASSUME TypeOK, TypeOK', HoldInv, NEW r \in Runs, NEW S \in SUBSET Owed(r),
           reserved' = [reserved EXCEPT ![r] = NotBelowZero(@ - Cardinality(S) * Worst)],
           Owed(r)' \subseteq Owed(r) \ S,
           \A q \in Runs \ {r} : Owed(q)' \subseteq Owed(q)
    PROVE  HoldInv'
<1>1. ASSUME NEW q \in Runs PROVE reserved'[q] >= Worst * Cardinality(Owed(q)')
  <2>1. /\ IsFiniteSet(Owed(q)) /\ Cardinality(Owed(q)) \in Nat /\ Cardinality(Owed(q)') \in Nat
    BY OwedFinite, OwedType
  <2>2. reserved[q] >= Worst * Cardinality(Owed(q)) /\ reserved[q] \in Nat
    BY DEF HoldInv, TypeOK
  <2>3. Worst * Cardinality(Owed(q)') \in Nat /\ Worst * Cardinality(Owed(q)) \in Nat
    BY <2>1, WorstOfFewer
  <2>4. CASE q = r
    <3>1. Cardinality(Owed(q) \ S) = Cardinality(Owed(q)) - Cardinality(S)
      <4>1. Owed(q) \cap S = S
        BY <2>4
      <4> QED
        BY <2>1, <4>1, FS_Difference
    <3>2. Cardinality(S) \in Nat /\ IsFiniteSet(Owed(q) \ S) /\ Cardinality(Owed(q) \ S) \in Nat
      BY <2>4, OwedFinite, OwedType
    <3>3. Cardinality(Owed(q)') <= Cardinality(Owed(q) \ S)
      BY <2>4, <3>2, FS_Subset
    <3>4. /\ Worst * Cardinality(Owed(q)') <= Worst * Cardinality(Owed(q) \ S)
          /\ Worst * Cardinality(Owed(q) \ S) \in Nat
      BY <2>1, <3>2, <3>3, WorstOfFewer
    <3>5. Worst * Cardinality(Owed(q)) = Worst * Cardinality(Owed(q) \ S) + Cardinality(S) * Worst
      <4>1. Cardinality(Owed(q)) = Cardinality(Owed(q) \ S) + Cardinality(S)
        BY <2>1, <3>1, <3>2
      <4> QED
        BY <3>2, <4>1, WorstOfSum
    <3>6. Cardinality(S) * Worst \in Nat
      BY <3>2, CallsAssumption, ProductType
    <3>7. reserved'[q] = NotBelowZero(reserved[q] - Cardinality(S) * Worst)
      BY <2>4 DEF TypeOK
    <3> QED
      BY <2>2, <2>3, <3>4, <3>5, <3>6, <3>7 DEF NotBelowZero
  <2>5. CASE q # r
    <3>1. Worst * Cardinality(Owed(q)') <= Worst * Cardinality(Owed(q))
      BY <2>1, <2>5, OwedFinite, OwedType, WorstOfFewer
    <3>2. reserved'[q] = reserved[q]
      BY <2>5 DEF TypeOK
    <3> QED
      BY <2>2, <2>3, <3>1, <3>2
  <2> QED
    BY <2>4, <2>5
<1> QED
  BY <1>1 DEF HoldInv

\* Abandoned calls stay owed until they are converted, a recorded one until it settles.
LEMMA AbandonKeeps ==
    ASSUME TypeOK, TypeOK', LocalInv, RecoveryInv, HoldInv, NEW w \in Workers,
           AbandonStale(w) \/ CommitResult(w)
    PROVE  HoldInv'
<1>1. CASE AbandonStale(w)
  <2>1. \A k \in stale[w] : row[k] = "pending"
    BY <1>1 DEF AbandonStale, RecoveryInv, Recovers
  <2>2. \A r \in Runs : Owed(r)' \subseteq Owed(r)
    BY <1>1, <2>1 DEF AbandonStale, Goto, localVars, Owed, Outstanding, Converting, CallsOfRun, TypeOK
  <2> QED
    BY <1>1, <2>2, OwesNoMore DEF AbandonStale, runLedger
<1>2. CASE CommitResult(w)
  <2>1. row[key[w]] = "pending" /\ key[w] \in Keys
    BY <1>2 DEF CommitResult, RecoveryInv, Recovers, LocalInv, HasKey, InHand
  <2>2. \A r \in Runs : Owed(r)' \subseteq Owed(r)
    BY <1>2, <2>1 DEF CommitResult, Goto, localVars, Owed, Outstanding, Converting, CallsOfRun, TypeOK
  <2> QED
    BY <1>2, <2>2, OwesNoMore DEF CommitResult, runLedger
<1> QED
  BY <1>1, <1>2

\* A conversion gives up the hold of the calls it converts, and of no other.
LEMMA ConvertKeeps ==
    ASSUME TypeOK, TypeOK', LocalInv, OwnerInv, RecoveryInv, HoldInv,
           NEW w \in Workers, ConvertStale(w)
    PROVE  HoldInv'
<1>1. /\ cur[w] \in Jobs /\ Run(w) \in Runs /\ stale[w] \subseteq CallsOf(cur[w])
      /\ \A k \in stale[w] : row[k] = "abandoned"
      /\ pc[w] = "convert"
  BY CallsAssumption DEF ConvertStale, LocalInv, RecoveryInv, Recovers, Run
<1>2. stale[w] \subseteq Owed(Run(w))
  BY <1>1, CallsAssumption DEF Owed, Converting, CallsOfRun, CallsOf, Run
<1>3. \A x \in Workers \ {w} : pc[x] = "convert" => stale[x] \cap stale[w] = {}
  BY <1>1 DEF OwnerInv, LocalInv, RecoveryInv, Recovers, CallsOf
<1>4. /\ UNCHANGED row /\ pc' = [pc EXCEPT ![w] = "guard"] /\ stale' = [stale EXCEPT ![w] = {}]
      /\ reserved' = [reserved EXCEPT ![Run(w)] = NotBelowZero(@ - Cardinality(stale[w]) * Worst)]
      /\ UNCHANGED cur
  BY DEF ConvertStale, Convert, Goto, rowVars
<1>5. ASSUME NEW r \in Runs PROVE Owed(r)' \subseteq Owed(r) \ stale[w]
  <2> SUFFICES ASSUME NEW k \in Owed(r)' PROVE k \in Owed(r) \ stale[w]
    OBVIOUS
  <2>1. CASE k \in CallsOfRun(r) /\ row[k] \in {"pending", "committed"}
    BY <1>1, <2>1 DEF Owed, Outstanding
  <2>2. CASE /\ k \in CallsOfRun(r)
             /\ \E x \in Workers : pc'[x] = "convert" /\ k \in stale'[x]
    <3>1. PICK x \in Workers \ {w} : pc[x] = "convert" /\ k \in stale[x]
      BY <1>4, <2>2 DEF TypeOK
    <3> QED
      BY <1>3, <2>2, <3>1 DEF Owed, Converting
  <2> QED
    BY <1>4, <2>1, <2>2 DEF Owed, Outstanding, Converting, CallsOfRun
<1> HIDE DEF Run
<1>6. Owed(Run(w))' \subseteq Owed(Run(w)) \ stale[w]
  <2>1. Run(w)' = Run(w)
    BY <1>4 DEF Run
  <2> QED
    BY <1>1, <1>5, <2>1 DEF Owed, Outstanding, Converting, CallsOfRun
<1> QED
  BY <1>1, <1>2, <1>4, <1>5, ReleaseKeeps

\* One call holds the worst case once.
LEMMA OneHold == ASSUME NEW x PROVE Cardinality({x}) * Worst = Worst
<1>1. Cardinality({x}) = 1
  BY FS_Singleton, Zenon
<1>2. Worst \in Nat
  BY CallsAssumption, Zenon
<1>3. \A n \in Nat : 1 * n = n
  OBVIOUS
<1> QED
  BY <1>1, <1>2, <1>3

\* A settlement gives up the hold of its call, and of no other.
LEMMA SettleKeeps ==
    ASSUME TypeOK, TypeOK', LocalInv, RecoveryInv, HoldInv, NEW w \in Workers, Settle(w)
    PROVE  HoldInv'
<1>1. /\ key[w] \in Keys /\ JobOf[key[w]] = cur[w] /\ Run(w) \in Runs
      /\ row[key[w]] = "committed"
  BY CallsAssumption DEF Settle, LocalInv, HasKey, RecoveryInv, Recovers, Run
<1>2. /\ row' = [row EXCEPT ![key[w]] = "reconciled"] /\ stale' = stale
      /\ pc' = [pc EXCEPT ![w] = "next"]
      /\ reserved' = [reserved EXCEPT ![Run(w)] = NotBelowZero(@ - Worst)]
  BY DEF Settle, Reconcile, Answered, Goto
<1>3. key[w] \in Owed(Run(w))
  BY <1>1 DEF Owed, Outstanding, CallsOfRun, Run
<1>4. \A x \in Workers : pc[x] = "convert" => key[w] \notin stale[x]
  BY <1>1 DEF RecoveryInv, Recovers
<1>5. \A r \in Runs : Owed(r)' \subseteq Owed(r) \ {key[w]}
  BY <1>1, <1>2, <1>4 DEF Owed, Outstanding, Converting, CallsOfRun, TypeOK
<1>6. Cardinality({key[w]}) * Worst = Worst
  BY OneHold, Zenon
<1> QED
  BY <1>1, <1>2, <1>3, <1>5, <1>6, ReleaseKeeps

\* Every step of an attempt keeps the hold.
LEMMA HoldStep ==
    ASSUME TypeOK, TypeOK', LocalInv, OwnerInv, RecoveryInv, HoldInv, Next
    PROVE  HoldInv'
<1>1. ASSUME NEW w \in Workers, Attempt(w) \/ Crash(w) PROVE HoldInv'
  BY <1>1, QuietKeeps, ReserveKeeps, AbandonKeeps, ConvertKeeps, SettleKeeps
<1>2. CASE \/ \E w \in Workers, j \in Jobs : Claim(w, j)
           \/ \E j \in Jobs : LeaseExpires(j)
           \/ \E r \in Runs : Kill(r)
           \/ Midnight
  <2>1. /\ UNCHANGED <<row, reserved>>
        /\ \A x \in Workers : pc'[x] = "convert" => pc[x] = "convert" /\ stale'[x] = stale[x]
    BY <1>2 DEF Claim, LeaseExpires, Kill, Midnight, Goto, rowVars, runLedger, localVars, TypeOK
  <2> QED
    BY <2>1, QuietOwes, OwesNoMore
<1> QED
  BY <1>1, <1>2 DEF Next

-----------------------------------------------------------------------------
(* The theorem.                                                            *)

\* Nothing is owed at first.
LEMMA HoldsInit == ASSUME Init PROVE HoldsInv
<1>1. OwnerInv /\ RecoveryInv
  BY CallsAssumption DEF Init, OwnerInv, RecoveryInv, Recovers
<1>2. \A r \in Runs : Owed(r) = {}
  BY DEF Init, Owed, Outstanding, Converting, CallsOfRun
<1>3. \A r \in Runs : Worst * Cardinality(Owed(r)) = 0
  <2>1. Worst * 0 = 0
    BY CallsAssumption
  <2>2. Cardinality({}) = 0
    BY FS_EmptySet
  <2>3. \A r \in Runs : Cardinality(Owed(r)) = 0
    BY <1>2, <2>2
  <2> QED
    BY <2>1, <2>3
<1>4. \A r \in Runs : reserved[r] = 0
  BY DEF Init
<1>5. HoldInv
  BY <1>3, <1>4 DEF HoldInv
<1> QED
  BY <1>1, <1>5 DEF HoldsInv

\* Every step keeps the three invariants behind the hold.
LEMMA HoldsStep == ASSUME SlowAt = {}, IInv, IInv', HoldsInv, [Next]_vars PROVE HoldsInv'
<1>1. CASE Next
  BY <1>1, OwnerStep, RecoveryStep, HoldStep DEF IInv, HoldsInv
<1>2. CASE UNCHANGED vars
  BY <1>2 DEF vars, jobVars, rowVars, runLedger, localVars, HoldsInv, OwnerInv, RecoveryInv, Recovers,
         HoldInv, Owed, Outstanding, Converting, CallsOfRun, CallsOf
<1> QED
  BY <1>1, <1>2

\* While no attempt outlasts its lease, a hold outlives every crash and kill until
\* its call is resolved: whoever recovers a dead attempt's calls gives up the hold
\* of exactly the calls it abandoned, and settling gives up that of exactly one.
THEOREM HoldsCover == ASSUME SlowAt = {} PROVE Spec => []HoldCoversCalls
<1>1. Init => HoldsInv
  BY HoldsInit
<1>2. IInv /\ IInv' /\ HoldsInv /\ [Next]_vars => HoldsInv'
  BY HoldsStep
<1>3. IInv /\ HoldsInv => HoldCoversCalls
  <2> SUFFICES ASSUME IInv, HoldsInv, NEW r \in Runs
               PROVE  reserved[r] >= Worst * Cardinality(Outstanding(r))
    BY DEF HoldCoversCalls, Outstanding
  <2>1. /\ Cardinality(Owed(r)) \in Nat /\ Cardinality(Outstanding(r)) \in Nat
        /\ Cardinality(Outstanding(r)) <= Cardinality(Owed(r))
    BY OwedFinite, OwedType DEF Owed
  <2>2. /\ Worst * Cardinality(Outstanding(r)) <= Worst * Cardinality(Owed(r))
        /\ Worst * Cardinality(Outstanding(r)) \in Nat /\ Worst * Cardinality(Owed(r)) \in Nat
    BY <2>1, WorstOfFewer
  <2> QED
    BY <2>2 DEF HoldsInv, HoldInv, IInv, TypeOK
<1> QED
  BY <1>1, <1>2, <1>3, CallsInvariance, PTL DEF Spec

-----------------------------------------------------------------------------
(* Within a day and while no attempt outlasts its lease, nothing is ever   *)
(* taken from a hold that is not there: the two ledgers move together.     *)

\* The sums are numbers, and what all runs hold covers what one of them does.
LEMMA LedgerSums ==
    ASSUME IsFiniteSet(Runs), TypeOK
    PROVE  /\ SumFunction(reserved) = SumFunctionOnSet(reserved, Runs)
           /\ SumFunction(spent) = SumFunctionOnSet(spent, Runs)
           /\ SumFunctionOnSet(reserved, Runs) \in Nat /\ SumFunctionOnSet(spent, Runs) \in Nat
           /\ \A r \in Runs : reserved[r] <= SumFunctionOnSet(reserved, Runs)
<1>1. reserved \in [Runs -> Nat] /\ spent \in [Runs -> Nat]
  BY CallsAssumption DEF TypeOK
<1>2. DOMAIN reserved = Runs /\ DOMAIN spent = Runs
  BY DEF TypeOK
<1> QED
  BY <1>1, <1>2, SumCovers DEF SumFunction

\* A commit that changes one run's hold and spend, and the day's ledger by as much.
MovesTogether(r, held, charged) ==
    /\ reserved' = [reserved EXCEPT ![r] = @ + held]
    /\ spent' = [spent EXCEPT ![r] = @ + charged]
    /\ dayReserved' = dayReserved + held + charged

\* Such a commit keeps the ledgers in agreement.
LEMMA MovedTogether ==
    ASSUME IsFiniteSet(Runs), TypeOK, TypeOK', LedgersAgree,
           NEW r \in Runs, NEW held \in Int, NEW charged \in Int, MovesTogether(r, held, charged)
    PROVE  LedgersAgree'
<1> DEFINE r1 == reserved'
           s1 == spent'
<1>1. reserved \in [Runs -> Int] /\ spent \in [Runs -> Int]
  BY CallsAssumption DEF TypeOK
<1>2. /\ r1 \in [Runs -> Int] /\ r1[r] = reserved[r] + held
      /\ \A x \in Runs \ {r} : r1[x] = reserved[x]
  BY <1>1 DEF MovesTogether
<1>3. /\ s1 \in [Runs -> Int] /\ s1[r] = spent[r] + charged
      /\ \A x \in Runs \ {r} : s1[x] = spent[x]
  BY <1>1 DEF MovesTogether
<1>4. DOMAIN r1 = Runs /\ DOMAIN s1 = Runs
  BY <1>2, <1>3
<1>5. LedgersAgree' = (dayReserved' = SumFunctionOnSet(r1, Runs) + SumFunctionOnSet(s1, Runs))
  BY <1>4 DEF LedgersAgree, SumFunction
<1> HIDE DEF r1, s1
<1>6. SumFunctionOnSet(r1, Runs) = SumFunctionOnSet(reserved, Runs) - reserved[r] + r1[r]
  BY <1>1, <1>2, SumChanges
<1>7. SumFunctionOnSet(s1, Runs) = SumFunctionOnSet(spent, Runs) - spent[r] + s1[r]
  BY <1>1, <1>3, SumChanges
<1>8. dayReserved = SumFunctionOnSet(reserved, Runs) + SumFunctionOnSet(spent, Runs)
  BY LedgerSums DEF LedgersAgree
<1>9. /\ SumFunctionOnSet(reserved, Runs) \in Int /\ SumFunctionOnSet(spent, Runs) \in Int
      /\ reserved[r] \in Int /\ spent[r] \in Int
  BY <1>1, LedgerSums
<1>10. dayReserved' = dayReserved + held + charged
  BY DEF MovesTogether
<1>11. dayReserved' = SumFunctionOnSet(r1, Runs) + SumFunctionOnSet(s1, Runs)
  BY <1>2, <1>3, <1>6, <1>7, <1>8, <1>9, <1>10
<1> QED
  BY <1>5, <1>11

\* Most steps leave both ledgers alone.
LEMMA QuietLedgers ==
    ASSUME TypeOK, today = day, NEW w \in Workers, Attempt(w) \/ Crash(w),
           ~ConvertStale(w), ~Reserve(w), ~Settle(w)
    PROVE  UNCHANGED <<reserved, spent, dayReserved>>
<1> USE DEF runLedger, dayLedger
<1>1. CASE FetchOk(w)
  BY <1>1 DEF FetchOk
<1>2. CASE EnterStage(w)
  BY <1>2 DEF EnterStage
<1>3. CASE SelectStale(w)
  BY <1>3 DEF SelectStale
<1>4. CASE AbandonStale(w)
  BY <1>4 DEF AbandonStale
<1>5. CASE Guard(w)
  BY <1>5 DEF Guard
<1>6. CASE Preflight(w)
  BY <1>6 DEF Preflight, DayBase
<1>7. CASE CommitStage(w)
  BY <1>7 DEF CommitStage
<1>8. CASE CompleteStage(w)
  BY <1>8 DEF CompleteStage
<1>9. CASE \E k \in Keys : Lookup(w, k)
  BY <1>9 DEF Lookup
<1>10. CASE Refused(w)
  BY <1>10 DEF Refused, Stop
<1>11. CASE TakeSlot(w)
  BY <1>11 DEF TakeSlot
<1>12. CASE \E c \in Costs : Answer(w, c)
  BY <1>12 DEF Answer
<1>13. CASE \E c \in Costs \cup {0} : CallFails(w, c)
  BY <1>13 DEF CallFails
<1>14. CASE Refresh(w)
  BY <1>14 DEF Refresh
<1>15. CASE CommitResult(w)
  BY <1>15 DEF CommitResult
<1>16. CASE Crash(w)
  BY <1>16 DEF Crash
<1> QED
  BY <1>1, <1>2, <1>3, <1>4, <1>5, <1>6, <1>7, <1>8, <1>9, <1>10, <1>11, <1>12, <1>13, <1>14, <1>15, <1>16
     DEF Attempt, Pay

\* A reservation adds its worst case to both ledgers.
LEMMA LedgersReserve ==
    ASSUME IsFiniteSet(Runs), TypeOK, TypeOK', LocalInv, LedgersAgree, today = day,
           NEW w \in Workers, Reserve(w)
    PROVE  LedgersAgree'
<1>1. Run(w) \in Runs
  BY CallsAssumption DEF Reserve, LocalInv, Run
<1>2. spent' = [spent EXCEPT ![Run(w)] = @ + 0]
  BY <1>1 DEF Reserve, TypeOK
<1>3. dayReserved \in Nat /\ Worst \in Nat
  BY CallsAssumption DEF TypeOK
<1>4. reserved' = [reserved EXCEPT ![Run(w)] = @ + Worst] /\ dayReserved' = dayReserved + Worst
  BY DEF Reserve, Hold, DayBase
<1>5. dayReserved' = dayReserved + Worst + 0
  BY <1>3, <1>4
<1>6. MovesTogether(Run(w), Worst, 0)
  BY <1>2, <1>4, <1>5 DEF MovesTogether
<1> QED
  BY <1>1, <1>6, MovedTogether, CallsAssumption

\* The calls a recovery converts are owed, so their hold is there to give up.
LEMMA LedgersConvert ==
    ASSUME IsFiniteSet(Runs), TypeOK, TypeOK', LocalInv, OwnerInv, RecoveryInv, HoldInv, LedgersAgree,
           NEW w \in Workers, ConvertStale(w)
    PROVE  LedgersAgree'
<1> DEFINE n == Cardinality(stale[w])
<1>1. /\ cur[w] \in Jobs /\ Run(w) \in Runs /\ stale[w] \subseteq CallsOf(cur[w])
      /\ pc[w] = "convert"
  BY CallsAssumption DEF ConvertStale, LocalInv, RecoveryInv, Recovers, Run
<1>2. stale[w] \subseteq Owed(Run(w))
  BY <1>1, CallsAssumption DEF Owed, Converting, CallsOfRun, CallsOf, Run
<1>3. n \in Nat /\ Cardinality(Owed(Run(w))) \in Nat /\ n <= Cardinality(Owed(Run(w)))
  BY <1>1, <1>2, OwedFinite, OwedType
<1> HIDE DEF n
<1>4. Worst * n <= Worst * Cardinality(Owed(Run(w)))
      /\ Worst * n \in Nat /\ Worst * Cardinality(Owed(Run(w))) \in Nat
  BY <1>3, WorstOfFewer
<1>5. n * Worst = Worst * n
  BY <1>3, CallsAssumption
<1>6. reserved[Run(w)] >= Worst * Cardinality(Owed(Run(w))) /\ reserved[Run(w)] \in Nat
  BY <1>1 DEF HoldInv, TypeOK
<1>7. NotBelowZero(reserved[Run(w)] - n * Worst) = reserved[Run(w)] + (0 - n * Worst)
  BY <1>4, <1>5, <1>6 DEF NotBelowZero
<1>8. /\ reserved' = [reserved EXCEPT ![Run(w)] = NotBelowZero(reserved[Run(w)] - n * Worst)]
      /\ spent' = [spent EXCEPT ![Run(w)] = @ + n * Worst]
      /\ UNCHANGED dayReserved
  BY DEF ConvertStale, Convert, dayLedger, n
<1>9. n * Worst \in Nat /\ dayReserved \in Nat
  BY <1>4, <1>5, CallsAssumption DEF TypeOK
<1>10. dayReserved' = dayReserved + (0 - n * Worst) + n * Worst
  BY <1>8, <1>9
<1>11. MovesTogether(Run(w), 0 - n * Worst, n * Worst)
  BY <1>7, <1>8, <1>10 DEF MovesTogether
<1>12. 0 - n * Worst \in Int /\ n * Worst \in Int
  BY <1>9
<1> QED
  BY <1>1, <1>11, <1>12, MovedTogether

\* The call that settles is owed: its worst case is there, in both ledgers.
LEMMA LedgersSettle ==
    ASSUME IsFiniteSet(Runs), TypeOK, TypeOK', LocalInv, RecoveryInv, HoldInv, LedgersAgree, today = day,
           NEW w \in Workers, Settle(w)
    PROVE  LedgersAgree'
<1> DEFINE r == Run(w)
<1>1. /\ key[w] \in Keys /\ JobOf[key[w]] = cur[w] /\ r \in Runs
      /\ row[key[w]] = "committed"
  BY CallsAssumption DEF Settle, LocalInv, HasKey, RecoveryInv, Recovers, Run
<1>2. key[w] \in Owed(r)
  BY <1>1 DEF Owed, Outstanding, CallsOfRun, Run
<1>3. cost[w] \in Nat /\ cost[w] <= Worst /\ Worst \in Nat
  <2>1. cost[w] \in Costs \cup {0}
    BY DEF TypeOK
  <2>2. Worst \in Nat /\ \A c \in Costs : c \in 0..Worst
    BY CallsAssumption
  <2> QED
    BY <2>1, <2>2
<1>4. /\ reserved' = [reserved EXCEPT ![r] = NotBelowZero(@ - Worst)]
      /\ spent' = [spent EXCEPT ![r] = @ + cost[w]]
      /\ dayReserved' = NotBelowZero(dayReserved - (Worst - cost[w]))
  BY DEF Settle, Reconcile
<1> HIDE DEF r
<1>5. Worst <= reserved[r] /\ reserved[r] \in Nat
  <2>1. Cardinality({key[w]}) = 1
    BY FS_Singleton
  <2>2. {key[w]} \subseteq Owed(r)
    BY <1>2
  <2>3. 1 <= Cardinality(Owed(r)) /\ Cardinality(Owed(r)) \in Nat
    BY <1>1, <2>1, <2>2, OwedFinite, OwedType
  <2>4. /\ Worst * 1 <= Worst * Cardinality(Owed(r))
        /\ Worst * Cardinality(Owed(r)) \in Nat
    BY <2>3, WorstOfFewer
  <2>5. reserved[r] >= Worst * Cardinality(Owed(r)) /\ reserved[r] \in Nat
    BY <1>1 DEF HoldInv, TypeOK
  <2>6. Worst * 1 = Worst
    BY <1>3
  <2> QED
    BY <1>3, <2>4, <2>5, <2>6
<1>6. Worst <= dayReserved /\ dayReserved \in Nat
  <2>1. dayReserved = SumFunctionOnSet(reserved, Runs) + SumFunctionOnSet(spent, Runs)
    BY LedgerSums DEF LedgersAgree
  <2>2. /\ SumFunctionOnSet(reserved, Runs) \in Nat /\ SumFunctionOnSet(spent, Runs) \in Nat
        /\ reserved[r] <= SumFunctionOnSet(reserved, Runs)
    BY <1>1, LedgerSums
  <2> QED
    BY <1>3, <1>5, <2>1, <2>2
<1>7. NotBelowZero(reserved[r] - Worst) = reserved[r] + (0 - Worst)
  BY <1>3, <1>5 DEF NotBelowZero
<1>8. NotBelowZero(dayReserved - (Worst - cost[w])) = dayReserved + (0 - Worst) + cost[w]
  BY <1>3, <1>6 DEF NotBelowZero
<1>9. MovesTogether(r, 0 - Worst, cost[w])
  BY <1>4, <1>7, <1>8 DEF MovesTogether
<1>10. 0 - Worst \in Int /\ cost[w] \in Int
  BY <1>3
<1> QED
  BY <1>1, <1>9, <1>10, MovedTogether

\* Every step keeps the ledgers in agreement.
LEMMA LedgersStep ==
    ASSUME IsFiniteSet(Runs), MaxDays = 0, IInv, IInv', HoldsInv, LedgersAgree, [Next]_vars
    PROVE  LedgersAgree'
<1>1. TypeOK /\ TypeOK' /\ LocalInv /\ OwnerInv /\ RecoveryInv /\ HoldInv /\ today = day
  BY DEF IInv, HoldsInv, TypeOK
<1>2. CASE UNCHANGED <<reserved, spent, dayReserved>>
  BY <1>2 DEF LedgersAgree
<1>3. ASSUME NEW w \in Workers, Attempt(w) \/ Crash(w) PROVE LedgersAgree'
  BY <1>1, <1>2, <1>3, QuietLedgers, LedgersReserve, LedgersConvert, LedgersSettle
<1>4. CASE \/ \E w \in Workers, j \in Jobs : Claim(w, j)
           \/ \E j \in Jobs : LeaseExpires(j)
           \/ \E r \in Runs : Kill(r)
           \/ Midnight
           \/ UNCHANGED vars
  BY <1>2, <1>4 DEF Claim, LeaseExpires, Kill, Midnight, vars, runLedger, dayLedger
<1> QED
  BY <1>3, <1>4 DEF Next

\* Within a day, and while no attempt outlasts its lease, the fleet's ledger is what
\* the runs hold and what they have spent: no reservation, conversion or settlement
\* moves one ledger without the other, whatever crashes.
THEOREM LedgersMoveTogether ==
    ASSUME IsFiniteSet(Runs), SlowAt = {}, MaxDays = 0
    PROVE  Spec => []LedgersAgree
<1>1. Init => HoldsInv
  BY HoldsInit
<1>2. IInv /\ IInv' /\ HoldsInv /\ [Next]_vars => HoldsInv'
  BY HoldsStep
<1>3. Init => LedgersAgree
  <2> SUFFICES ASSUME Init PROVE LedgersAgree
    OBVIOUS
  <2>1. /\ reserved \in [Runs -> Int] /\ \A r \in Runs : reserved[r] = 0
        /\ spent \in [Runs -> Int] /\ \A r \in Runs : spent[r] = 0
        /\ DOMAIN reserved = Runs /\ DOMAIN spent = Runs
    BY DEF Init
  <2>2. SumFunctionOnSet(reserved, Runs) = 0 /\ SumFunctionOnSet(spent, Runs) = 0
    BY <2>1, SumOfZeros
  <2> QED
    BY <2>1, <2>2 DEF LedgersAgree, SumFunction, Init
<1>4. IInv /\ IInv' /\ HoldsInv /\ LedgersAgree /\ [Next]_vars => LedgersAgree'
  BY LedgersStep
<1> QED
  BY <1>1, <1>2, <1>3, <1>4, CallsInvariance, PTL DEF Spec

-----------------------------------------------------------------------------
(* What the provider charged: with deaths, expired leases and survived     *)
(* failures anywhere.                                                      *)

\* Whoever makes calls owns the job: a claim waits for the lock of its row.
Owns(w) == pc[w] \in Guarded => owner[cur[w]] = w

\* The owner has resolved what it found pending; what is pending since is the call
\* in hand, or one whose failure it survived.
Resolved(w) == \A k \in Keys :
    pc[w] # "idle" /\ JobOf[k] = cur[w] /\ owner[cur[w]] = w /\ row[k] = "pending" =>
        \/ pc[w] \in {"fetch", "enter", "resolve"}
        \/ pc[w] = "abandon" /\ k \in stale[w]
        \/ pc[w] \in InHand /\ k = key[w]
        \/ pc[w] \in Guarded \cup {"complete"} /\ k \notin todo[w]

CourseInv == \A w \in Workers : Owns(w) /\ Resolved(w)

-----------------------------------------------------------------------------
(* One step of a worker, as the others see it.                             *)

Apart(w) ==
    /\ UNCHANGED owner
    /\ \A x \in Workers \ {w} :
        /\ pc'[x] = pc[x] /\ cur'[x] = cur[x] /\ todo'[x] = todo[x]
        /\ key'[x] = key[x] /\ stale'[x] = stale[x] /\ cost'[x] = cost[x]
    /\ \A k \in Keys : row[k] # "pending" /\ row'[k] = "pending" =>
            pc[w] \in Guarded /\ JobOf[k] = cur[w]

\* Every step of an attempt is such a step.
LEMMA AttemptIsApart ==
    ASSUME TypeOK, LocalInv, NEW w \in Workers, Attempt(w) \/ Crash(w)
    PROVE  Apart(w)
<1> USE CallsAssumption DEF TypeOK, LocalInv, Apart, HasKey, InHand, Guarded,
        Leave, Finish, Goto, rowVars, jobVars, localVars
<1>1. CASE FetchOk(w)
  BY <1>1 DEF FetchOk
<1>2. CASE EnterStage(w)
  BY <1>2 DEF EnterStage
<1>3. CASE SelectStale(w)
  BY <1>3 DEF SelectStale
<1>4. CASE AbandonStale(w)
  BY <1>4 DEF AbandonStale
<1>5. CASE ConvertStale(w)
  BY <1>5 DEF ConvertStale
<1>6. CASE Guard(w)
  BY <1>6 DEF Guard
<1>7. CASE Preflight(w)
  BY <1>7 DEF Preflight
<1>8. CASE CommitStage(w)
  BY <1>8 DEF CommitStage
<1>9. CASE CompleteStage(w)
  BY <1>9 DEF CompleteStage
<1>10. CASE \E k \in Keys : Lookup(w, k)
  BY <1>10 DEF Lookup
<1>11. CASE Reserve(w)
  BY <1>11 DEF Reserve
<1>12. CASE Refused(w)
  BY <1>12 DEF Refused, Stop
<1>13. CASE TakeSlot(w)
  BY <1>13 DEF TakeSlot
<1>14. CASE \E c \in Costs : Answer(w, c)
  BY <1>14 DEF Answer
<1>15. CASE \E c \in Costs \cup {0} : CallFails(w, c)
  BY <1>15 DEF CallFails, Answered
<1>16. CASE Refresh(w)
  BY <1>16 DEF Refresh, Answered
<1>17. CASE CommitResult(w)
  BY <1>17 DEF CommitResult
<1>18. CASE Settle(w)
  BY <1>18 DEF Settle, Answered
<1>19. CASE Crash(w)
  BY <1>19 DEF Crash
<1> QED
  BY <1>1, <1>2, <1>3, <1>4, <1>5, <1>6, <1>7, <1>8, <1>9, <1>10, <1>11, <1>12, <1>13, <1>14, <1>15,
     <1>16, <1>17, <1>18, <1>19 DEF Attempt, Pay

\* An owner that makes calls has passed a guard, and a claim has not passed since.
LEMMA OwnsStep ==
    ASSUME TypeOK, LocalInv, CourseInv, NEW w \in Workers, Attempt(w) \/ Crash(w)
    PROVE  Owns(w)'
<1> USE CallsAssumption DEF TypeOK, LocalInv, CourseInv, Leave, Finish, Goto, rowVars,
        jobVars, localVars, Owns, Guarded
<1>1. CASE FetchOk(w)
  BY <1>1 DEF FetchOk
<1>2. CASE EnterStage(w)
  BY <1>2 DEF EnterStage
<1>3. CASE SelectStale(w)
  BY <1>3 DEF SelectStale
<1>4. CASE AbandonStale(w)
  BY <1>4 DEF AbandonStale
<1>5. CASE ConvertStale(w)
  BY <1>5 DEF ConvertStale
<1>6. CASE Guard(w)
  BY <1>6 DEF Guard
<1>7. CASE Preflight(w)
  BY <1>7 DEF Preflight
<1>8. CASE CommitStage(w)
  BY <1>8 DEF CommitStage
<1>9. CASE CompleteStage(w)
  BY <1>9 DEF CompleteStage
<1>10. CASE \E k \in Keys : Lookup(w, k)
  BY <1>10 DEF Lookup
<1>11. CASE Reserve(w)
  BY <1>11 DEF Reserve
<1>12. CASE Refused(w)
  BY <1>12 DEF Refused, Stop
<1>13. CASE TakeSlot(w)
  BY <1>13 DEF TakeSlot
<1>14. CASE \E c \in Costs : Answer(w, c)
  BY <1>14 DEF Answer
<1>15. CASE \E c \in Costs \cup {0} : CallFails(w, c)
  BY <1>15 DEF CallFails, Answered
<1>16. CASE Refresh(w)
  BY <1>16 DEF Refresh, Answered
<1>17. CASE CommitResult(w)
  BY <1>17 DEF CommitResult
<1>18. CASE Settle(w)
  BY <1>18 DEF Settle, Answered
<1>19. CASE Crash(w)
  BY <1>19 DEF Crash
<1> QED
  BY <1>1, <1>2, <1>3, <1>4, <1>5, <1>6, <1>7, <1>8, <1>9, <1>10, <1>11, <1>12, <1>13, <1>14, <1>15,
     <1>16, <1>17, <1>18, <1>19 DEF Attempt, Pay

\* A recovery empties what was pending; afterwards a call is pending while in hand.
LEMMA ResolvedStep ==
    ASSUME TypeOK, LocalInv, Exclusive, Unrecorded, CourseInv, NEW w \in Workers, Attempt(w) \/ Crash(w)
    PROVE  Resolved(w)'
<1> USE CallsAssumption DEF TypeOK, LocalInv, CourseInv, Leave, Finish, Goto, rowVars,
        jobVars, localVars, Resolved, Guarded, HasKey, InHand, CallsOf
<1>1. CASE FetchOk(w)
  BY <1>1 DEF FetchOk
<1>2. CASE EnterStage(w)
  BY <1>2 DEF EnterStage
<1>3. CASE SelectStale(w)
  BY <1>3 DEF SelectStale
<1>4. CASE AbandonStale(w)
  BY <1>4 DEF AbandonStale
<1>5. CASE ConvertStale(w)
  BY <1>5 DEF ConvertStale
<1>6. CASE Guard(w)
  BY <1>6 DEF Guard
<1>7. CASE Preflight(w)
  BY <1>7 DEF Preflight
<1>8. CASE CommitStage(w)
  BY <1>8 DEF CommitStage
<1>9. CASE CompleteStage(w)
  BY <1>9 DEF CompleteStage
<1>10. CASE \E k \in Keys : Lookup(w, k)
  BY <1>10 DEF Lookup
<1>11. CASE Reserve(w)
  BY <1>11 DEF Reserve
<1>12. CASE Refused(w)
  BY <1>12 DEF Refused, Stop
<1>13. CASE TakeSlot(w)
  BY <1>13 DEF TakeSlot
<1>14. ASSUME NEW c \in Costs, Answer(w, c) PROVE Resolved(w)'
  <2>1. /\ UNCHANGED <<row, owner, cur, todo, key, stale>>
        /\ pc[w] = "call" /\ pc'[w] = "refresh"
    BY <1>14 DEF Answer
  <2> QED
    BY <2>1
<1>15. ASSUME NEW c \in Costs \cup {0}, CallFails(w, c) PROVE Resolved(w)'
  <2>1. pc[w] = "call" /\ UNCHANGED <<row, owner>>
    BY <1>15 DEF CallFails
  <2>2. CASE Leave(w)
    BY <2>2
  <2>3. CASE Answered(w)
    <3>1. pc'[w] = "next" /\ cur' = cur /\ todo'[w] = todo[w] \ {key[w]}
      BY <2>3 DEF Answered
    <3> QED
      BY <2>1, <3>1
  <2> QED
    BY <1>15, <2>2, <2>3 DEF CallFails
<1>16. CASE Refresh(w)
  BY <1>16 DEF Refresh, Answered
<1>17. CASE CommitResult(w)
  BY <1>17 DEF CommitResult
<1>18. CASE Settle(w)
  BY <1>18 DEF Settle, Answered
<1>19. CASE Crash(w)
  BY <1>19 DEF Crash
<1> QED
  BY <1>1, <1>2, <1>3, <1>4, <1>5, <1>6, <1>7, <1>8, <1>9, <1>10, <1>11, <1>12, <1>13, <1>14, <1>15,
     <1>16, <1>17, <1>18, <1>19 DEF Attempt, Pay

\* Every step keeps to the course.
LEMMA CourseStep == ASSUME IInv, IInv', CourseInv, [Next]_vars PROVE CourseInv'
<1> USE DEF IInv
<1>1. ASSUME NEW w \in Workers, Attempt(w) \/ Crash(w), NEW x \in Workers PROVE Owns(x)' /\ Resolved(x)'
  <2>1. CASE x = w
    BY <1>1, <2>1, OwnsStep, ResolvedStep
  <2>2. CASE x # w
    <3>1. Apart(w)
      BY <1>1, AttemptIsApart
    <3>2. Owns(x)'
      BY <2>2, <3>1 DEF CourseInv, Apart, Owns
    <3>3. ASSUME NEW k \in Keys, pc[x] # "idle", JobOf[k] = cur[x], owner[cur[x]] = x, row'[k] = "pending"
          PROVE  row[k] = "pending"
      BY <2>2, <3>1, <3>3 DEF CourseInv, Owns, Apart
    <3>4. Resolved(x)'
      BY <2>2, <3>1, <3>3 DEF CourseInv, Apart, Resolved
    <3> QED
      BY <3>2, <3>4
  <2> QED
    BY <2>1, <2>2
<1>2. ASSUME NEW w \in Workers, NEW j \in Jobs, Claim(w, j), NEW x \in Workers PROVE Owns(x)' /\ Resolved(x)'
  <2>1. CASE x = w
    <3>1. pc'[x] = "fetch"
      BY <1>2, <2>1 DEF Claim, Goto, TypeOK
    <3> QED
      BY <3>1 DEF Owns, Resolved, Guarded
  <2>2. CASE x # w
    <3>1. /\ pc'[x] = pc[x] /\ cur'[x] = cur[x] /\ row' = row
          /\ todo' = todo /\ key' = key /\ stale' = stale
          /\ owner' = [owner EXCEPT ![j] = w]
          /\ pc[x] \in Guarded => cur[x] # j
      BY <1>2, <2>2 DEF Claim, Goto, TypeOK, rowVars, JobRowFree
    <3>2. Owns(x)'
      BY <3>1 DEF CourseInv, Owns
    <3>3. owner'[cur[x]] = x /\ pc[x] # "idle" => owner[cur[x]] = x
      BY <2>2, <3>1 DEF LocalInv, TypeOK
    <3>4. Resolved(x)'
      BY <3>1, <3>3 DEF CourseInv, Resolved
    <3> QED
      BY <3>2, <3>4
  <2> QED
    BY <2>1, <2>2
<1>3. CASE \/ \E j \in Jobs : LeaseExpires(j)
           \/ \E r \in Runs : Kill(r)
           \/ Midnight
           \/ UNCHANGED vars
  <2>1. UNCHANGED <<owner, row, pc, cur, todo, key, stale>>
    BY <1>3 DEF LeaseExpires, Kill, Midnight, vars, jobVars, rowVars, localVars
  <2> QED
    BY <2>1 DEF CourseInv, Owns, Resolved
<1> QED
  BY <1>1, <1>2, <1>3 DEF Next, CourseInv

\* Nobody has begun at first.
LEMMA CourseInit == ASSUME Init PROVE CourseInv
  BY DEF Init, CourseInv, Owns, Resolved, Guarded

-----------------------------------------------------------------------------
(* Each call keeps a credit for what the provider may charge, or charged   *)
(* less than was held; the ledgers cover the credits.                      *)

\* While a call is out its credit is the worst case, and then what the worst case
\* leaves over the charge, until the charge is settled.
Backs(c, r) ==
    /\ \A k \in CallsOfRun(r) : row[k] = "committed" => c[k] + actual[k] >= Worst
    /\ \A w \in Workers : pc[w] \in {"slot", "call"} /\ key[w] \in CallsOfRun(r) => c[key[w]] >= Worst
    /\ \A w \in Workers : pc[w] \in {"refresh", "commit", "settle"} /\ key[w] \in CallsOfRun(r) =>
            c[key[w]] + cost[w] >= Worst

Covers(c, r) == paid[r] + SumFunctionOnSet(c, Keys) <= spent[r] + reserved[r]

Backed(r) == \E c \in [Keys -> Nat] : Backs(c, r) /\ Covers(c, r)

MoneyInv == \A r \in Runs : Backed(r)

\* The run's ledger with what it has paid, and with one call's credit changed to n.
Books(r) == spent[r] + reserved[r] - paid[r]
Recredits(c, r, k, n) == Backs([c EXCEPT ![k] = n], r)' /\ Books(r)' >= Books(r) - c[k] + n

\* A charge is a number within the worst case, and so is one on record.
LEMMA ChargeType ==
    ASSUME TypeOK
    PROVE  /\ Worst \in Nat
           /\ \A w \in Workers : cost[w] \in Nat /\ cost[w] <= Worst
           /\ \A k \in Keys : actual[k] \in Nat /\ actual[k] <= Worst
<1>1. Worst \in Nat /\ \A c \in Costs : c \in 0..Worst
  BY CallsAssumption
<1>2. /\ \A w \in Workers : cost[w] \in Costs \cup {0}
      /\ \A k \in Keys : actual[k] \in Costs \cup {0}
  BY DEF TypeOK
<1> QED
  BY <1>1, <1>2

\* The accounts are numbers, before a step and after it.
LEMMA BooksType ==
    ASSUME TypeOK, TypeOK', NEW r \in Runs
    PROVE  /\ reserved[r] \in Nat /\ spent[r] \in Nat /\ paid[r] \in Nat
           /\ reserved'[r] \in Nat /\ spent'[r] \in Nat /\ paid'[r] \in Nat
  BY CallsAssumption DEF TypeOK

\* A step that leaves the credits enough, and the books no worse, leaves a run backed.
LEMMA SameCredit ==
    ASSUME TypeOK, TypeOK', NEW r \in Runs, NEW c \in [Keys -> Nat],
           Covers(c, r), Backs(c, r)', Books(r)' >= Books(r)
    PROVE  Backed(r)'
<1>1. SumFunctionOnSet(c, Keys) \in Nat
  BY SumCovers, CallsAssumption
<1>2. Covers(c, r)'
  BY <1>1, BooksType DEF Covers, Books
<1> QED
  BY <1>2 DEF Backed

\* And so does one that changes the credit of one call as it changes the books.
LEMMA NewCredit ==
    ASSUME TypeOK, TypeOK', NEW r \in Runs, NEW c \in [Keys -> Nat], NEW k \in Keys, NEW n \in Nat,
           Covers(c, r), Recredits(c, r, k, n)
    PROVE  Backed(r)'
<1> DEFINE d == [c EXCEPT ![k] = n]
<1>1. d \in [Keys -> Nat] /\ d[k] = n /\ \A x \in Keys \ {k} : d[x] = c[x]
  OBVIOUS
<1> HIDE DEF d
<1>2. c \in [Keys -> Int] /\ d \in [Keys -> Int] /\ IsFiniteSet(Keys)
  BY <1>1, CallsAssumption
<1>3. SumFunctionOnSet(d, Keys) = SumFunctionOnSet(c, Keys) - c[k] + d[k]
  BY <1>1, <1>2, SumChanges
<1>4. SumFunctionOnSet(c, Keys) \in Nat /\ SumFunctionOnSet(d, Keys) \in Nat /\ c[k] \in Nat
  BY <1>1, <1>2, SumCovers
<1>5. Books(r)' >= Books(r) - c[k] + n
  BY DEF Recredits
<1>6. Covers(d, r)'
  BY <1>1, <1>3, <1>4, <1>5, BooksType DEF Covers, Books
<1>7. Backs(d, r)'
  BY DEF Recredits, d
<1> QED
  BY <1>1, <1>6, <1>7 DEF Backed

-----------------------------------------------------------------------------
(* The steps that move money, and those that do not.                       *)

\* No account moves, and no call is in hand that was not; one that is taken in hand
\* has its answer on record.
Calm(w) ==
    /\ UNCHANGED <<actual, reserved, spent, paid>>
    /\ \A k \in Keys : row'[k] = "committed" => row[k] = "committed"
    /\ pc'[w] \in {"slot", "call"} => pc[w] \in {"slot", "call"} /\ key'[w] = key[w]
    /\ pc'[w] \in {"refresh", "commit", "settle"} =>
        \/ pc[w] \in {"refresh", "commit", "settle"} /\ key'[w] = key[w] /\ cost'[w] = cost[w]
        \/ key'[w] \in Keys /\ row[key'[w]] = "committed" /\ cost'[w] = actual[key'[w]]

\* Every step but six is such a step; that a lookup finds no pending row is what the
\* recovery before it is for.
LEMMA CalmSteps ==
    ASSUME TypeOK, LocalInv, CourseInv, NEW w \in Workers, Attempt(w) \/ Crash(w),
           ~ConvertStale(w), ~Reserve(w), ~CommitResult(w), ~Settle(w),
           ~\E c \in Costs : Answer(w, c), ~\E c \in Costs \cup {0} : CallFails(w, c)
    PROVE  Calm(w)
<1> USE DEF TypeOK, Calm, Leave, Finish, Goto, rowVars, runLedger, outside, localVars
<1>1. CASE FetchOk(w)
  BY <1>1 DEF FetchOk
<1>2. CASE EnterStage(w)
  BY <1>2 DEF EnterStage
<1>3. CASE SelectStale(w)
  BY <1>3 DEF SelectStale
<1>4. CASE Guard(w)
  BY <1>4 DEF Guard
<1>5. CASE Preflight(w)
  BY <1>5 DEF Preflight
<1>6. CASE CommitStage(w)
  BY <1>6 DEF CommitStage
<1>7. CASE CompleteStage(w)
  BY <1>7 DEF CompleteStage
<1>8. ASSUME NEW k \in Keys, Lookup(w, k) PROVE Calm(w)
  <2>1. pc[w] = "next" /\ k \in todo[w] /\ JobOf[k] = cur[w]
    BY <1>8 DEF Lookup, LocalInv
  <2>2. owner[cur[w]] = w
    BY <2>1 DEF CourseInv, Owns, Guarded
  <2>3. row[k] # "pending"
    BY <2>1, <2>2 DEF CourseInv, Resolved, InHand
  <2> QED
    BY <1>8, <2>3 DEF Lookup
<1>9. CASE Refused(w)
  BY <1>9 DEF Refused, Stop
<1>10. CASE TakeSlot(w)
  BY <1>10 DEF TakeSlot
<1>11. CASE Refresh(w)
  BY <1>11 DEF Refresh, Answered
<1>12. CASE Crash(w)
  BY <1>12 DEF Crash
<1>13. CASE AbandonStale(w)
  BY <1>13 DEF AbandonStale
<1> QED
  BY <1>1, <1>2, <1>3, <1>4, <1>5, <1>6, <1>7, <1>8, <1>9, <1>10, <1>11, <1>12, <1>13 DEF Attempt, Pay

\* It leaves the credits as they are.
LEMMA CalmBacks ==
    ASSUME TypeOK, TypeOK', LocalInv, NEW r \in Runs, NEW c \in [Keys -> Nat], Backs(c, r), Covers(c, r),
           NEW w \in Workers, Apart(w), Calm(w)
    PROVE  Backed(r)'
<1>1. \A k \in CallsOfRun(r) : row'[k] = "committed" => c[k] + actual'[k] >= Worst
  BY DEF Calm, Backs, CallsOfRun
<1>2. ASSUME NEW x \in Workers, pc'[x] \in {"slot", "call"}, key'[x] \in CallsOfRun(r)
      PROVE  c[key'[x]] >= Worst
  BY <1>2 DEF Calm, Backs, Apart
<1>3. ASSUME NEW x \in Workers, pc'[x] \in {"refresh", "commit", "settle"}, key'[x] \in CallsOfRun(r)
      PROVE  c[key'[x]] + cost'[x] >= Worst
  BY <1>3 DEF Calm, Backs, Apart
<1>4. Backs(c, r)'
  BY <1>1, <1>2, <1>3 DEF Backs, CallsOfRun
<1>5. Books(r)' >= Books(r)
  BY BooksType DEF Calm, Books
<1> QED
  BY <1>4, <1>5, SameCredit

\* The call in hand is nobody else's, and a change of its row and its credit touches
\* no other call.
Alone(w, k) ==
    /\ k \in Keys
    /\ \A x \in Workers \ {w} : pc[x] \in InHand \cup {"settle"} => key[x] # k
    /\ \A x \in Keys \ {k} : row'[x] = row[x] /\ actual'[x] = actual[x]

\* The lock is what makes it so.
LEMMA HandIsAlone ==
    ASSUME LocalInv, Exclusive, NEW w \in Workers, pc[w] \in HasKey,
           \A x \in Keys \ {key[w]} : row'[x] = row[x] /\ actual'[x] = actual[x]
    PROVE  Alone(w, key[w])
<1>1. key[w] \in Keys /\ JobOf[key[w]] = cur[w] /\ pc[w] \in Guarded
  BY Labels DEF LocalInv
<1>2. ASSUME NEW x \in Workers \ {w}, pc[x] \in InHand \cup {"settle"} PROVE key[x] # key[w]
  <2>1. pc[x] \in HasKey /\ pc[x] \in Guarded
    BY <1>2, Labels DEF HasKey
  <2>2. JobOf[key[x]] = cur[x] /\ cur[x] # cur[w]
    BY <1>1, <2>1 DEF LocalInv, Exclusive
  <2> QED
    BY <1>1, <2>2
<1> QED
  BY <1>1, <1>2 DEF Alone

\* A credit of n is enough for call k after the step.
Enough(w, k, n) ==
    /\ row'[k] = "committed" => n + actual'[k] >= Worst
    /\ pc'[w] \in {"slot", "call"} => key'[w] = k /\ n >= Worst
    /\ pc'[w] \in {"refresh", "commit", "settle"} => key'[w] = k /\ n + cost'[w] >= Worst

\* Credits other than that of the call in hand stay enough.
LEMMA AloneBacks ==
    ASSUME TypeOK, TypeOK', NEW r \in Runs, NEW c \in [Keys -> Nat], Backs(c, r),
           NEW w \in Workers, Apart(w), NEW k \in Keys, Alone(w, k), NEW n \in Nat, Enough(w, k, n)
    PROVE  Backs([c EXCEPT ![k] = n], r)'
<1> DEFINE d == [c EXCEPT ![k] = n]
<1>1. d[k] = n /\ \A x \in Keys \ {k} : d[x] = c[x]
  OBVIOUS
<1> HIDE DEF d
<1>2. ASSUME NEW x \in CallsOfRun(r), row'[x] = "committed" PROVE d[x] + actual'[x] >= Worst
  BY <1>1, <1>2 DEF Enough, Alone, Backs, CallsOfRun
<1>3. ASSUME NEW x \in Workers, pc'[x] \in {"slot", "call"}, key'[x] \in CallsOfRun(r) PROVE d[key'[x]] >= Worst
  BY <1>1, <1>3 DEF Enough, Alone, Backs, CallsOfRun, Apart, InHand
<1>4. ASSUME NEW x \in Workers, pc'[x] \in {"refresh", "commit", "settle"}, key'[x] \in CallsOfRun(r)
      PROVE  d[key'[x]] + cost'[x] >= Worst
  BY <1>1, <1>4 DEF Enough, Alone, Backs, CallsOfRun, Apart, InHand
<1>5. Backs(d, r)'
  BY <1>2, <1>3, <1>4 DEF Backs, CallsOfRun
<1> QED
  BY <1>5 DEF d

\* A recovery that converts its calls spends what it releases, or more.
LEMMA ConvertBacks ==
    ASSUME TypeOK, TypeOK', LocalInv, NEW r \in Runs, NEW c \in [Keys -> Nat], Backs(c, r), Covers(c, r),
           NEW w \in Workers, Apart(w), ConvertStale(w)
    PROVE  Backed(r)'
<1>1. pc[w] = "convert" /\ pc'[w] = "guard" /\ UNCHANGED <<row, actual, paid, key, cost>>
  BY DEF ConvertStale, Goto, TypeOK, rowVars, outside
<1>2. Backs(c, r)'
  <2>1. \A x \in Workers : pc'[x] \in InHand \cup {"settle"} => pc'[x] = pc[x]
    BY <1>1 DEF Apart, InHand
  <2> QED
    BY <1>1, <2>1 DEF Backs, CallsOfRun, InHand
<1>3. Books(r)' >= Books(r)
  <2> DEFINE m == Cardinality(stale[w]) * Worst
  <2>1. m \in Nat
    <3>1. Cardinality(stale[w]) \in Nat
      BY OwedFinite DEF TypeOK
    <3> QED
      BY <3>1, ProductType, CallsAssumption
  <2>2. CASE r = Run(w)
    <3>1. reserved'[r] = NotBelowZero(reserved[r] - m) /\ spent'[r] = spent[r] + m
      BY <2>2 DEF ConvertStale, Convert, TypeOK
    <3> HIDE DEF m
    <3>2. reserved'[r] >= reserved[r] - m
      BY <2>1, <3>1, BooksType DEF NotBelowZero
    <3> QED
      BY <1>1, <2>1, <3>1, <3>2, BooksType DEF Books
  <2>3. CASE r # Run(w)
    <3>1. reserved'[r] = reserved[r] /\ spent'[r] = spent[r]
      BY <2>3 DEF ConvertStale, Convert, TypeOK
    <3> QED
      BY <1>1, <3>1, BooksType DEF Books
  <2> QED
    BY <2>2, <2>3
<1> QED
  BY <1>2, <1>3, SameCredit

\* The call an attempt has in hand is of the run whose ledger it charges.
LEMMA HandRun ==
    ASSUME LocalInv, NEW w \in Workers, pc[w] \in HasKey, NEW r
    PROVE  /\ key[w] \in Keys
           /\ key[w] \in CallsOfRun(r) <=> r = Run(w)
  BY DEF LocalInv, CallsOfRun, Run

\* A step with a call of another run in hand changes nothing of this one.
OtherRun(w, r) ==
    /\ r # Run(w) /\ pc[w] \in HasKey
    /\ pc'[w] \in InHand \cup {"settle"} => key'[w] = key[w]
    /\ reserved'[r] = reserved[r] /\ spent'[r] = spent[r] /\ paid'[r] = paid[r]

LEMMA OtherRunBacks ==
    ASSUME TypeOK, TypeOK', LocalInv, NEW r \in Runs, NEW c \in [Keys -> Nat], Backs(c, r), Covers(c, r),
           NEW w \in Workers, Apart(w), Alone(w, key[w]), OtherRun(w, r)
    PROVE  Backed(r)'
<1>1. key[w] \notin CallsOfRun(r)
  BY HandRun DEF OtherRun
<1>2. \A x \in CallsOfRun(r) : row'[x] = row[x] /\ actual'[x] = actual[x]
  BY <1>1 DEF Alone, CallsOfRun
<1>3. ASSUME NEW x \in Workers, pc'[x] \in InHand \cup {"settle"}, key'[x] \in CallsOfRun(r)
      PROVE  pc[x] = pc'[x] /\ key'[x] = key[x] /\ cost'[x] = cost[x]
  BY <1>1, <1>3 DEF OtherRun, Apart
<1>4. Backs(c, r)'
  BY <1>2, <1>3 DEF Backs, CallsOfRun, InHand
<1>5. Books(r)' >= Books(r)
  BY BooksType DEF OtherRun, Books
<1> QED
  BY <1>4, <1>5, SameCredit

\* A step that touches no account and takes no call in hand.
LEMMA StillBacks ==
    ASSUME TypeOK, TypeOK', NEW r \in Runs, NEW c \in [Keys -> Nat], Backs(c, r), Covers(c, r),
           UNCHANGED <<row, actual, reserved, spent, paid, key, cost>>,
           \A x \in Workers : pc'[x] \in InHand \cup {"settle"} => pc'[x] = pc[x]
    PROVE  Backed(r)'
<1>1. Backs(c, r)'
  BY DEF Backs, CallsOfRun, InHand
<1>2. Books(r)' >= Books(r)
  BY BooksType DEF Books
<1> QED
  BY <1>1, <1>2, SameCredit

\* A reservation gives its call the worst case as credit.
LEMMA ReserveBacks ==
    ASSUME TypeOK, TypeOK', LocalInv, Exclusive, NEW r \in Runs, NEW c \in [Keys -> Nat],
           Backs(c, r), Covers(c, r), NEW w \in Workers, Apart(w), Reserve(w)
    PROVE  Backed(r)'
<1>1. /\ pc[w] = "reserve" /\ pc'[w] = "slot" /\ key' = key /\ UNCHANGED <<actual, spent, paid>>
      /\ row' = [row EXCEPT ![key[w]] = "pending"]
  BY DEF Reserve, Goto, TypeOK, localVars
<1>2. pc[w] \in HasKey
  BY <1>1 DEF HasKey
<1>3. PICK k \in Keys : k = key[w]
  BY <1>2, HandRun
<1>4. Alone(w, k)
  BY <1>1, <1>2, <1>3, HandIsAlone DEF TypeOK
<1>5. row'[k] = "pending" /\ Worst \in Nat
  BY <1>1, <1>3, CallsAssumption DEF TypeOK
<1>6. CASE r = Run(w)
  <2>1. reserved'[r] = reserved[r] + Worst
    BY <1>6 DEF Reserve, Hold, TypeOK
  <2>2. Books(r)' >= Books(r) - c[k] + Worst
    <3>1. c[k] \in Nat
      BY <1>3
    <3> QED
      BY <1>1, <1>5, <2>1, <3>1, BooksType DEF Books
  <2>3. Backs([c EXCEPT ![k] = Worst], r)'
    <3>1. Enough(w, k, Worst)
      BY <1>1, <1>3, <1>4, <1>5 DEF Enough, InHand
    <3>2. Alone(w, k) /\ Worst \in Nat
      BY <1>1, <1>3, <1>4, <1>5
    <3> QED
      BY <3>1, <3>2, AloneBacks
  <2>4. Recredits(c, r, k, Worst)
    BY <1>3, <1>5, <2>2, <2>3 DEF Recredits
  <2>5. Worst \in Nat
    BY <1>3, <1>5, <2>2, <2>3
  <2> QED
    BY <2>4, <2>5, NewCredit
<1>7. CASE r # Run(w)
  <2>1. OtherRun(w, r)
    BY <1>1, <1>2, <1>7 DEF OtherRun, Reserve, Hold, TypeOK
  <2> QED
    BY <1>3, <1>4, <2>1, OtherRunBacks
<1> QED
  BY <1>6, <1>7

\* An answer is paid from the credit of its call.
LEMMA AnswerBacks ==
    ASSUME TypeOK, TypeOK', LocalInv, Exclusive, Unrecorded, NEW r \in Runs, NEW c \in [Keys -> Nat],
           Backs(c, r), Covers(c, r), NEW w \in Workers, Apart(w), NEW a \in Costs, Answer(w, a)
    PROVE  Backed(r)'
<1>1. /\ pc[w] = "call" /\ pc'[w] = "refresh" /\ key' = key /\ cost'[w] = a
      /\ UNCHANGED <<row, actual, spent, reserved>>
      /\ paid' = [paid EXCEPT ![Run(w)] = @ + a]
  BY DEF Answer, Goto, TypeOK, rowVars, runLedger
<1>2. pc[w] \in HasKey
  BY <1>1 DEF HasKey, InHand
<1>3. PICK k \in Keys : k = key[w] /\ row[k] # "committed"
  BY <1>1, <1>2, HandRun DEF Unrecorded
<1>4. Alone(w, k)
  BY <1>1, <1>2, <1>3, HandIsAlone
<1>5. Worst \in Nat /\ a \in Nat /\ a <= Worst
  BY CallsAssumption
<1>6. CASE r = Run(w)
  <2>1. c[k] \in Nat /\ c[k] >= Worst
    BY <1>1, <1>2, <1>3, <1>6, HandRun DEF Backs
  <2>2. Worst - a \in Nat /\ (Worst - a) + a >= Worst
    BY <1>5
  <2>3. paid'[r] = paid[r] + a
    BY <1>1, <1>6 DEF TypeOK
  <2>4. Books(r)' >= Books(r) - c[k] + (Worst - a)
    BY <1>1, <1>5, <2>1, <2>3, BooksType DEF Books
  <2>5. Backs([c EXCEPT ![k] = Worst - a], r)'
    <3>1. Enough(w, k, Worst - a)
      BY <1>1, <1>3, <1>4, <2>2 DEF Enough, InHand
    <3>2. Alone(w, k) /\ (Worst - a) \in Nat
      BY <1>1, <1>3, <1>4, <2>2
    <3> QED
      BY <3>1, <3>2, AloneBacks
  <2>6. Recredits(c, r, k, Worst - a)
    BY <1>3, <2>2, <2>4, <2>5 DEF Recredits
  <2>7. k \in Keys /\ (Worst - a) \in Nat
    BY <1>3, <2>2, <2>4, <2>5
  <2> QED
    BY <2>6, <2>7, NewCredit
<1>7. CASE r # Run(w)
  <2>1. OtherRun(w, r)
    BY <1>1, <1>2, <1>7 DEF OtherRun, TypeOK
  <2> QED
    BY <1>3, <1>4, <2>1, OtherRunBacks
<1> QED
  BY <1>6, <1>7

\* So is the charge for an answer that was lost; its reservation stays.
LEMMA FailureBacks ==
    ASSUME TypeOK, TypeOK', LocalInv, Exclusive, Unrecorded, NEW r \in Runs, NEW c \in [Keys -> Nat],
           Backs(c, r), Covers(c, r), NEW w \in Workers, Apart(w), NEW a \in Costs \cup {0}, CallFails(w, a)
    PROVE  Backed(r)'
<1>1. /\ pc[w] = "call" /\ pc'[w] \notin InHand \cup {"settle"}
      /\ UNCHANGED <<row, actual, spent, reserved>>
      /\ paid' = [paid EXCEPT ![Run(w)] = @ + a]
  BY DEF CallFails, Answered, Finish, Leave, Goto, TypeOK, rowVars, runLedger, InHand
<1>2. pc[w] \in HasKey
  BY <1>1 DEF HasKey, InHand
<1>3. PICK k \in Keys : k = key[w] /\ row[k] # "committed"
  BY <1>1, <1>2, HandRun DEF Unrecorded
<1>4. Alone(w, k)
  BY <1>1, <1>2, <1>3, HandIsAlone
<1>5. Worst \in Nat /\ a \in Nat /\ a <= Worst
  BY CallsAssumption
<1>6. CASE r = Run(w)
  <2>1. c[k] \in Nat /\ c[k] >= Worst
    BY <1>1, <1>2, <1>3, <1>6, HandRun DEF Backs
  <2>2. paid'[r] = paid[r] + a
    BY <1>1, <1>6 DEF TypeOK
  <2>3. Books(r)' >= Books(r) - c[k] + 0
    BY <1>1, <1>5, <2>1, <2>2, BooksType DEF Books
  <2>4. Backs([c EXCEPT ![k] = 0], r)'
    <3>1. Enough(w, k, 0)
      BY <1>1, <1>3, <1>4 DEF Enough, InHand
    <3>2. Alone(w, k) /\ 0 \in Nat
      BY <1>1, <1>3, <1>4
    <3> QED
      BY <3>1, <3>2, AloneBacks
  <2>5. Recredits(c, r, k, 0)
    BY <1>3, <2>3, <2>4 DEF Recredits
  <2>6. k \in Keys /\ 0 \in Nat
    BY <1>3, <2>3, <2>4
  <2> QED
    BY <2>5, <2>6, NewCredit
<1>7. CASE r # Run(w)
  <2>1. OtherRun(w, r)
    BY <1>1, <1>2, <1>7 DEF OtherRun, TypeOK
  <2> QED
    BY <1>3, <1>4, <2>1, OtherRunBacks
<1> QED
  BY <1>6, <1>7

\* A recorded answer keeps the credit of its call.
LEMMA CommitBacks ==
    ASSUME TypeOK, TypeOK', LocalInv, Exclusive, NEW r \in Runs, NEW c \in [Keys -> Nat],
           Backs(c, r), Covers(c, r), NEW w \in Workers, Apart(w), CommitResult(w)
    PROVE  Backed(r)'
<1>1. /\ pc[w] = "commit" /\ pc'[w] = "settle" /\ key' = key /\ cost' = cost
      /\ UNCHANGED <<spent, reserved, paid>>
      /\ row' = [row EXCEPT ![key[w]] = "committed"]
      /\ actual' = [actual EXCEPT ![key[w]] = cost[w]]
  BY DEF CommitResult, Goto, TypeOK, runLedger, outside, localVars
<1>2. pc[w] \in HasKey
  BY <1>1 DEF HasKey, InHand
<1>3. PICK k \in Keys : k = key[w]
  BY <1>2, HandRun
<1>4. Alone(w, k)
  BY <1>1, <1>2, <1>3, HandIsAlone DEF TypeOK
<1>5. CASE r = Run(w)
  <2>1. c[k] \in Nat /\ c[k] + cost[w] >= Worst
    BY <1>1, <1>2, <1>3, <1>5, HandRun DEF Backs
  <2>2. actual'[k] = cost[w] /\ cost'[w] = cost[w]
    BY <1>1, <1>3 DEF TypeOK
  <2>3. Backs([c EXCEPT ![k] = c[k]], r)'
    <3>1. Enough(w, k, c[k])
      BY <1>1, <1>3, <1>4, <2>1, <2>2 DEF Enough, InHand
    <3>2. Alone(w, k) /\ c[k] \in Nat
      BY <1>1, <1>3, <1>4, <2>1, <2>2
    <3> QED
      BY <3>1, <3>2, AloneBacks
  <2>4. Books(r)' >= Books(r) - c[k] + c[k]
    BY <1>1, <2>1, BooksType DEF Books
  <2>5. Recredits(c, r, k, c[k])
    BY <1>3, <2>1, <2>3, <2>4 DEF Recredits
  <2>6. k \in Keys /\ c[k] \in Nat
    BY <1>3, <2>1, <2>3, <2>4
  <2> QED
    BY <2>5, <2>6, NewCredit
<1>6. CASE r # Run(w)
  <2>1. OtherRun(w, r)
    BY <1>1, <1>2, <1>6 DEF OtherRun, TypeOK
  <2> QED
    BY <1>3, <1>4, <2>1, OtherRunBacks
<1> QED
  BY <1>5, <1>6

\* A settlement releases what the credit of its call and the charge add up to.
LEMMA SettleBacks ==
    ASSUME TypeOK, TypeOK', LocalInv, Exclusive, NEW r \in Runs, NEW c \in [Keys -> Nat],
           Backs(c, r), Covers(c, r), NEW w \in Workers, Apart(w), Settle(w)
    PROVE  Backed(r)'
<1>1. /\ pc[w] = "settle" /\ pc'[w] = "next" /\ UNCHANGED <<actual, paid>>
      /\ row' = [row EXCEPT ![key[w]] = "reconciled"]
      /\ reserved' = [reserved EXCEPT ![Run(w)] = NotBelowZero(@ - Worst)]
      /\ spent' = [spent EXCEPT ![Run(w)] = @ + cost[w]]
  BY DEF Settle, Reconcile, Answered, Goto, TypeOK, outside
<1>2. pc[w] \in HasKey
  BY <1>1 DEF HasKey
<1>3. PICK k \in Keys : k = key[w]
  BY <1>2, HandRun
<1>4. Alone(w, k)
  BY <1>1, <1>2, <1>3, HandIsAlone DEF TypeOK
<1>5. row'[k] = "reconciled"
  BY <1>1, <1>3 DEF TypeOK
<1>6. CASE r = Run(w)
  <2>1. c[k] \in Nat /\ c[k] + cost[w] >= Worst
    BY <1>1, <1>2, <1>3, <1>6, HandRun DEF Backs
  <2>2. reserved'[r] = NotBelowZero(reserved[r] - Worst) /\ spent'[r] = spent[r] + cost[w]
    BY <1>1, <1>6 DEF TypeOK
  <2>3. cost[w] \in Nat /\ Worst \in Nat
    BY ChargeType
  <2>4. reserved'[r] >= reserved[r] - Worst
    BY <2>2, <2>3, BooksType DEF NotBelowZero
  <2>5. Books(r)' >= Books(r) - c[k] + 0
    BY <1>1, <2>1, <2>2, <2>3, <2>4, BooksType DEF Books
  <2>6. Backs([c EXCEPT ![k] = 0], r)'
    <3>1. Enough(w, k, 0)
      BY <1>1, <1>3, <1>4, <1>5 DEF Enough, InHand
    <3>2. Alone(w, k) /\ 0 \in Nat
      BY <1>1, <1>3, <1>4, <1>5
    <3> QED
      BY <3>1, <3>2, AloneBacks
  <2>7. Recredits(c, r, k, 0)
    BY <1>3, <2>5, <2>6 DEF Recredits
  <2>8. k \in Keys /\ 0 \in Nat
    BY <1>3, <2>5, <2>6
  <2> QED
    BY <2>7, <2>8, NewCredit
<1>7. CASE r # Run(w)
  <2>1. reserved'[r] = reserved[r] /\ spent'[r] = spent[r] /\ paid'[r] = paid[r]
    BY <1>1, <1>7 DEF TypeOK
  <2>2. OtherRun(w, r)
    BY <1>1, <1>2, <1>7, <2>1 DEF OtherRun, InHand
  <2> QED
    BY <1>3, <1>4, <2>2, OtherRunBacks
<1> QED
  BY <1>6, <1>7

-----------------------------------------------------------------------------

\* Every step leaves every run backed.
LEMMA MoneyStep == ASSUME IInv, IInv', CourseInv, MoneyInv, [Next]_vars PROVE MoneyInv'
<1> USE DEF IInv
<1> SUFFICES ASSUME NEW r \in Runs PROVE Backed(r)'
  BY DEF MoneyInv
<1> PICK c \in [Keys -> Nat] : Backs(c, r) /\ Covers(c, r)
  BY DEF MoneyInv, Backed
<1>1. ASSUME NEW w \in Workers, Attempt(w) \/ Crash(w) PROVE Backed(r)'
  <2>1. Apart(w)
    BY <1>1, AttemptIsApart
  <2>2. CASE ConvertStale(w)
    BY <2>1, <2>2, ConvertBacks
  <2>3. CASE Reserve(w)
    BY <2>1, <2>3, ReserveBacks
  <2>4. CASE CommitResult(w)
    BY <2>1, <2>4, CommitBacks
  <2>5. CASE Settle(w)
    BY <2>1, <2>5, SettleBacks
  <2>6. CASE \E a \in Costs : Answer(w, a)
    BY <2>1, <2>6, AnswerBacks
  <2>7. CASE \E a \in Costs \cup {0} : CallFails(w, a)
    BY <2>1, <2>7, FailureBacks
  <2>8. CASE /\ ~ConvertStale(w) /\ ~Reserve(w) /\ ~CommitResult(w) /\ ~Settle(w)
             /\ ~\E a \in Costs : Answer(w, a)
             /\ ~\E a \in Costs \cup {0} : CallFails(w, a)
    <3>1. Calm(w)
      BY <1>1, <2>8, CalmSteps
    <3> QED
      BY <2>1, <3>1, CalmBacks
  <2> QED
    BY <2>2, <2>3, <2>4, <2>5, <2>6, <2>7, <2>8
<1>2. ASSUME NEW w \in Workers, NEW j \in Jobs, Claim(w, j) PROVE Backed(r)'
  <2>1. /\ UNCHANGED <<row, actual, reserved, spent, paid, key, cost>>
        /\ \A x \in Workers : pc'[x] \in InHand \cup {"settle"} => pc'[x] = pc[x]
    BY <1>2 DEF Claim, Goto, TypeOK, rowVars, runLedger, outside, InHand
  <2> QED
    BY <2>1, StillBacks
<1>3. CASE \/ \E j \in Jobs : LeaseExpires(j)
           \/ \E q \in Runs : Kill(q)
           \/ Midnight
           \/ UNCHANGED vars
  <2>1. UNCHANGED <<row, actual, reserved, spent, paid, key, cost, pc>>
    BY <1>3 DEF LeaseExpires, Kill, Midnight, vars, rowVars, runLedger, outside, localVars
  <2> QED
    BY <2>1, StillBacks
<1> QED
  BY <1>1, <1>2, <1>3 DEF Next

\* No call has any credit at first, and none is out.
LEMMA MoneyInit == ASSUME Init PROVE MoneyInv
<1> SUFFICES ASSUME NEW r \in Runs PROVE Backed(r)
  BY DEF MoneyInv
<1> DEFINE c == [k \in Keys |-> 0]
<1>1. c \in [Keys -> Nat] /\ c \in [Keys -> Int] /\ \A k \in Keys : c[k] = 0
  OBVIOUS
<1> HIDE DEF c
<1>2. SumFunctionOnSet(c, Keys) = 0
  BY <1>1, SumOfZeros, CallsAssumption
<1>3. Covers(c, r)
  BY <1>2 DEF Init, Covers
<1>4. Backs(c, r)
  BY DEF Init, Backs, CallsOfRun
<1> QED
  BY <1>1, <1>3, <1>4 DEF Backed

\* What the provider charged a run, lost answers included, is spent on the run's
\* ledger or still on hold: with any number of attempts that die, outlast their lease
\* or convert the same reservation twice, and with any set of survived failures.
THEOREM ChargesCovered == Spec => []ChargesAreCovered
<1>1. Init => CourseInv /\ MoneyInv
  BY CourseInit, MoneyInit
<1>2. IInv /\ IInv' /\ CourseInv /\ MoneyInv /\ [Next]_vars => CourseInv' /\ MoneyInv'
  BY CourseStep, MoneyStep
<1>3. IInv /\ MoneyInv => ChargesAreCovered
  <2> SUFFICES ASSUME IInv, MoneyInv, NEW r \in Runs PROVE paid[r] <= spent[r] + reserved[r]
    BY DEF ChargesAreCovered
  <2> PICK c \in [Keys -> Nat] : Covers(c, r)
    BY DEF MoneyInv, Backed
  <2>1. SumFunctionOnSet(c, Keys) \in Nat
    BY SumCovers, CallsAssumption
  <2>2. reserved[r] \in Nat /\ spent[r] \in Nat /\ paid[r] \in Nat
    BY CallsAssumption DEF IInv, TypeOK
  <2> QED
    BY <2>1, <2>2 DEF Covers
<1> QED
  BY <1>1, <1>2, <1>3, CallsInvariance, PTL DEF Spec
=============================================================================
