---------------------------- MODULE Handoff_proofs ----------------------------
(***************************************************************************)
(* Proofs about Handoff: types, that the LCM decides only winners that may *)
(* ship, and that the boundary implements Intake.                          *)
(***************************************************************************)
EXTENDS Handoff, TLAPS

-----------------------------------------------------------------------------
(* The inductive invariant.                                                *)

\* What never becomes untrue of a winner once it was read as ready.
MayShip(p) ==
    /\ p \in measured /\ winner[p] # "call"
    /\ winner[p] = "degraded" => p \in asked

\* A sender past its check has a resolved lineage, holds only winners that may
\* ship, and what it posts has its durable row.
SenderInv ==
    /\ reply = [x \in Senders |-> reply[x]]
    /\ \A x \in Senders :
          /\ pc[x] \notin {"idle", "check"} => lineage # Unresolved
          /\ \A p \in absent[x] \cup todo[x] : MayShip(p)
          /\ \A p \in todo[x] \ absent[x] : receipt[p] # "none"
          /\ pc[x] \in {"post", "wait", "record"} => absent[x] = {}

\* So does what is under way, and what was decided.
WireInv ==
    /\ \A m \in wire : lineage # Unresolved /\ \A p \in m.rows : MayShip(p) /\ receipt[p] # "none"
    /\ \A p \in Pros : decision[p] # "undecided" =>
          lineage # Unresolved /\ MayShip(p) /\ receipt[p] # "none"

\* What an answer, of the wire or of a receipt, says the LCM decided.
Meaning(answer) == IF answer \in {"accepted", "duplicate"} THEN "accepted" ELSE "rejected"

HonestInv ==
    /\ \A p \in Pros : receipt[p] \in Answered => decision[p] = Meaning(receipt[p])
    /\ \A x \in Senders : pc[x] = "record" =>
          /\ DOMAIN reply[x] = todo[x]
          /\ \A p \in todo[x] : decision[p] = Meaning(reply[x][p])

IInv == TypeOK /\ SenderInv /\ WireInv /\ HonestInv

-----------------------------------------------------------------------------
(* What every step keeps.                                                  *)

\* A winner that was ready stays one: winners, measurements and what the operator
\* asked for are never taken back.
LEMMA ReadyStays ==
    ASSUME TypeOK, [Next]_vars, NEW p \in Pros, MayShip(p)
    PROVE  MayShip(p)'
<1>1. ASSUME NEW q \in Pros, Attempt(q) PROVE MayShip(p)'
  BY <1>1 DEF Attempt, LoadRun, SetRunning, ContextDown, Fetch, Aggregate, Conclude, Advance, TypeOK, MayShip,
         runVars, jobVars
<1>2. ASSUME NEW q \in Pros, NEW w \in Workers, RunJobReturns(w, q) PROVE MayShip(p)'
  BY <1>2 DEF RunJobReturns, MayShip
<1>3. ASSUME NEW x \in Senders, Push(x) \/ Unavailable(x) \/ Crash(x) PROVE MayShip(p)'
  BY <1>3 DEF Push, CheckRun, ReadReady, InsertPending, Post, Record, Unavailable, Crash,
         MayShip, jobVars
<1>4. ASSUME NEW m \in wire, NEW R \in SUBSET m.rows, Take(m, R) PROVE MayShip(p)'
  BY <1>4 DEF Take, MayShip, jobVars
<1>5. CASE Stop \/ OperatorAsks \/ UNCHANGED vars
  BY <1>5 DEF Stop, OperatorAsks, MayShip, jobVars, vars
<1> QED
  BY <1>1, <1>2, <1>3, <1>4, <1>5 DEF Next

\* A lineage once resolved stays resolved.
LEMMA LineageStays ==
    ASSUME [Next]_vars, lineage # Unresolved
    PROVE  lineage' # Unresolved
<1>1. ASSUME NEW q \in Pros, Attempt(q) PROVE lineage' # Unresolved
  BY <1>1 DEF Attempt, LoadRun, SetRunning, ContextDown, Fetch, Aggregate, Conclude, Advance, Stamped, runVars
<1>2. ASSUME NEW x \in Senders, Push(x) \/ Unavailable(x) \/ Crash(x) PROVE lineage' # Unresolved
  BY <1>2 DEF Push, CheckRun, ReadReady, InsertPending, Post, Record, Unavailable, Crash, runVars
<1> QED
  BY <1>1, <1>2 DEF Next, RunJobReturns, Take, Stop, OperatorAsks, runVars, vars

\* A sender that leaves holds nothing.
LEMMA LeaveKeeps ==
    ASSUME IInv, NEW x \in Senders, Leave(x),
           UNCHANGED <<runVars, jobVars, receipt, decision>>,
           asked \subseteq asked', asked' \subseteq Pros, wire' \subseteq wire
    PROVE  IInv'
<1>1. TypeOK'
  BY DEF IInv, TypeOK, Leave, Pc, runVars, jobVars
<1>2. \A p \in Pros : MayShip(p) => MayShip(p)'
  BY DEF MayShip, jobVars
<1>3. SenderInv'
  BY <1>2 DEF IInv, TypeOK, SenderInv, Leave, runVars
<1>4. WireInv'
  BY <1>2 DEF IInv, TypeOK, WireInv, runVars
<1>5. HonestInv'
  BY DEF IInv, TypeOK, HonestInv, Leave
<1> QED
  BY <1>1, <1>3, <1>4, <1>5 DEF IInv

-----------------------------------------------------------------------------
(* One lemma per action that does more.                                    *)

\* The attempts and the operator's stop touch neither a sender nor the boundary.
LEMMA RunKeeps ==
    ASSUME IInv, [Next]_vars, TypeOK', UNCHANGED <<receipt, lcmVars>>,
           UNCHANGED localVars \/ \E x \in Senders :
               /\ pc[x] = "idle" /\ pc' = [pc EXCEPT ![x] = "check"]
               /\ UNCHANGED <<absent, todo, reply>>
    PROVE  IInv'
<1>1. \A p \in Pros : MayShip(p) => MayShip(p)'
  BY ReadyStays DEF IInv
<1>2. lineage # Unresolved => lineage' # Unresolved
  BY LineageStays
<1>3. SenderInv'
  BY <1>1, <1>2 DEF IInv, TypeOK, SenderInv, localVars
<1>4. WireInv'
  BY <1>1, <1>2 DEF IInv, TypeOK, WireInv, lcmVars
<1>5. HonestInv'
  BY DEF IInv, TypeOK, HonestInv, lcmVars, localVars
<1> QED
  BY <1>3, <1>4, <1>5 DEF IInv

\* The lineage is stamped with a version, the winner and its plan are recorded.
LEMMA AttemptKeeps ==
    ASSUME IInv, NEW p \in Pros, Attempt(p)
    PROVE  IInv'
<1>1. TypeOK'
  <2>1. Kinds[p] \subseteq WinnerKind
    BY HandoffAssumption
  <2> QED
    BY <2>1 DEF IInv, TypeOK, Attempt, LoadRun, SetRunning, ContextDown, Fetch, Aggregate, Conclude, Advance,
           Stamped, runVars, jobVars, localVars, lcmVars
<1>2. UNCHANGED <<receipt, localVars, lcmVars>>
  BY DEF Attempt, LoadRun, SetRunning, ContextDown, Fetch, Aggregate, Conclude, Advance
<1> QED
  BY <1>1, <1>2, RunKeeps DEF Next

LEMMA BeginKeeps ==
    ASSUME IInv, Stop \/ OperatorAsks \/ \E w \in Workers, p \in Pros : RunJobReturns(w, p)
    PROVE  IInv'
<1>1. TypeOK'
  <2>1. CASE Stop
    BY <2>1 DEF IInv, TypeOK, Stop, jobVars, localVars, lcmVars
  <2>2. CASE OperatorAsks
    BY <2>2 DEF IInv, TypeOK, OperatorAsks, Pc, Senders, runVars, jobVars, lcmVars
  <2>3. ASSUME NEW w \in Workers, NEW p \in Pros, RunJobReturns(w, p) PROVE TypeOK'
    BY <2>3 DEF IInv, TypeOK, RunJobReturns, Pc, Senders, runVars, lcmVars
  <2> QED
    BY <2>1, <2>2, <2>3
<1>2. UNCHANGED <<receipt, lcmVars>>
  BY DEF Stop, OperatorAsks, RunJobReturns
<1>3. UNCHANGED localVars \/ \E x \in Senders :
          /\ pc[x] = "idle" /\ pc' = [pc EXCEPT ![x] = "check"]
          /\ UNCHANGED <<absent, todo, reply>>
  BY DEF Stop, OperatorAsks, RunJobReturns, Senders
<1> QED
  BY <1>1, <1>2, <1>3, RunKeeps DEF Next

\* A sender passes its check only with the lineage resolved.
LEMMA CheckKeeps ==
    ASSUME IInv, NEW x \in Senders, CheckRun(x)
    PROVE  IInv'
<1>1. CASE Leave(x)
  BY <1>1, LeaveKeeps DEF CheckRun, IInv, TypeOK, lcmVars
<1>2. CASE ~Leave(x)
  <2>1. TypeOK'
    BY <1>2 DEF CheckRun, IInv, TypeOK, Pc, runVars, jobVars, lcmVars
  <2>2. \A p \in Pros : MayShip(p) => MayShip(p)'
    BY DEF CheckRun, MayShip, jobVars
  <2>3. SenderInv'
    BY <1>2, <2>2 DEF CheckRun, IInv, TypeOK, SenderInv, runVars
  <2>4. WireInv'
    BY <2>2 DEF CheckRun, IInv, TypeOK, WireInv, runVars, lcmVars
  <2>5. HonestInv'
    BY <1>2 DEF CheckRun, IInv, TypeOK, HonestInv, lcmVars
  <2> QED
    BY <2>1, <2>3, <2>4, <2>5 DEF IInv
<1> QED
  BY <1>1, <1>2

\* What is read as ready may ship: the trickle leaves degraded winners out, the
\* operator's request asks for them.
LEMMA ReadKeeps ==
    ASSUME IInv, NEW x \in Senders, ReadReady(x)
    PROVE  IInv'
<1>1. asked \subseteq asked' /\ asked' \subseteq Pros
  BY DEF ReadReady, ReadyRows, IInv, TypeOK
<1>2. CASE Leave(x)
  BY <1>1, <1>2, LeaveKeeps DEF ReadReady, lcmVars
<1>3. CASE ~Leave(x)
  <2>1. TypeOK'
    <3>1. /\ absent' \in [Senders -> SUBSET Pros] /\ todo' \in [Senders -> SUBSET Pros]
          /\ pc' \in [Senders -> Pc]
      BY <1>3 DEF ReadReady, ReadyRows, Unanswered, IInv, TypeOK, Pc
    <3>2. UNCHANGED <<scope, reply, receipt, runVars, jobVars, lcmVars>>
      BY <1>3 DEF ReadReady
    <3> QED
      BY <1>1, <3>1, <3>2 DEF IInv, TypeOK, runVars, jobVars, lcmVars
  <2>2. \A p \in Pros : MayShip(p) => MayShip(p)'
    BY <1>1 DEF ReadReady, MayShip, jobVars
  <2>3. \A p \in ReadyRows(x) : MayShip(p)'
    BY DEF ReadReady, ReadyRows, MayShip, jobVars
  <2>4. SenderInv'
    BY <1>3, <2>1, <2>2, <2>3 DEF ReadReady, ReadyRows, Unanswered, IInv, TypeOK, SenderInv, runVars
  <2>5. WireInv'
    BY <2>2 DEF ReadReady, IInv, TypeOK, WireInv, runVars, lcmVars
  <2>6. HonestInv'
    BY <1>3 DEF ReadReady, IInv, TypeOK, HonestInv, lcmVars
  <2> QED
    BY <2>1, <2>4, <2>5, <2>6 DEF IInv
<1> QED
  BY <1>2, <1>3

\* Receipts are inserted where there are none, and never taken back.
LEMMA InsertKeeps ==
    ASSUME IInv, NEW x \in Senders, InsertPending(x)
    PROVE  IInv'
<1> DEFINE send == (todo[x] \ absent[x]) \cup (absent[x] \cap Unanswered(absent[x]))
<1>1. /\ \A p \in Pros : receipt'[p] = IF p \in absent[x] THEN DoNothing(p) ELSE receipt[p]
      /\ receipt' \in [Pros -> {"none", "pending"} \cup Answered]
  BY DEF InsertPending, DoNothing, IInv, TypeOK
<1>2. \A p \in Pros : /\ receipt[p] # "none" => receipt'[p] = receipt[p]
                      /\ p \in absent[x] => receipt'[p] # "none"
                      /\ receipt'[p] \in Answered => receipt'[p] = receipt[p]
  BY <1>1 DEF DoNothing, IInv, TypeOK, Answered
<1>3. send \subseteq todo[x] \cup absent[x]
  BY DEF Unanswered
<1>4. Leave(x) \/ (/\ todo' = [todo EXCEPT ![x] = send]
                   /\ absent' = [absent EXCEPT ![x] = {}]
                   /\ pc' = [pc EXCEPT ![x] = "post"]
                   /\ UNCHANGED <<scope, reply>>)
  BY DEF InsertPending
<1>5. TypeOK'
  <2>1. /\ absent' \in [Senders -> SUBSET Pros] /\ todo' \in [Senders -> SUBSET Pros]
        /\ pc' \in [Senders -> Pc] /\ scope' \in [Senders -> SUBSET Pros]
    <3>1. send \in SUBSET Pros
      BY <1>3 DEF IInv, TypeOK
    <3>2. absent' = [absent EXCEPT ![x] = {}]
      BY <1>4 DEF Leave
    <3>3. todo' = [todo EXCEPT ![x] = {}] \/ todo' = [todo EXCEPT ![x] = send]
      BY <1>4 DEF Leave
    <3>4. pc' = [pc EXCEPT ![x] = "idle"] \/ pc' = [pc EXCEPT ![x] = "post"]
      BY <1>4 DEF Leave
    <3>5. scope' = [scope EXCEPT ![x] = {}] \/ scope' = scope
      BY <1>4 DEF Leave
    <3>6. absent' \in [Senders -> SUBSET Pros]
      BY <3>2 DEF IInv, TypeOK
    <3>7. todo' \in [Senders -> SUBSET Pros]
      BY <3>1, <3>3 DEF IInv, TypeOK
    <3>8. pc' \in [Senders -> Pc] /\ scope' \in [Senders -> SUBSET Pros]
      BY <3>4, <3>5 DEF IInv, TypeOK, Pc
    <3> QED
      BY <3>6, <3>7, <3>8
  <2>2. \A y \in Senders : DOMAIN reply'[y] \subseteq Pros
    BY <1>4 DEF Leave, IInv, TypeOK, SenderInv
  <2>3. UNCHANGED <<asked, runVars, jobVars, lcmVars>>
    BY DEF InsertPending
  <2> QED
    BY <1>1, <2>1, <2>2, <2>3 DEF IInv, TypeOK, runVars, jobVars, lcmVars
<1>6. \A p \in Pros : MayShip(p) => MayShip(p)'
  BY DEF InsertPending, MayShip, jobVars
<1>7. lineage' = lineage /\ pc[x] = "insert" /\ wire' = wire /\ decision' = decision
  BY DEF InsertPending, runVars, lcmVars
<1>8. SenderInv'
  BY <1>2, <1>3, <1>4, <1>6, <1>7 DEF Leave, IInv, TypeOK, SenderInv
<1>9. WireInv'
  BY <1>2, <1>6, <1>7 DEF IInv, TypeOK, WireInv
<1>10. HonestInv'
  <2>1. \A p \in Pros : receipt'[p] \in Answered => decision'[p] = Meaning(receipt'[p])
    BY <1>2, <1>7 DEF IInv, HonestInv
  <2>2. \A y \in Senders : pc'[y] = "record" =>
            pc[y] = "record" /\ todo'[y] = todo[y] /\ reply'[y] = reply[y]
    BY <1>4, <1>7 DEF Leave, IInv, TypeOK, SenderInv
  <2> QED
    BY <1>7, <2>1, <2>2 DEF IInv, HonestInv, Meaning
<1> QED
  BY <1>5, <1>8, <1>9, <1>10 DEF IInv

LEMMA PostKeeps ==
    ASSUME IInv, NEW x \in Senders, Post(x)
    PROVE  IInv'
<1>1. TypeOK'
  BY DEF Post, IInv, TypeOK, Pc, runVars, jobVars
<1>2. \A p \in Pros : MayShip(p) => MayShip(p)'
  BY DEF Post, MayShip, jobVars
<1>3. SenderInv'
  BY <1>2 DEF Post, IInv, TypeOK, SenderInv, runVars
<1>4. WireInv'
  BY <1>2 DEF Post, IInv, TypeOK, SenderInv, WireInv, runVars
<1>5. HonestInv'
  BY DEF Post, IInv, TypeOK, HonestInv
<1> QED
  BY <1>1, <1>3, <1>4, <1>5 DEF IInv

\* The LCM decides what is under way, once; what it tells agrees.
LEMMA TakeKeeps ==
    ASSUME IInv, NEW m \in wire, NEW R \in SUBSET m.rows, Take(m, R)
    PROVE  IInv'
<1>1. PICK d \in [R -> {"accepted", "rejected"}] :
          /\ \A p \in R : decision[p] # "undecided" => d[p] = decision[p]
          /\ decision' = [p \in Pros |-> IF p \in R THEN d[p] ELSE decision[p]]
          /\ \/ UNCHANGED <<pc, reply>>
             \/ /\ R = m.rows /\ pc[m.from] = "wait" /\ todo[m.from] = R
                /\ \E told \in [R -> Answered \cup {"invalid"}] :
                      /\ \A p \in R : told[p] \in Told(p, d)
                      /\ reply' = [reply EXCEPT ![m.from] = told]
                /\ pc' = [pc EXCEPT ![m.from] = "record"]
  BY DEF Take
<1>2. m.from \in Senders /\ R \subseteq Pros
  BY DEF IInv, TypeOK
<1>3. \A p \in Pros : /\ p \in R => decision'[p] = d[p]
                      /\ p \notin R => decision'[p] = decision[p]
                      /\ decision[p] # "undecided" => decision'[p] = decision[p]
  BY <1>1
<1>4. TypeOK'
  <2>1. decision' \in [Pros -> {"undecided", "accepted", "rejected"}] /\ pc' \in [Senders -> Pc]
    BY <1>1, <1>2 DEF IInv, TypeOK, Pc
  <2>2. \A x \in Senders : DOMAIN reply'[x] \subseteq Pros
    BY <1>1, <1>2 DEF IInv, TypeOK, SenderInv
  <2>3. wire' \subseteq wire /\ UNCHANGED <<runVars, jobVars, receipt, scope, absent, todo, asked>>
    BY DEF Take
  <2> QED
    BY <2>1, <2>2, <2>3 DEF IInv, TypeOK, runVars, jobVars
<1>5. \A p \in Pros : MayShip(p) => MayShip(p)'
  BY DEF Take, MayShip, jobVars
<1>6. SenderInv'
  BY <1>1, <1>2, <1>5 DEF Take, IInv, TypeOK, SenderInv, runVars
<1>7. WireInv'
  BY <1>2, <1>3, <1>5 DEF Take, IInv, TypeOK, WireInv, runVars
<1>8. HonestInv'
  <2>1. \A p \in Pros : receipt'[p] \in Answered => decision'[p] = Meaning(receipt'[p])
    BY <1>3 DEF Take, IInv, TypeOK, HonestInv, Meaning, Answered
  <2>2. ASSUME NEW x \in Senders, pc'[x] = "record"
        PROVE  DOMAIN reply'[x] = todo'[x] /\ \A p \in todo'[x] : decision'[p] = Meaning(reply'[x][p])
    <3>1. CASE pc[x] = "record" /\ reply'[x] = reply[x]
      BY <3>1, <1>3 DEF Take, IInv, TypeOK, HonestInv, Meaning
    <3>2. CASE ~(pc[x] = "record" /\ reply'[x] = reply[x])
      <4>1. /\ x = m.from /\ todo[x] = R /\ pc[x] = "wait"
            /\ \E told \in [R -> Answered \cup {"invalid"}] :
                  /\ \A p \in R : told[p] \in Told(p, d)
                  /\ reply' = [reply EXCEPT ![x] = told]
        BY <2>2, <3>2, <1>1, <1>2 DEF IInv, TypeOK, SenderInv
      <4>2. PICK told \in [R -> Answered \cup {"invalid"}] :
                  /\ \A p \in R : told[p] \in Told(p, d)
                  /\ reply' = [reply EXCEPT ![x] = told]
        BY <4>1
      <4>3. reply'[x] = told
        BY <4>2 DEF IInv, SenderInv
      <4>4. \A p \in R : d[p] = Meaning(told[p])
        BY <4>2, <1>1, <1>2 DEF Told, Meaning, IInv, TypeOK
      <4> QED
        BY <4>1, <4>3, <4>4, <1>2, <1>3 DEF Take
    <3> QED
      BY <3>1, <3>2
  <2> QED
    BY <2>1, <2>2 DEF HonestInv
<1> QED
  BY <1>4, <1>6, <1>7, <1>8 DEF IInv

\* What is recorded is what was told, and what was told is what was decided.
LEMMA RecordKeeps ==
    ASSUME IInv, NEW x \in Senders, Record(x)
    PROVE  IInv'
<1>1. \A p \in todo[x] : decision[p] = Meaning(reply[x][p]) /\ p \in Pros
  BY DEF Record, IInv, TypeOK, HonestInv
<1>2. receipt' \in [Pros -> {"none", "pending"} \cup Answered]
  BY DEF Record, ReceiptStatus, IInv, TypeOK, Answered
<1>3. \A p \in Pros :
        /\ p \in todo[x] => receipt'[p] # "none" /\ decision[p] = Meaning(receipt'[p])
        /\ p \notin todo[x] => receipt'[p] = receipt[p]
  BY <1>1 DEF Record, ReceiptStatus, Meaning, Answered, IInv, TypeOK
<1>4. TypeOK'
  BY <1>2 DEF Record, Leave, IInv, TypeOK, Pc, runVars, jobVars, lcmVars
<1>5. \A p \in Pros : MayShip(p) => MayShip(p)'
  BY DEF Record, MayShip, jobVars
<1>6. SenderInv'
  BY <1>3, <1>5 DEF Record, Leave, IInv, TypeOK, SenderInv, runVars
<1>7. WireInv'
  BY <1>3, <1>5 DEF Record, IInv, TypeOK, WireInv, runVars, lcmVars
<1>8. HonestInv'
  BY <1>3 DEF Record, Leave, IInv, TypeOK, HonestInv, lcmVars
<1> QED
  BY <1>4, <1>6, <1>7, <1>8 DEF IInv

-----------------------------------------------------------------------------
(* The theorems.                                                           *)

LEMMA InitInv == ASSUME Init PROVE IInv
<1>1. TypeOK
  <2>1. \A x \in Senders : DOMAIN reply[x] \subseteq Pros
    BY DEF Init
  <2>2. winner \in [Pros -> WinnerKind \cup {"none"}] /\ measured \subseteq {p \in Pros : winner[p] # "none"}
    BY DEF Init
  <2>3. pc \in [Senders -> Pc] /\ scope \in [Senders -> SUBSET Pros]
        /\ absent \in [Senders -> SUBSET Pros] /\ todo \in [Senders -> SUBSET Pros]
    BY DEF Init, Pc
  <2>4. /\ receipt \in [Pros -> {"none", "pending"} \cup Answered]
        /\ job \in [Pros -> {"queued", "loaded", "fetch", "stages", "verdict"}]
        /\ decision \in [Pros -> {"undecided", "accepted", "rejected"}]
    BY DEF Init
  <2>5. /\ stopped \in BOOLEAN /\ lineage \in Versions \cup {Unresolved}
        /\ wire \subseteq [from : Senders, rows : SUBSET Pros] /\ asked \subseteq Pros
    BY DEF Init
  <2> QED
    BY <2>1, <2>2, <2>3, <2>4, <2>5 DEF TypeOK
<1>2. SenderInv
  BY DEF Init, SenderInv
<1>3. WireInv
  BY DEF Init, WireInv
<1>4. HonestInv
  BY DEF Init, HonestInv, Answered
<1> QED
  BY <1>1, <1>2, <1>3, <1>4 DEF IInv

LEMMA StepInv == ASSUME IInv, [Next]_vars PROVE IInv'
<1>1. ASSUME NEW x \in Senders, Unavailable(x) \/ Crash(x) PROVE IInv'
  BY <1>1, LeaveKeeps DEF Unavailable, Crash, IInv, TypeOK, lcmVars
<1>2. CASE UNCHANGED vars
  <2>1. TypeOK'
    BY <1>2 DEF IInv, TypeOK, vars, runVars, jobVars, localVars, lcmVars
  <2> QED
    BY <1>2, <2>1, RunKeeps DEF vars
<1> QED
  BY <1>1, <1>2, AttemptKeeps, BeginKeeps, CheckKeeps, ReadKeeps, InsertKeeps, PostKeeps,
     TakeKeeps, RecordKeeps
  DEF Next, Push

\* What a sender holds, what is under way and what was answered: the invariant
\* the results below rest on.
THEOREM HandoffInvariance == Spec => []IInv
<1>1. Init => IInv
  BY InitInv
<1>2. IInv /\ [Next]_vars => IInv'
  BY StepInv
<1> QED BY <1>1, <1>2, PTL DEF Spec

\* The rows, what senders hold and the batches under way keep their types.
THEOREM HandoffTyped == Spec => []TypeOK
<1>1. IInv => TypeOK
  BY DEF IInv
<1> QED BY <1>1, HandoffInvariance, PTL

\* However many workers and operators push, and whatever is lost, late or taken in
\* part, the LCM only decides winners that may ship.
THEOREM DecidedMayShip == Spec => []OnlyShippable
<1>1. IInv => OnlyShippable
  BY DEF IInv, WireInv, MayShip, OnlyShippable
<1> QED BY <1>1, HandoffInvariance, PTL

\* Once the pushes that passed their check are over and whoever read the run before
\* the stop has written its status, the run stays stopped: an attempt that is
\* claimed and a finalizer that comes later read it as it is, a worker that returns
\* from a job leaves, and only a request of the operator gets a row on the wire.
THEOREM StopIsFinal == Spec => StopWithholds
<1>1. ASSUME IInv, Next, Quiet, pc[Operator] = pc'[Operator]
      PROVE  Quiet'
  <2>1. stopped' /\ Operator \in Senders
    BY <1>1 DEF Next, Push, Attempt, LoadRun, SetRunning, ContextDown, Fetch, Aggregate, Conclude, Advance,
           RunJobReturns, Stop, OperatorAsks, CheckRun, ReadReady, InsertPending, Post, Record,
           Unavailable, Crash, Take, runVars, Quiet, NobodyRevives, Senders
  <2>2. ASSUME NEW p \in Pros, Attempt(p) PROVE Quiet'
    <3>1. Advance(p)
      BY <1>1, <2>2 DEF Attempt, LoadRun, SetRunning, ContextDown, Fetch, Aggregate, Conclude, Advance,
             Quiet, NobodyRevives
    <3> QED
      BY <1>1, <2>1, <3>1 DEF Advance, localVars, lcmVars, Quiet, NobodyRevives
  <2>3. ASSUME NEW p \in Pros, NEW w \in Workers, RunJobReturns(w, p) PROVE Quiet'
    <3>1. w # Operator /\ w \in Senders
      BY HandoffAssumption DEF Senders
    <3> QED
      BY <1>1, <2>1, <2>3, <3>1 DEF RunJobReturns, lcmVars, Quiet, NobodyRevives, IInv, TypeOK
  <2>4. ASSUME NEW x \in Senders, CheckRun(x) PROVE Quiet'
    <3>1. x \in Workers /\ Withheld(x)
      BY <1>1, <2>4 DEF CheckRun, Withheld, Quiet, Senders
    <3>2. x # Operator
      BY <3>1, HandoffAssumption
    <3> QED
      BY <1>1, <2>1, <2>4, <3>1, <3>2 DEF CheckRun, Leave, jobVars, lcmVars, Quiet, NobodyRevives,
             IInv, TypeOK
  <2>5. ASSUME NEW x \in Senders,
               \/ ReadReady(x) \/ InsertPending(x) \/ Post(x) \/ Record(x)
               \/ Unavailable(x) \/ Crash(x)
        PROVE  FALSE
    BY <1>1, <2>5 DEF ReadReady, InsertPending, Post, Record, Unavailable, Crash, Quiet
  <2>6. ~(\E m \in wire : \E R \in SUBSET m.rows : Take(m, R)) /\ ~Stop /\ ~OperatorAsks
    BY <1>1, <2>1 DEF Take, Stop, OperatorAsks, Quiet, IInv, TypeOK
  <2> QED
    BY <1>1, <2>2, <2>3, <2>4, <2>5, <2>6 DEF Next, Push
<1>2. IInv /\ [Next]_vars => [Quiet /\ pc[Operator] = pc'[Operator] => Quiet']_vars
  BY <1>1
<1> QED
  BY <1>2, HandoffInvariance, PTL DEF Spec, StopWithholds

-----------------------------------------------------------------------------
(* The boundary implements Intake.                                         *)

\* What Intake sees of the receipts.
Recorded == [p \in Pros |-> IF receipt[p] = "duplicate" THEN "accepted" ELSE receipt[p]]

\* The insert announces the rows it found without a receipt.
LEMMA InsertAnnounces ==
    ASSUME IInv, NEW x \in Senders, InsertPending(x)
    PROVE  Promise!Announce(absent[x])
<1>1. receipt' = [p \in Pros |-> IF p \in absent[x] THEN DoNothing(p) ELSE receipt[p]]
  BY DEF InsertPending
<1>2. Recorded' = [p \in Pros |->
          IF p \in absent[x] /\ Recorded[p] = "none" THEN "pending" ELSE Recorded[p]]
  BY <1>1 DEF Recorded, DoNothing
<1>3. UNCHANGED decision
  BY DEF InsertPending, lcmVars
<1> QED
  BY <1>2, <1>3 DEF Promise!Announce, Recorded

\* The LCM decides what was undecided of the rows it takes.
LEMMA TakeDecides ==
    ASSUME IInv, NEW m \in wire, NEW R \in SUBSET m.rows, Take(m, R)
    PROVE  Promise!Decide({p \in R : decision[p] = "undecided"})
<1> DEFINE new == {p \in R : decision[p] = "undecided"}
<1>1. PICK d \in [R -> {"accepted", "rejected"}] :
          /\ \A p \in R : decision[p] # "undecided" => d[p] = decision[p]
          /\ decision' = [p \in Pros |-> IF p \in R THEN d[p] ELSE decision[p]]
  BY DEF Take
<1>2. \A p \in new : decision[p] = "undecided" /\ Recorded[p] # "none"
  BY DEF IInv, TypeOK, WireInv, Recorded
<1>3. [p \in new |-> d[p]] \in [new -> Promise!Answers]
  BY DEF Promise!Answers
<1>4. decision' = [p \in Pros |-> IF p \in new THEN [q \in new |-> d[q]][p] ELSE decision[p]]
  BY <1>1
<1>5. \E e \in [new -> Promise!Answers] :
          decision' = [p \in Pros |-> IF p \in new THEN e[p] ELSE decision[p]]
  BY <1>3, <1>4
<1>6. UNCHANGED Recorded
  BY DEF Take, Recorded
<1> QED
  BY <1>2, <1>5, <1>6 DEF Promise!Decide, Recorded

\* The receipts written are the decisions.
LEMMA RecordRecords ==
    ASSUME IInv, NEW x \in Senders, Record(x)
    PROVE  Promise!Record(todo[x])
<1>1. receipt' = [p \in Pros |-> IF p \in todo[x] THEN ReceiptStatus(reply[x][p]) ELSE receipt[p]]
  BY DEF Record
<1>2. \A p \in todo[x] : p \in Pros /\ decision[p] = Meaning(reply[x][p])
  BY DEF Record, IInv, TypeOK, HonestInv
<1>3. \A p \in todo[x] : decision[p] \in Promise!Answers
  BY <1>2 DEF Meaning, Promise!Answers
<1>4. Recorded' = [p \in Pros |-> IF p \in todo[x] THEN decision[p] ELSE Recorded[p]]
  BY <1>1, <1>2 DEF Recorded, ReceiptStatus, Meaning, Answered
<1>5. UNCHANGED decision
  BY DEF Record, lcmVars
<1> QED
  BY <1>3, <1>4, <1>5 DEF Promise!Record, Recorded

\* A step of Handoff is a step of Intake, or stutters.
LEMMA StepImplements ==
    ASSUME IInv, [Next]_vars
    PROVE  Promise!Next \/ UNCHANGED <<decision, Recorded>>
<1>1. ASSUME NEW x \in Senders, InsertPending(x) PROVE Promise!Next
  <2>1. absent[x] \in SUBSET Pros
    BY DEF IInv, TypeOK
  <2>2. Promise!Announce(absent[x])
    BY <1>1, InsertAnnounces
  <2> QED
    BY <2>1, <2>2 DEF Promise!Next, Promise!Announce
<1>2. ASSUME NEW m \in wire, NEW R \in SUBSET m.rows, Take(m, R) PROVE Promise!Next
  <2>1. {p \in R : decision[p] = "undecided"} \in SUBSET Pros
    BY DEF IInv, TypeOK
  <2> QED
    BY <2>1, <1>2, TakeDecides DEF Promise!Next
<1>3. ASSUME NEW x \in Senders, Record(x) PROVE Promise!Next
  <2>1. todo[x] \in SUBSET Pros
    BY DEF IInv, TypeOK
  <2>2. Promise!Record(todo[x])
    BY <1>3, RecordRecords
  <2> QED
    BY <2>1, <2>2 DEF Promise!Next, Promise!Record
<1>4. ASSUME NEW x \in Senders,
             CheckRun(x) \/ ReadReady(x) \/ Post(x) \/ Unavailable(x) \/ Crash(x)
      PROVE  UNCHANGED <<decision, Recorded>>
  BY <1>4 DEF CheckRun, ReadReady, Post, Unavailable, Crash, Recorded, lcmVars
<1>5. ASSUME NEW p \in Pros, Attempt(p) \/ \E w \in Workers : RunJobReturns(w, p)
      PROVE  UNCHANGED <<decision, Recorded>>
  BY <1>5 DEF Attempt, LoadRun, SetRunning, ContextDown, Fetch, Aggregate, Conclude, Advance,
         RunJobReturns, Recorded, lcmVars
<1>6. CASE Stop \/ OperatorAsks \/ UNCHANGED vars
  BY <1>6 DEF Stop, OperatorAsks, vars, Recorded, lcmVars
<1> QED
  BY <1>1, <1>2, <1>3, <1>4, <1>5, <1>6 DEF Next, Push

\* Every behaviour of the boundary is one of Intake: a row is decided at most once
\* and only if announced, and a receipt says what was decided.
THEOREM BoundaryImplementsIntake == Spec => ImplementsIntake
<1>1. Init => Promise!Init
  BY DEF Init, Promise!Init
<1>2. IInv /\ [Next]_vars => [Promise!Next]_<<decision, Recorded>>
  BY StepImplements
<1> QED
  BY <1>1, <1>2, HandoffInvariance, PTL DEF Spec, ImplementsIntake, Promise!Spec, Recorded
=============================================================================
