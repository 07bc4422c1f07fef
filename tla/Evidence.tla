------------------------------- MODULE Evidence -------------------------------
(***************************************************************************)
(* What counts as evidence (waypoint/outcomes.py): outcomes of a touch are *)
(* ingested by concurrent sessions, keyed by the winner, by an exposure or *)
(* by the natural pair, merged into one row per source, and the winner's   *)
(* warm-start state is derived from its rows.  Exposures are registered by *)
(* waypoint/exposures.py, silent sends graded by waypoint/checkpoints.py.  *)
(*                                                                         *)
(* One touch: a winner, and the exposures that realize it (arm A) or       *)
(* control for it (arm B).  Of the horizons only the decisive one, Day 7,  *)
(* is kept, and of the clocks only what they derive.  Requests, pollers    *)
(* and the sweep are sessions that overlap as they please: each step is    *)
(* what a session reads, its flush with the promotion computed from what   *)
(* it then sees, or its commit, which writes the columns it changed.       *)
(***************************************************************************)
EXTENDS Integers, FiniteSets

CONSTANTS
    Procs,          \* sessions: requests, pollers, the sweep
    Exposures, ArmOf,
    NoExposure,
    Sources,        \* who reports; "checkpoint" is the sweep
    Items,          \* the outcome records they submit
    Registrations,  \* the exposure records they submit
    MaxWrites       \* bound: ingests, registrations and sweeps

\* A record names the touch by its winner's id, by the (run, pro) pair, or by
\* an exposure.
Named == {"winner", "natural"} \cup Exposures
Claim == {"", "real", "test"}
Measured == {"unresolved", "yes", "no"}
Delivered == {"unknown", "bounced"}

Recs == {"winner", "unresolved"} \cup Exposures
Keys == Recs \X (Sources \cup {"checkpoint"})

ASSUME EvidenceAssumption ==
    /\ ArmOf \in [Exposures -> {"A", "B"}] /\ NoExposure \notin Exposures
    /\ Exposures \cap ({"winner", "natural", "unresolved"} \cup Keys) = {}
    /\ MaxWrites \in Nat
    /\ Items \subseteq [rec : Named, exposure : Exposures \cup {NoExposure}, source : Sources,
                        routing : Claim, delivered : Delivered, ret : Measured]
    /\ Registrations \subseteq [exposure : Exposures, named : BOOLEAN, routing : Claim]

VARIABLES
    born,         \* the winner is recorded
    exposure,     \* the exposures rows
    stored, row,  \* the touch_outcomes rows, by (recommendation_id, source)
    win,          \* the winner's warm_start_eligible and validation_status
    pc, txn,      \* where a session is, and what it holds
    claims,       \* history: routings claimed so far of a row or an exposure
    overtaken,    \* history: what was committed since a session began to read
    blind,        \* history: rows and exposures written over a commit not seen
    writes

tables == <<exposure, stored, row, win>>
history == <<claims, overtaken, blind>>
vars == <<born, tables, pc, txn, history, writes>>

Routing == Claim \cup {"conflict"}
Rows == [routing : Routing, delivered : Delivered, ret : Measured,
         exp : Exposures \cup {NoExposure}, arm : {"", "A", "B"}, limited : BOOLEAN]
Links == [here : BOOLEAN, linked : BOOLEAN, routing : Routing]
Wins == [eligible : BOOLEAN, status : {"none", "directional", "validated", "negative"}]

Blank == [routing |-> "", delivered |-> "unknown", ret |-> "unresolved", exp |-> NoExposure,
          arm |-> "", limited |-> TRUE]
Unknown == [here |-> FALSE, linked |-> FALSE, routing |-> ""]
Unproven == [eligible |-> FALSE, status |-> "none"]
Nothing == [none |-> TRUE]

Init ==
    /\ born = FALSE
    /\ exposure = [e \in Exposures |-> Unknown]
    /\ stored = {}
    /\ row = [k \in Keys |-> Blank]
    /\ win = Unproven
    /\ pc = [i \in Procs |-> "idle"]
    /\ txn = [i \in Procs |-> Nothing]
    /\ claims = [x \in Keys \cup Exposures |-> {}]
    /\ overtaken = [i \in Procs |-> {}]
    /\ blind = {}
    /\ writes = 0

-----------------------------------------------------------------------------
(* Rules of one row.                                                       *)

LastClaim(old, new) == IF new = "" THEN old ELSE new

\* merge_routing
MergeRouting(old, new) ==
    CASE new = "" -> old
      [] new # "" /\ old = "" -> new
      [] new # "" /\ old # "" -> IF old = new THEN old ELSE "conflict"

RoutingOnly(attributed, r) == r.routing # "real"

\* evidence_limitation
Limited(attributed, r) == ~attributed \/ r.routing # "real" \/ r.delivered = "bounced"

Overwrite(old, new) == IF new = "unresolved" THEN old ELSE new

\* _apply_flags: a measured horizon is only ever filled.
FillHorizon(old, new) == IF old = "unresolved" THEN new ELSE old

-----------------------------------------------------------------------------
(* Promotion.                                                              *)

\* Rows of the winner: under its id, or of an exposure linked to it.
Attributable(S, rows) == {k \in S : k[1] = "winner" \/ (rows[k].exp # NoExposure /\ exposure[rows[k].exp].linked)}
Observed(K, view) == {k \in K : view[k].ret # "unresolved" /\ ~view[k].limited}
InArm(K, view, arm) == {k \in K : view[k].arm = arm}
Returned(K, view) == {k \in K : view[k].ret = "yes"}

OnlyGranted(K, view, old) ==
    IF Returned(Observed(K, view), view) = {} THEN old ELSE [eligible |-> TRUE, status |-> "validated"]

AnyReturn(K, view, old) ==
    [eligible |-> Returned(Observed(K, view), view) # {},
     status |-> IF Observed(K, view) = {} THEN "none" ELSE "validated"]

\* _promote_warm_start, of the winner's rows K as a session sees them.
Promoted(K, view, old) ==
    LET observed == Observed(K, view)
        treated == InArm(observed, view, "A")
        control == InArm(observed, view, "B")
        positive == Returned(IF treated \cup control = {} THEN observed ELSE treated, view)
    IN
    CASE observed = {} -> Unproven
      [] treated # {} /\ control = {} ->
            [eligible |-> FALSE, status |-> IF positive = {} THEN old.status ELSE "directional"]
      [] OTHER ->
            [eligible |-> positive # {}, status |-> IF positive = {} THEN "negative" ELSE "validated"]

-----------------------------------------------------------------------------
(* Sessions.                                                               *)

\* Only the columns a session changed are written.
Changed(old, new, current) == [c \in DOMAIN current |-> IF new[c] # old[c] THEN new[c] ELSE current[c]]

Goto(i, label) == pc' = [pc EXCEPT ![i] = label]
Hold(i, t) == txn' = [txn EXCEPT ![i] = t]

\* A session reads: what others commit from here on it has not seen.
Begin(i, t, label) ==
    /\ Hold(i, t) /\ Goto(i, label)
    /\ overtaken' = [overtaken EXCEPT ![i] = {}]

Abandon(i) == Begin(i, Nothing, "idle")

\* It commits a write of x, the claim c among it.
Ends(i, x, c) ==
    /\ pc' = [pc EXCEPT ![i] = "idle"]
    /\ txn' = [txn EXCEPT ![i] = Nothing]
    /\ claims' = [claims EXCEPT ![x] = @ \cup (c \ {""})]
    /\ blind' = blind \cup (overtaken[i] \cap {x})
    /\ overtaken' = [j \in Procs |-> IF j = i \/ pc[j] = "idle" THEN {} ELSE overtaken[j] \cup {x}]

\* Flushed rows, and those a sweep reads FOR UPDATE, are locked until the end;
\* so is the exposure a sweep synthesizes for.  A flushed row that refers to an
\* exposure keeps a sweep from it, and no one else.
Writing == {i \in Procs : pc[i] \in {"grade", "commit"}}
RowFree(k) == \A i \in Writing : txn[i].key # k
NotSwept(e) == \A i \in Writing : txn[i].sweeps # e
NotShared(e) == \A i \in Writing : txn[i].shares # e

-----------------------------------------------------------------------------
(* Ingest.                                                                 *)

\* _resolve_run_pro: without its winner the pair keeps a key of its own.
Resolve(it) == CASE it.rec = "natural" -> IF born THEN "winner" ELSE "unresolved"
                 [] OTHER -> it.rec

\* The exposure an item is consulted for.
Consulted(it) == CASE it.exposure # NoExposure -> it.exposure
                   [] it.exposure = NoExposure /\ it.rec \in Exposures -> it.rec
                   [] OTHER -> NoExposure

\* _prefetch and _existing_by_key, for the record an item was resolved to.
Session(it, rec, retried) ==
    LET e == Consulted(it) IN
    [item |-> it, rec |-> rec, retried |-> retried,
     exp |-> IF e # NoExposure /\ exposure[e].here THEN e ELSE NoExposure,
     routing |-> IF e # NoExposure THEN exposure[e].routing ELSE "",
     reaches |-> rec = "winner" \/ (e # NoExposure /\ exposure[e].linked),
     stored |-> {k \in stored : k[1] = rec},
     row |-> [s \in Sources \cup {"checkpoint"} |-> row[<<rec, s>>]],
     win |-> win]

\* Whoever reports under the winner's id has it from the winner.
Read(i, it) ==
    /\ pc[i] = "idle" /\ writes < MaxWrites
    /\ it.rec = "winner" => born
    /\ writes' = writes + 1
    /\ Begin(i, Session(it, Resolve(it), FALSE), "apply")
    /\ UNCHANGED <<born, tables, claims, blind>>

Key(t) == <<t.rec, t.item.source>>

\* The row as the session loaded it, and after _apply_item.
Loaded(t) == IF Key(t) \in t.stored THEN t.row[t.item.source] ELSE Blank

\* An exposure that could not be consulted is named in a first report all the same.
ExposureOf(t) == CASE t.exp # NoExposure -> t.exp
                   [] t.exp = NoExposure /\ Key(t) \notin t.stored -> t.item.exposure
                   [] OTHER -> Loaded(t).exp

Written(t) ==
    LET old == Loaded(t)
        new == [routing |-> IF t.exp # NoExposure THEN t.routing ELSE MergeRouting(old.routing, t.item.routing),
                delivered |-> IF t.item.delivered = "unknown" THEN old.delivered ELSE t.item.delivered,
                ret |-> FillHorizon(old.ret, t.item.ret),
                exp |-> ExposureOf(t),
                arm |-> IF t.exp # NoExposure THEN ArmOf[t.exp] ELSE old.arm,
                limited |-> TRUE]
    IN [new EXCEPT !.limited = Limited(t.reaches \/ t.exp # NoExposure, new)]

\* The rows as promote_winners sees them: its own as written, the others of its
\* record as first loaded, all others as committed.
View(t) == [k \in Keys |-> CASE k = Key(t) -> Written(t)
                             [] k # Key(t) /\ k \in t.stored -> t.row[k[2]]
                             [] OTHER -> row[k]]

\* Which rows they are the table says, this session's flush included.
Reached(t) == Attributable(stored \cup {Key(t)}, [row EXCEPT ![Key(t)] = Changed(Loaded(t), Written(t), @)])

\* The flush breaks a constraint: a sibling committed the same key first, or
\* the exposure named is none.
Clash(t) ==
    /\ Key(t) \notin t.stored
    /\ Key(t) \in stored \/ (ExposureOf(t) # NoExposure /\ ~exposure[ExposureOf(t)].here)

\* The whole batch again, from a fresh read, as updates.
Retry(i) ==
    LET t == txn[i] IN
    /\ pc[i] = "apply" /\ RowFree(Key(t)) /\ Clash(t) /\ ~t.retried
    /\ Begin(i, Session(t.item, t.rec, TRUE), "apply")
    /\ UNCHANGED <<born, tables, claims, blind, writes>>

\* Once only.
Refuse(i) ==
    LET t == txn[i] IN
    /\ pc[i] = "apply" /\ RowFree(Key(t)) /\ Clash(t) /\ t.retried
    /\ Abandon(i)
    /\ UNCHANGED <<born, tables, claims, blind, writes>>

Flush(i) ==
    LET t == txn[i]
        referred == IF Written(t).exp # Loaded(t).exp THEN Written(t).exp ELSE NoExposure
    IN
    /\ pc[i] = "apply" /\ ~Clash(t)
    /\ RowFree(Key(t)) /\ (referred # NoExposure => NotSwept(referred))
    /\ Hold(i, [key |-> Key(t), sweeps |-> NoExposure, shares |-> referred, claim |-> {t.item.routing},
                old |-> Loaded(t), new |-> Written(t), reaches |-> t.reaches, was |-> t.win,
                win |-> IF t.reaches THEN Promoted(Reached(t), View(t), t.win) ELSE t.win])
    /\ Goto(i, "commit")
    /\ UNCHANGED <<born, tables, history, writes>>

Commit(i) ==
    LET t == txn[i] IN
    /\ pc[i] = "commit"
    /\ stored' = stored \cup {t.key}
    /\ row' = [row EXCEPT ![t.key] = Changed(t.old, t.new, @)]
    /\ win' = Changed(t.was, t.win, win)
    /\ Ends(i, t.key, t.claim)
    /\ UNCHANGED <<born, exposure, writes>>

-----------------------------------------------------------------------------
(* Registration.  An unknown recommendation is reported, not stored.       *)

RegisterRead(i, reg) ==
    /\ pc[i] = "idle" /\ writes < MaxWrites
    /\ reg.named => born
    /\ writes' = writes + 1
    /\ Begin(i, [reg |-> reg, saw |-> exposure[reg.exposure]], "register")
    /\ UNCHANGED <<born, tables, claims, blind>>

\* A late link and a claim of the routing are merged; outcome rows are not
\* looked at.
Registered(t) ==
    [here |-> TRUE, linked |-> t.saw.linked \/ t.reg.named, routing |-> MergeRouting(t.saw.routing, t.reg.routing)]

\* Another session stored it first: once more, as an update.
RegisterRetry(i) ==
    LET t == txn[i] IN
    /\ pc[i] = "register" /\ ~t.saw.here /\ exposure[t.reg.exposure].here
    /\ Begin(i, [t EXCEPT !.saw = exposure[t.reg.exposure]], "register")
    /\ UNCHANGED <<born, tables, claims, blind, writes>>

RegisterCommit(i) ==
    LET t == txn[i]
        e == t.reg.exposure
    IN
    /\ pc[i] = "register" /\ NotSwept(e) /\ (exposure[e].here => t.saw.here)
    /\ exposure' = [exposure EXCEPT ![e] = Changed(t.saw, Registered(t), @)]
    /\ Ends(i, e, {t.reg.routing})
    /\ UNCHANGED <<born, stored, row, win, writes>>

-----------------------------------------------------------------------------
(* The other writers.                                                      *)

RecordWinner ==
    /\ ~born
    /\ born' = TRUE
    /\ UNCHANGED <<tables, pc, txn, history, writes>>

\* The row synthesized for a confirmed exposure nothing is known of.
Synthesized(e) ==
    LET r == [Blank EXCEPT !.routing = exposure[e].routing, !.exp = e, !.arm = ArmOf[e]]
    IN [r EXCEPT !.limited = Limited(TRUE, r)]

Silent(e) ==
    /\ exposure[e].here
    /\ \A k \in stored : k[1] # e /\ row[k].exp # e /\ (exposure[e].linked => k[1] # "winner")

\* A sweep takes a row that is due, or one it synthesizes, and skips what is locked.
SweepRead(i, k) ==
    LET fresh == k \notin stored
        base == IF fresh THEN Synthesized(k[1]) ELSE row[k]
    IN
    /\ pc[i] = "idle" /\ writes < MaxWrites /\ RowFree(k)
    /\ \/ k \in stored /\ row[k].ret = "unresolved"
       \/ fresh /\ k[2] = "checkpoint" /\ k[1] \in Exposures /\ Silent(k[1])
             /\ NotSwept(k[1]) /\ NotShared(k[1])
    /\ writes' = writes + 1
    /\ Begin(i, [key |-> k, sweeps |-> IF fresh THEN k[1] ELSE NoExposure, shares |-> NoExposure,
                 old |-> row[k], new |-> [base EXCEPT !.ret = "no"]], "grade")
    /\ UNCHANGED <<born, tables, claims, blind>>

\* The row graded, the winner is loaded and promoted from what is now there.
Grade(i) ==
    LET t == txn[i]
        graded == [row EXCEPT ![t.key] = t.new]
        K == Attributable(stored \cup {t.key}, graded)
        reaches == born /\ t.key \in K
    IN
    /\ pc[i] = "grade"
    /\ Hold(i, [key |-> t.key, sweeps |-> t.sweeps, shares |-> t.shares, claim |-> {},
                old |-> t.old, new |-> t.new, reaches |-> reaches, was |-> win,
                win |-> IF reaches THEN Promoted(K, graded, win) ELSE win])
    /\ Goto(i, "commit")
    /\ UNCHANGED <<born, tables, history, writes>>

-----------------------------------------------------------------------------

Next ==
    \/ \E i \in Procs :
          \/ \E it \in Items : Read(i, it)
          \/ Retry(i) \/ Refuse(i) \/ Flush(i) \/ Commit(i)
          \/ \E reg \in Registrations : RegisterRead(i, reg)
          \/ RegisterRetry(i) \/ RegisterCommit(i)
          \/ \E k \in Keys : SweepRead(i, k)
          \/ Grade(i)
    \/ RecordWinner

Spec == Init /\ [][Next]_vars

-----------------------------------------------------------------------------
(* Properties.                                                             *)

\* Types of the rows; a row whose pair never resolved is no evidence until an
\* exposure vouches for it.
TypeOK ==
    /\ born \in BOOLEAN
    /\ exposure \in [Exposures -> Links]
    /\ stored \subseteq Keys /\ row \in [Keys -> Rows]
    /\ win \in Wins
    /\ pc \in [Procs -> {"idle", "apply", "register", "grade", "commit"}]
    /\ blind \subseteq Keys \cup Exposures
    /\ overtaken \in [Procs -> SUBSET (Keys \cup Exposures)]
    /\ \A k \in Keys : k \notin stored => row[k] = Blank
    /\ \A k \in stored : k[1] = "unresolved" /\ row[k].exp = NoExposure => row[k].limited

\* Sources that disagree fail closed (merge_routing): a row that is evidence of
\* its own, and an exposure that vouches for rows, never had any other routing
\* claimed than that of a real send, in whatever order the claims came and
\* whatever overlapped.  The one exception is in the code: two sessions that
\* read one row both update it, and the later one, which has not seen the
\* earlier one's commit, overwrites its claim.
DisagreementFailsClosed ==
    /\ \A k \in stored \ blind : ~row[k].limited /\ row[k].exp = NoExposure => claims[k] = {"real"}
    /\ \A e \in Exposures \ blind : exposure[e].routing = "real" => claims[e] = {"real"}

Counted(S, rows) == Observed(Attributable(S, rows), rows)
Earned == win.eligible => Returned(Counted(stored, row), row) # {}
Causal ==
    LET seen == Counted(stored, row)
        treated == InArm(seen, row, "A")
        control == InArm(seen, row, "B")
    IN win.eligible /\ treated \cup control # {} => Returned(treated, row) # {} /\ control # {}

\* A session that is about the winner commits, and none did since it began.
Undisturbed(i) ==
    /\ pc[i] = "commit" /\ pc'[i] = "idle"
    /\ txn[i].reaches /\ overtaken[i] = {}

\* Nothing seeds other runs without surviving proof: whatever stale sessions
\* left behind, the next report or sweep of the winner that no commit overtakes
\* leaves it eligible only where a row that is evidence shows a return.  A
\* bounce or a conflict demotes (_promote_warm_start recomputes).
EligibilityIsEarned == [][\A i \in Procs : Undisturbed(i) => Earned']_vars

\* Such a session leaves a winner with arm-tagged evidence eligible only on a
\* treated return beside an observed control.
GrantIsCausal == [][\A i \in Procs : Undisturbed(i) => Causal']_vars

\* A measured horizon is rewritten by nobody who has seen it: what a row says
\* of Day 7 changes only in the commit of a session that read the row before
\* another wrote it.
MeasuredStands ==
    [][\A k \in Keys : row[k].ret # "unresolved" /\ row'[k].ret # row[k].ret =>
          \E i \in Procs : pc[i] = "commit" /\ pc'[i] = "idle" /\ txn[i].key = k /\ k \in overtaken[i]]_vars
=============================================================================
