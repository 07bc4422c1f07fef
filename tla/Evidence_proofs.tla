--------------------------- MODULE Evidence_proofs ---------------------------
(***************************************************************************)
(* Theorems about Evidence, for any number of sessions that overlap        *)
(* anyhow: its types, and its four other properties.  They follow from one *)
(* invariant: what a session holds is what the tables say, but for the     *)
(* rows and exposures others committed since it began.                     *)
(***************************************************************************)
EXTENDS Evidence, TLAPS

Senders == Sources \cup {"checkpoint"}
MaybeExposure == Exposures \cup {NoExposure}
Labels == {"idle", "apply", "register", "grade", "commit"}

\* What a session holds at each label.
Sessions == [item : Items, rec : Recs, retried : BOOLEAN, exp : MaybeExposure, routing : Routing,
             reaches : BOOLEAN, stored : SUBSET Keys, row : [Senders -> Rows], win : Wins]
Registers == [reg : Registrations, saw : Links]
Grades == [key : Keys, sweeps : MaybeExposure, shares : MaybeExposure, old : Rows, new : Rows]
Flushes == [key : Keys, sweeps : MaybeExposure, shares : MaybeExposure, claim : SUBSET Claim,
            old : Rows, new : Rows, reaches : BOOLEAN, was : Wins, win : Wins]
Txns == {Nothing} \cup Sessions \cup Registers \cup Grades \cup Flushes

\* A row of a pair that never resolved shows nothing unless an exposure vouches for it.
Unvouched(rec, r) == rec = "unresolved" /\ r.exp = NoExposure => r.limited

\* An ingest that others' commits, over, have overtaken since it read.
ReadWell(t, over) ==
    /\ t \in Sessions
    /\ t.rec = "unresolved" /\ t.reaches => t.exp # NoExposure
    /\ Unvouched(t.rec, Loaded(t))
    /\ Loaded(t).exp # NoExposure => row[Key(t)].exp # NoExposure
    /\ Key(t) \notin over => Loaded(t) = row[Key(t)]
    /\ over = {} => t.win = win /\ \A k \in t.stored : t.row[k[2]] = row[k]

SawWell(t, over) ==
    /\ t \in Registers
    /\ t.saw.here => exposure[t.reg.exposure].here
    /\ t.reg.exposure \notin over => t.saw = exposure[t.reg.exposure]

\* What will be written over what was read.
Sound(t, over) ==
    /\ Unvouched(t.key[1], t.old) /\ Unvouched(t.key[1], t.new)
    /\ t.old.exp # NoExposure => row[t.key].exp # NoExposure
    /\ t.new.exp # t.old.exp => t.new.exp # NoExposure
    /\ t.key \notin over => t.old = row[t.key]
    /\ t.old.ret # "unresolved" => t.new.ret = t.old.ret

\* A row no exposure speaks for: a sweep leaves its claims, a report merges its own.
Keeps(t) == t.new.exp = NoExposure =>
    t.old.exp = NoExposure /\ t.new.routing = t.old.routing /\ t.new.limited = t.old.limited
Merges(t, c) == t.new.exp = NoExposure =>
    /\ t.old.exp = NoExposure
    /\ t.new.routing = MergeRouting(t.old.routing, c)
    /\ ~t.new.limited => t.new.routing = "real"
ClaimKept(t) == (t.claim = {} /\ Keeps(t)) \/ \E c \in Claim : t.claim = {c} /\ Merges(t, c)

\* The rows a session leaves that nobody overtook, and what it promotes from them.
Leaves(t) == [row EXCEPT ![t.key] = t.new]
PromotedFrom(t, rows) == t.win = Promoted(Attributable(stored \cup {t.key}, rows), rows, t.was)

FlushedWell(t, over) ==
    /\ t \in Flushes /\ Sound(t, over) /\ ClaimKept(t)
    /\ over = {} /\ t.reaches => t.was = win /\ PromotedFrom(t, Leaves(t))

Holds(i) ==
    /\ pc[i] = "apply" => ReadWell(txn[i], overtaken[i])
    /\ pc[i] = "register" => SawWell(txn[i], overtaken[i])
    /\ pc[i] = "grade" => txn[i] \in Grades /\ Sound(txn[i], overtaken[i]) /\ Keeps(txn[i])
    /\ pc[i] = "commit" => FlushedWell(txn[i], overtaken[i])

\* TypeOK, and what the sessions under way rest on.
Inv ==
    /\ TypeOK
    /\ txn \in [Procs -> Txns]
    /\ \A e \in Exposures : exposure[e].linked => exposure[e].here
    /\ \A i \in Procs : Holds(i)

\* A routing says what was claimed.
Tells(routing, claimed) ==
    /\ routing = "" => claimed = {}
    /\ routing = "real" => claimed = {"real"}

ClaimsInv ==
    /\ claims \in [Keys \cup Exposures -> SUBSET Claim]
    /\ \A e \in Exposures \ blind : Tells(exposure[e].routing, claims[e])
    /\ \A k \in Keys \ blind : row[k].exp = NoExposure =>
          Tells(row[k].routing, claims[k]) /\ (~row[k].limited => row[k].routing = "real")

-----------------------------------------------------------------------------
(* The rules.                                                              *)

\* What promotion gives a winner is a state of a winner (_promote_warm_start).
LEMMA PromotedTyped ==
    ASSUME NEW K, NEW view, NEW old \in Wins
    PROVE  Promoted(K, view, old) \in Wins
<1> DEFINE observed == Observed(K, view)
           treated == InArm(observed, view, "A")
           control == InArm(observed, view, "B")
           positive == Returned(IF treated \cup control = {} THEN observed ELSE treated, view)
<1>1. \/ Promoted(K, view, old) = Unproven
      \/ Promoted(K, view, old) = [eligible |-> FALSE, status |-> IF positive = {} THEN old.status ELSE "directional"]
      \/ Promoted(K, view, old) = [eligible |-> positive # {}, status |-> IF positive = {} THEN "negative" ELSE "validated"]
  BY DEF Promoted
<1> DEFINE any == positive # {}
           first == IF positive = {} THEN old.status ELSE "directional"
           second == IF positive = {} THEN "negative" ELSE "validated"
<1>2. first \in {"none", "directional", "validated", "negative"} /\ any \in BOOLEAN
      /\ second \in {"none", "directional", "validated", "negative"}
  BY DEF Wins
<1> HIDE DEF observed, treated, control, positive, any, first, second
<1>3. Unproven \in Wins /\ [eligible |-> FALSE, status |-> first] \in Wins
      /\ [eligible |-> any, status |-> second] \in Wins
  BY <1>2 DEF Wins, Unproven
<1> QED
  BY <1>1, <1>3 DEF any, first, second

\* The rows K of a winner show a return; with arms, a treated one beside a control.
Proof(K, view) == Returned(Observed(K, view), view) # {}
Comparison(K, view) ==
    LET treated == InArm(Observed(K, view), view, "A")
        control == InArm(Observed(K, view), view, "B")
    IN treated \cup control # {} => Returned(treated, view) # {} /\ control # {}

\* Eligibility comes from a return, with arms a treated one beside a control
\* (_promote_warm_start).
LEMMA PromotedFacts ==
    ASSUME NEW K, NEW view, NEW old, Promoted(K, view, old).eligible
    PROVE  Proof(K, view) /\ Comparison(K, view)
<1> DEFINE observed == Observed(K, view)
           treated == InArm(observed, view, "A")
           control == InArm(observed, view, "B")
           positive == Returned(IF treated \cup control = {} THEN observed ELSE treated, view)
           said == Promoted(K, view, old)
<1>1. \/ observed = {} /\ said = Unproven
      \/ treated # {} /\ control = {}
         /\ said = [eligible |-> FALSE, status |-> IF positive = {} THEN old.status ELSE "directional"]
      \/ ~(treated # {} /\ control = {})
         /\ said = [eligible |-> positive # {}, status |-> IF positive = {} THEN "negative" ELSE "validated"]
  BY DEF Promoted
<1>2. treated \subseteq observed
  BY DEF InArm
<1> HIDE DEF observed, treated, control, positive, said
<1>3. said.eligible
  BY DEF said
<1>4. ~(treated # {} /\ control = {}) /\ positive # {}
  <2>1. Unproven.eligible = FALSE
    BY DEF Unproven
  <2>2. ASSUME NEW x, said = [eligible |-> FALSE, status |-> x] PROVE FALSE
    BY <1>3, <2>2
  <2>3. ASSUME NEW x, NEW y, said = [eligible |-> x, status |-> y] PROVE x
    BY <1>3, <2>3
  <2> QED
    BY <1>1, <1>3, <2>1, <2>2, <2>3
<1>5. positive = Returned(IF treated \cup control = {} THEN observed ELSE treated, view)
  BY DEF positive
<1>6. Returned(observed, view) # {}
  BY <1>2, <1>4, <1>5 DEF Returned
<1>7. treated \cup control # {} => Returned(treated, view) # {} /\ control # {}
  <2>1. Returned({}, view) = {}
    BY DEF Returned
  <2> QED
    BY <2>1, <1>4, <1>5
<1> QED
  BY <1>6, <1>7 DEF Proof, Comparison, observed, treated, control

\* A routing is merged into a routing.
LEMMA MergeTyped ==
    ASSUME NEW old \in Routing, NEW new \in Routing PROVE MergeRouting(old, new) \in Routing
  BY DEF MergeRouting, Routing, Claim

\* A merged routing tells of all claims (merge_routing).
LEMMA MergeTells ==
    ASSUME NEW old, NEW C, Tells(old, C), NEW r \in Claim
    PROVE  Tells(MergeRouting(old, r), C \cup ({r} \ {""}))
  BY DEF Tells, MergeRouting, Claim

\* A row nobody wrote is a row, and shows nothing.
LEMMA BlankFacts == Blank \in Rows /\ Blank.exp = NoExposure /\ Blank.limited /\ Blank.routing = ""
                    /\ Blank.ret = "unresolved"
  BY DEF Blank, Rows, Routing, Claim, Delivered, Measured

\* Six columns make a row.
LEMMA RowMade ==
    ASSUME NEW a \in Routing, NEW b \in Delivered, NEW c \in Measured, NEW d \in MaybeExposure,
           NEW e \in {"", "A", "B"}, NEW f \in BOOLEAN
    PROVE  [routing |-> a, delivered |-> b, ret |-> c, exp |-> d, arm |-> e, limited |-> f] \in Rows
  BY DEF Rows, MaybeExposure

\* What an item writes over what its session loaded is a row, and keeps its exposure.
LEMMA WrittenFacts ==
    ASSUME NEW t \in Sessions
    PROVE  /\ Key(t) \in Keys /\ Key(t)[1] = t.rec /\ Loaded(t) \in Rows /\ Written(t) \in Rows
           /\ t.item.routing \in Claim
           /\ Written(t).exp = ExposureOf(t)
           /\ Written(t).ret = FillHorizon(Loaded(t).ret, t.item.ret)
           /\ Written(t).routing = IF t.exp # NoExposure THEN t.routing
                                   ELSE MergeRouting(Loaded(t).routing, t.item.routing)
           /\ Written(t).limited = Limited(t.reaches \/ t.exp # NoExposure, Written(t))
<1>1. t.item \in Items /\ t.item.source \in Sources /\ t.item.routing \in Claim
      /\ t.item.delivered \in Delivered /\ t.item.ret \in Measured /\ t.item.exposure \in MaybeExposure
  BY EvidenceAssumption DEF Sessions, MaybeExposure
<1>2. t.rec \in Recs /\ t.exp \in MaybeExposure /\ t.routing \in Routing /\ t.reaches \in BOOLEAN
      /\ t.row \in [Senders -> Rows]
  BY DEF Sessions
<1>3. Key(t) \in Keys /\ Key(t)[1] = t.rec
  BY <1>1, <1>2 DEF Key, Keys
<1>4. Loaded(t) \in Rows
  BY BlankFacts, <1>1, <1>2 DEF Loaded, Senders
<1> DEFINE old == Loaded(t)
           merged == IF t.exp # NoExposure THEN t.routing ELSE MergeRouting(old.routing, t.item.routing)
           delivered == IF t.item.delivered = "unknown" THEN old.delivered ELSE t.item.delivered
           ret == FillHorizon(old.ret, t.item.ret)
           exp == ExposureOf(t)
           arm == IF t.exp # NoExposure THEN ArmOf[t.exp] ELSE old.arm
           new == [routing |-> merged, delivered |-> delivered, ret |-> ret, exp |-> exp, arm |-> arm,
                   limited |-> TRUE]
           limited == Limited(t.reaches \/ t.exp # NoExposure, new)
<1>5. /\ old.routing \in Routing /\ old.delivered \in Delivered /\ old.ret \in Measured
      /\ old.exp \in MaybeExposure /\ old.arm \in {"", "A", "B"}
  BY <1>4 DEF Rows, MaybeExposure
<1>6. merged \in Routing
  <2>1. t.item.routing \in Routing
    BY <1>1 DEF Routing
  <2> QED
    BY <2>1, <1>2, <1>5, MergeTyped
<1>7. delivered \in Delivered /\ ret \in Measured
  BY <1>1, <1>5 DEF FillHorizon
<1>8. exp \in MaybeExposure
  BY <1>1, <1>2, <1>5 DEF ExposureOf
<1>9. arm \in {"", "A", "B"}
  BY <1>2, <1>5, EvidenceAssumption DEF MaybeExposure
<1>10. limited \in BOOLEAN
  BY DEF Limited
<1>11. Written(t) = [new EXCEPT !.limited = limited]
  BY DEF Written
<1>12. Written(t) = [routing |-> merged, delivered |-> delivered, ret |-> ret, exp |-> exp, arm |-> arm,
                     limited |-> limited]
  BY <1>11
<1>13. Limited(t.reaches \/ t.exp # NoExposure, Written(t)) = limited
  BY <1>12 DEF Limited
<1>14. Written(t) \in Rows
  <2> HIDE DEF merged, delivered, ret, exp, arm, limited, old, new
  <2> QED
    BY <1>6, <1>7, <1>8, <1>9, <1>10, <1>12, RowMade
<1> QED
  BY <1>1, <1>3, <1>4, <1>12, <1>13, <1>14

RowColumns == {"routing", "delivered", "ret", "exp", "arm", "limited"}

\* Only the columns that changed are written: a row stays a row, and written by whoever
\* loaded it as it is, it becomes what was meant.
LEMMA ChangedRow ==
    ASSUME NEW old \in Rows, NEW new \in Rows, NEW r \in Rows
    PROVE  /\ Changed(old, new, r) \in Rows
           /\ Changed(old, new, r).exp = IF new.exp # old.exp THEN new.exp ELSE r.exp
           /\ Changed(old, new, r).limited = IF new.limited # old.limited THEN new.limited ELSE r.limited
           /\ old = r => Changed(old, new, r) = new
<1>1. DOMAIN r = RowColumns /\ DOMAIN new = RowColumns
  BY DEF Rows, RowColumns
<1>2. Changed(old, new, r) = [c \in RowColumns |-> IF new[c] # old[c] THEN new[c] ELSE r[c]]
  BY <1>1 DEF Changed
<1> DEFINE res == Changed(old, new, r)
           pick(c) == IF new[c] # old[c] THEN new[c] ELSE r[c]
<1>3. /\ res.routing = pick("routing") /\ res.delivered = pick("delivered") /\ res.ret = pick("ret")
      /\ res.exp = pick("exp") /\ res.arm = pick("arm") /\ res.limited = pick("limited")
  BY <1>2 DEF RowColumns
<1>4. /\ pick("routing") \in Routing /\ pick("delivered") \in Delivered /\ pick("ret") \in Measured
      /\ pick("exp") \in MaybeExposure /\ pick("arm") \in {"", "A", "B"} /\ pick("limited") \in BOOLEAN
  BY DEF Rows, MaybeExposure
<1>5. res = [routing |-> pick("routing"), delivered |-> pick("delivered"), ret |-> pick("ret"),
             exp |-> pick("exp"), arm |-> pick("arm"), limited |-> pick("limited")]
  BY <1>2 DEF RowColumns
<1>6. res \in Rows
  <2> HIDE DEF pick, res
  <2> QED
    BY <1>4, <1>5 DEF Rows, MaybeExposure
<1>7. ASSUME old = r PROVE res = new
  <2>1. new = [c \in RowColumns |-> new[c]]
    BY <1>1 DEF Rows
  <2>2. \A c \in RowColumns : pick(c) = new[c]
    BY <1>7
  <2> QED
    BY <2>1, <2>2, <1>2
<1> QED
  BY <1>3, <1>6, <1>7

\* The same of the winner's two columns.
LEMMA ChangedWin ==
    ASSUME NEW old \in Wins, NEW new \in Wins, NEW w \in Wins
    PROVE  Changed(old, new, w) \in Wins /\ (old = w => Changed(old, new, w) = new)
<1>1. DOMAIN w = {"eligible", "status"} /\ DOMAIN new = {"eligible", "status"}
  BY DEF Wins
<1>2. Changed(old, new, w) = [c \in {"eligible", "status"} |-> IF new[c] # old[c] THEN new[c] ELSE w[c]]
  BY <1>1 DEF Changed
<1> DEFINE pick(c) == IF new[c] # old[c] THEN new[c] ELSE w[c]
<1>3. Changed(old, new, w) = [eligible |-> pick("eligible"), status |-> pick("status")]
  BY <1>2
<1>4. pick("eligible") \in BOOLEAN /\ pick("status") \in {"none", "directional", "validated", "negative"}
  BY DEF Wins
<1>5. Changed(old, new, w) \in Wins
  <2> HIDE DEF pick
  <2> QED
    BY <1>3, <1>4 DEF Wins
<1>6. ASSUME old = w PROVE Changed(old, new, w) = new
  <2>1. new = [c \in {"eligible", "status"} |-> new[c]]
    BY <1>1 DEF Wins
  <2>2. \A c \in {"eligible", "status"} : pick(c) = new[c]
    BY <1>6
  <2> QED
    BY <2>1, <2>2, <1>2
<1> QED
  BY <1>5, <1>6

\* And of an exposure's, which is here once it was.
LEMMA ChangedLink ==
    ASSUME NEW old \in Links, NEW new \in Links, NEW x \in Links
    PROVE  /\ Changed(old, new, x) \in Links
           /\ Changed(old, new, x).here = IF new.here # old.here THEN new.here ELSE x.here
           /\ old = x => Changed(old, new, x) = new
<1>1. DOMAIN x = {"here", "linked", "routing"} /\ DOMAIN new = {"here", "linked", "routing"}
  BY DEF Links
<1>2. Changed(old, new, x) = [c \in {"here", "linked", "routing"} |-> IF new[c] # old[c] THEN new[c] ELSE x[c]]
  BY <1>1 DEF Changed
<1> DEFINE pick(c) == IF new[c] # old[c] THEN new[c] ELSE x[c]
<1>3. Changed(old, new, x) = [here |-> pick("here"), linked |-> pick("linked"), routing |-> pick("routing")]
  BY <1>2
<1>4. pick("here") \in BOOLEAN /\ pick("linked") \in BOOLEAN /\ pick("routing") \in Routing
  BY DEF Links
<1>5. Changed(old, new, x) \in Links
  <2> HIDE DEF pick
  <2> QED
    BY <1>3, <1>4 DEF Links
<1>6. ASSUME old = x PROVE Changed(old, new, x) = new
  <2>1. new = [c \in {"here", "linked", "routing"} |-> new[c]]
    BY <1>1 DEF Links
  <2>2. \A c \in {"here", "linked", "routing"} : pick(c) = new[c]
    BY <1>6
  <2> QED
    BY <2>1, <2>2, <1>2
<1> QED
  BY <1>3, <1>5, <1>6

\* What a session reads is so, and a pair that never resolved reaches the winner only
\* through an exposure that is here (_prefetch).
LEMMA SessionFacts ==
    ASSUME Inv, NEW it \in Items, NEW rec \in Recs, NEW re \in BOOLEAN
    PROVE  ReadWell(Session(it, rec, re), {})
<1>1. it.rec \in Named /\ it.exposure \in MaybeExposure /\ it.source \in Sources
  BY EvidenceAssumption DEF MaybeExposure
<1>2. Consulted(it) \in MaybeExposure
  BY <1>1 DEF Consulted, MaybeExposure
<1> DEFINE e == Consulted(it)
           exp == IF e # NoExposure /\ exposure[e].here THEN e ELSE NoExposure
           routing == IF e # NoExposure THEN exposure[e].routing ELSE ""
           reaches == rec = "winner" \/ (e # NoExposure /\ exposure[e].linked)
           held == {k \in stored : k[1] = rec}
           loaded == [s \in Senders |-> row[<<rec, s>>]]
           t == Session(it, rec, re)
<1>3. t = [item |-> it, rec |-> rec, retried |-> re, exp |-> exp, routing |-> routing,
           reaches |-> reaches, stored |-> held, row |-> loaded, win |-> win]
  BY DEF Session, Senders
<1>4. e # NoExposure => exposure[e] \in Links /\ (exposure[e].linked => exposure[e].here)
  BY <1>2 DEF Inv, TypeOK, MaybeExposure
<1>5. exp \in MaybeExposure /\ routing \in Routing /\ reaches \in BOOLEAN
  BY <1>2, <1>4 DEF MaybeExposure, Routing, Claim, Links
<1>6. held \in SUBSET Keys
  BY DEF Inv, TypeOK
<1>7. \A s \in Senders : <<rec, s>> \in Keys /\ row[<<rec, s>>] \in Rows
  BY DEF Inv, TypeOK, Keys, Senders
<1>8. loaded \in [Senders -> Rows]
  BY <1>7
<1>9. win \in Wins
  BY DEF Inv, TypeOK
<1>10. rec = "unresolved" /\ reaches => exp # NoExposure
  BY <1>4
<1>11. \A k \in held : loaded[k[2]] = row[k]
  <2> SUFFICES ASSUME NEW k \in held PROVE loaded[k[2]] = row[k]
    OBVIOUS
  <2>1. k \in Keys /\ k[1] = rec
    BY <1>6
  <2>2. k[2] \in Senders /\ k = <<k[1], k[2]>>
    BY <2>1 DEF Keys, Senders
  <2> QED
    BY <2>1, <2>2
<1> HIDE DEF e, exp, routing, reaches, held, loaded, t
<1>12. t \in Sessions
  BY <1>3, <1>5, <1>6, <1>8, <1>9 DEF Sessions
<1>13. /\ t.rec = rec /\ t.reaches = reaches /\ t.exp = exp /\ t.stored = held /\ t.row = loaded
       /\ t.win = win /\ t.item = it
  BY <1>3
<1>14. Key(t) = <<rec, it.source>> /\ Key(t) \in Keys
  BY <1>12, <1>13, WrittenFacts DEF Key
<1>15. Loaded(t) = row[Key(t)]
  <2>1. CASE Key(t) \in held
    <3>1. Key(t)[2] = it.source
      BY <1>14
    <3> QED
      BY <2>1, <3>1, <1>11, <1>13 DEF Loaded
  <2>2. CASE Key(t) \notin held
    <3>1. Key(t) \notin stored
      BY <2>2, <1>14 DEF held
    <3>2. row[Key(t)] = Blank
      BY <3>1, <1>14 DEF Inv, TypeOK
    <3> QED
      BY <3>2, <2>2, <1>13 DEF Loaded
  <2> QED
    BY <2>1, <2>2
<1>16. Unvouched(t.rec, row[Key(t)])
  <2>1. Key(t)[1] = t.rec
    BY <1>13, <1>14
  <2>2. Key(t) \notin stored => row[Key(t)] = Blank
    BY <1>14 DEF Inv, TypeOK
  <2> QED
    BY <2>1, <2>2, <1>14, BlankFacts DEF Unvouched, Inv, TypeOK
<1>17. ReadWell(t, {})
  BY <1>10, <1>11, <1>12, <1>13, <1>15, <1>16 DEF ReadWell
<1> QED
  BY <1>17 DEF t

-----------------------------------------------------------------------------
(* Sessions that a step is not about.                                      *)

\* Nothing is stored and nobody is under way.
LEMMA InvInit == Init => Inv
<1> SUFFICES ASSUME Init PROVE Inv
  OBVIOUS
<1>1. Unknown \in Links /\ Unproven \in Wins /\ ~Unknown.linked
  BY DEF Unknown, Links, Unproven, Wins, Routing, Claim
<1>2. TypeOK
  BY <1>1, BlankFacts DEF Init, TypeOK
<1> QED
  BY <1>1, <1>2 DEF Init, Inv, Holds, Txns

\* While the tables are as they were, what it holds is as true as it was.
LEMMA LeftAlone ==
    ASSUME Inv, UNCHANGED tables, NEW j \in Procs, pc'[j] = pc[j], txn'[j] = txn[j],
           overtaken'[j] = overtaken[j]
    PROVE  Holds(j)'
<1>1. exposure' = exposure /\ stored' = stored /\ row' = row /\ win' = win
  BY DEF tables
<1>2. Holds(j)
  BY DEF Inv
<1>3. ASSUME pc[j] = "apply" PROVE ReadWell(txn[j], overtaken[j])'
  BY <1>1, <1>2, <1>3 DEF Holds, ReadWell, Unvouched, Loaded, Key
<1>4. ASSUME pc[j] = "register" PROVE SawWell(txn[j], overtaken[j])'
  BY <1>1, <1>2, <1>4 DEF Holds, SawWell
<1>5. ASSUME pc[j] \in {"grade", "commit"} PROVE Sound(txn[j], overtaken[j])'
  BY <1>1, <1>2, <1>5 DEF Holds, FlushedWell, Sound, Unvouched
<1>6. ASSUME pc[j] = "grade" PROVE (txn[j] \in Grades /\ Keeps(txn[j]))'
  BY <1>2, <1>6 DEF Holds, Keeps
<1>7. ASSUME pc[j] = "commit" PROVE FlushedWell(txn[j], overtaken[j])'
  <2>1. FlushedWell(txn[j], overtaken[j])
    BY <1>2, <1>7 DEF Holds
  <2>2. (txn[j] \in Flushes /\ ClaimKept(txn[j]))'
    BY <2>1 DEF FlushedWell, ClaimKept, Keeps, Merges
  <2>3. PromotedFrom(txn[j], Leaves(txn[j])) => PromotedFrom(txn[j], Leaves(txn[j]))'
    <3> DEFINE rows == Leaves(txn[j])
               S == stored \cup {txn[j].key}
    <3>1. rows' = rows /\ S' = S
      BY <1>1 DEF Leaves
    <3> HIDE DEF rows, S
    <3>2. Attributable(S, rows)' = Attributable(S, rows)
      BY <1>1, <3>1 DEF Attributable
    <3>3. (txn[j].win = Promoted(Attributable(S, rows), rows, txn[j].was))
          => (txn[j].win = Promoted(Attributable(S, rows), rows, txn[j].was))'
      BY <3>1, <3>2 DEF Promoted, Observed, InArm, Returned
    <3> QED
      BY <3>3 DEF PromotedFrom, rows, S
  <2> QED
    BY <1>1, <1>5, <1>7, <2>1, <2>2, <2>3 DEF FlushedWell
<1> QED
  BY <1>3, <1>4, <1>5, <1>6, <1>7 DEF Holds

\* A commit of x leaves everything else: rows are stored for good and keep having an
\* exposure, and exposures stay.
Moves(x) ==
    /\ \A k \in Keys : row[k].exp # NoExposure => row'[k].exp # NoExposure
    /\ \A k \in Keys : k # x => row'[k] = row[k]
    /\ \A e \in Exposures : exposure[e].here => exposure'[e].here
    /\ \A e \in Exposures : e # x => exposure'[e] = exposure[e]

\* Whoever a commit overtakes holds what it held, true of all but what was committed.
LEMMA PassedBy ==
    ASSUME Inv, NEW x, Moves(x), NEW j \in Procs, pc'[j] = pc[j], txn'[j] = txn[j],
           overtaken'[j] = overtaken[j] \cup {x}
    PROVE  Holds(j)'
<1>2. Holds(j)
  BY DEF Inv
<1>3. ASSUME pc[j] = "apply" PROVE ReadWell(txn[j], overtaken[j])'
  <2>1. ReadWell(txn[j], overtaken[j])
    BY <1>2, <1>3 DEF Holds
  <2>2. Key(txn[j]) \in Keys /\ Loaded(txn[j])' = Loaded(txn[j]) /\ Key(txn[j])' = Key(txn[j])
    BY <2>1, WrittenFacts DEF ReadWell, Loaded, Key
  <2> QED
    BY <2>1, <2>2 DEF ReadWell, Unvouched, Moves
<1>4. ASSUME pc[j] = "register" PROVE SawWell(txn[j], overtaken[j])'
  <2>1. SawWell(txn[j], overtaken[j])
    BY <1>2, <1>4 DEF Holds
  <2>2. txn[j].reg.exposure \in Exposures
    BY <2>1, EvidenceAssumption DEF SawWell, Registers
  <2> QED
    BY <2>1, <2>2 DEF SawWell, Moves
<1>5. ASSUME pc[j] \in {"grade", "commit"} PROVE Sound(txn[j], overtaken[j])'
  <2>1. Sound(txn[j], overtaken[j]) /\ txn[j].key \in Keys
    BY <1>2, <1>5 DEF Holds, FlushedWell, Flushes, Grades
  <2> QED
    BY <2>1 DEF Sound, Unvouched, Moves
<1>6. ASSUME pc[j] = "grade" PROVE (txn[j] \in Grades /\ Keeps(txn[j]))'
  BY <1>2, <1>6 DEF Holds, Keeps
<1>7. ASSUME pc[j] = "commit" PROVE FlushedWell(txn[j], overtaken[j])'
  <2>1. FlushedWell(txn[j], overtaken[j])
    BY <1>2, <1>7 DEF Holds
  <2>2. (txn[j] \in Flushes /\ ClaimKept(txn[j]))'
    BY <2>1 DEF FlushedWell, ClaimKept, Keeps, Merges
  <2>3. overtaken'[j] # {}
    OBVIOUS
  <2> QED
    BY <1>5, <1>7, <2>2, <2>3 DEF FlushedWell
<1> QED
  BY <1>3, <1>4, <1>5, <1>6, <1>7 DEF Holds

-----------------------------------------------------------------------------
(* Sessions that begin.                                                    *)

\* What a session holds as it begins, of which nobody has overtaken it.
Starts(t, label) ==
    /\ t \in Txns /\ label \in Labels \ {"commit"}
    /\ label = "apply" => ReadWell(t, {})
    /\ label = "register" => SawWell(t, {})
    /\ label = "grade" => t \in Grades /\ Sound(t, {}) /\ Keeps(t)

LEMMA Begins ==
    ASSUME Inv, NEW i \in Procs, NEW t, NEW label, Starts(t, label), Begin(i, t, label),
           UNCHANGED <<born, tables, blind>>
    PROVE  Inv'
<1>1. txn \in [Procs -> Txns] /\ pc \in [Procs -> Labels]
      /\ overtaken \in [Procs -> SUBSET (Keys \cup Exposures)]
  BY DEF Inv, TypeOK, Labels
<1>2. /\ txn' = [txn EXCEPT ![i] = t] /\ pc' = [pc EXCEPT ![i] = label]
      /\ overtaken' = [overtaken EXCEPT ![i] = {}] /\ t \in Txns /\ label \in Labels
  BY DEF Begin, Hold, Goto, Starts
<1>3. /\ txn' \in [Procs -> Txns] /\ pc' \in [Procs -> Labels]
      /\ overtaken' \in [Procs -> SUBSET (Keys \cup Exposures)]
  BY <1>1, <1>2
<1>4. UNCHANGED <<exposure, stored, row, win>>
  BY DEF tables
<1>5. TypeOK'
  BY <1>3, <1>4 DEF Inv, TypeOK, Labels
<1>6. Holds(i)'
  <2>1. txn'[i] = t /\ pc'[i] = label /\ overtaken'[i] = {}
    BY <1>1, <1>2
  <2>2. label = "apply" => ReadWell(txn[i], overtaken[i])'
    BY <1>4, <2>1 DEF Starts, ReadWell, Unvouched, Loaded, Key
  <2>3. label = "register" => SawWell(txn[i], overtaken[i])'
    BY <1>4, <2>1 DEF Starts, SawWell
  <2>4. label = "grade" => (txn[i] \in Grades /\ Sound(txn[i], overtaken[i]) /\ Keeps(txn[i]))'
    BY <1>4, <2>1 DEF Starts, Sound, Unvouched, Keeps
  <2>5. label # "commit"
    BY DEF Starts
  <2> QED
    BY <2>1, <2>2, <2>3, <2>4, <2>5 DEF Holds
<1>7. ASSUME NEW j \in Procs PROVE Holds(j)'
  <2>1. CASE j # i
    BY <2>1, <1>1, <1>2, LeftAlone
  <2> QED
    BY <1>6, <2>1
<1>8. \A e \in Exposures : exposure'[e].linked => exposure'[e].here
  BY <1>4 DEF Inv
<1> QED
  BY <1>3, <1>5, <1>7, <1>8 DEF Inv

\* An ingest reads.
LEMMA InvRead == ASSUME Inv, NEW i \in Procs, NEW it \in Items, Read(i, it) PROVE Inv'
<1>1. Resolve(it) \in Recs
  BY EvidenceAssumption DEF Resolve, Recs, Named
<1>2. PICK t : t = Session(it, Resolve(it), FALSE)
  OBVIOUS
<1>3. ReadWell(t, {})
  BY <1>1, <1>2, SessionFacts
<1>4. Starts(t, "apply")
  BY <1>3 DEF Starts, ReadWell, Txns, Labels
<1> QED
  BY <1>2, <1>4, Begins DEF Read

\* And once more.
LEMMA InvRetry == ASSUME Inv, NEW i \in Procs, Retry(i) PROVE Inv'
<1>1. txn[i].item \in Items /\ txn[i].rec \in Recs
  BY DEF Retry, Inv, Holds, ReadWell, Sessions
<1>2. PICK t : t = Session(txn[i].item, txn[i].rec, TRUE)
  OBVIOUS
<1>3. ReadWell(t, {})
  BY <1>1, <1>2, SessionFacts
<1>4. Starts(t, "apply")
  BY <1>3 DEF Starts, ReadWell, Txns, Labels
<1> QED
  BY <1>2, <1>4, Begins DEF Retry

\* Or gives up.
LEMMA InvRefuse == ASSUME Inv, NEW i \in Procs, Refuse(i) PROVE Inv'
<1>1. Starts(Nothing, "idle")
  BY DEF Starts, Txns, Labels
<1> QED
  BY <1>1, Begins DEF Refuse, Abandon

\* A registration reads.
LEMMA InvRegisterRead ==
    ASSUME Inv, NEW i \in Procs, NEW reg \in Registrations, RegisterRead(i, reg) PROVE Inv'
<1>1. PICK t : t = [reg |-> reg, saw |-> exposure[reg.exposure]]
  OBVIOUS
<1>2. reg.exposure \in Exposures /\ exposure[reg.exposure] \in Links
  BY EvidenceAssumption DEF Inv, TypeOK
<1>3. t \in Registers /\ t.reg = reg /\ t.saw = exposure[t.reg.exposure]
  BY <1>1, <1>2 DEF Registers
<1>4. Starts(t, "register")
  BY <1>3 DEF Starts, SawWell, Txns, Labels
<1> QED
  BY <1>1, <1>4, Begins DEF RegisterRead

\* And once more.
LEMMA InvRegisterRetry == ASSUME Inv, NEW i \in Procs, RegisterRetry(i) PROVE Inv'
<1>1. PICK t : t = [txn[i] EXCEPT !.saw = exposure[txn[i].reg.exposure]]
  OBVIOUS
<1>2. txn[i] \in Registers
  BY DEF RegisterRetry, Inv, Holds, SawWell
<1>3. txn[i].reg \in Registrations /\ txn[i].reg.exposure \in Exposures
      /\ exposure[txn[i].reg.exposure] \in Links
  BY <1>2, EvidenceAssumption DEF Inv, TypeOK, Registers
<1>4. t \in Registers /\ t.reg = txn[i].reg /\ t.saw = exposure[t.reg.exposure]
  BY <1>1, <1>2, <1>3 DEF Registers
<1>5. Starts(t, "register")
  BY <1>4 DEF Starts, SawWell, Txns, Labels
<1> QED
  BY <1>1, <1>5, Begins DEF RegisterRetry

\* A synthesized row is a row, of its exposure.
LEMMA SynthesizedFacts ==
    ASSUME Inv, NEW e \in Exposures
    PROVE  Synthesized(e) \in Rows /\ Synthesized(e).exp = e
<1> DEFINE a == [Blank EXCEPT !.routing = exposure[e].routing]
           b == [a EXCEPT !.exp = e]
           c == [b EXCEPT !.arm = ArmOf[e]]
<1>1. exposure[e].routing \in Routing /\ ArmOf[e] \in {"", "A", "B"}
  BY EvidenceAssumption DEF Inv, TypeOK, Links
<1>2. a \in Rows
  BY <1>1, BlankFacts DEF Rows
<1>3. b \in Rows /\ b.exp = e
  BY <1>2 DEF Rows
<1> HIDE DEF b
<1>4. c \in Rows /\ c.exp = e
  BY <1>1, <1>3 DEF Rows
<1>5. [Blank EXCEPT !.routing = exposure[e].routing, !.exp = e, !.arm = ArmOf[e]] = c
  BY DEF b
<1> HIDE DEF c
<1>6. Synthesized(e) = [c EXCEPT !.limited = Limited(TRUE, c)]
  BY <1>5 DEF Synthesized
<1>7. Limited(TRUE, c) \in BOOLEAN
  BY DEF Limited
<1> QED
  BY <1>4, <1>6, <1>7 DEF Rows

\* A sweep takes an unmeasured row, or one it synthesizes.
LEMMA InvSweepRead == ASSUME Inv, NEW i \in Procs, NEW k \in Keys, SweepRead(i, k) PROVE Inv'
<1> DEFINE base == IF k \notin stored THEN Synthesized(k[1]) ELSE row[k]
           new == [base EXCEPT !.ret = "no"]
           swept == IF k \notin stored THEN k[1] ELSE NoExposure
<1>1. row[k] \in Rows /\ (k \notin stored => row[k] = Blank)
  BY DEF Inv, TypeOK
<1>2. k \notin stored => k[1] \in Exposures
  BY DEF SweepRead
<1>3. base \in Rows /\ (k \notin stored => base.exp = k[1])
  BY <1>1, <1>2, SynthesizedFacts
<1>4. row[k].ret = "unresolved"
  BY <1>1, BlankFacts DEF SweepRead
<1>5. swept \in MaybeExposure
  BY <1>2 DEF MaybeExposure
<1>6. k \in stored => base = row[k]
  OBVIOUS
<1>7. Begin(i, [key |-> k, sweeps |-> swept, shares |-> NoExposure, old |-> row[k], new |-> new], "grade")
  BY DEF SweepRead
<1> HIDE DEF base, swept
<1>8. new \in Rows /\ new.exp = base.exp /\ new.routing = base.routing /\ new.limited = base.limited
  BY <1>3 DEF Rows, Measured
<1> HIDE DEF new
<1>9. PICK t : t = [key |-> k, sweeps |-> swept, shares |-> NoExposure, old |-> row[k], new |-> new]
  OBVIOUS
<1>10. t.key = k /\ t.old = row[k] /\ t.new = new /\ t \in Grades
  BY <1>1, <1>5, <1>8, <1>9 DEF Grades, MaybeExposure
<1>11. k \notin stored => new.exp # NoExposure
  BY <1>2, <1>3, <1>8, EvidenceAssumption
<1>12. Unvouched(k[1], row[k])
  BY <1>1, BlankFacts DEF Unvouched, Inv, TypeOK
<1>13. Unvouched(k[1], new) /\ (new.exp # row[k].exp => new.exp # NoExposure)
  BY <1>6, <1>8, <1>11, <1>12 DEF Unvouched
<1>14. Sound(t, {})
  BY <1>4, <1>10, <1>12, <1>13 DEF Sound
<1>15. Keeps(t)
  BY <1>6, <1>8, <1>10, <1>11 DEF Keeps
<1>16. Starts(t, "grade")
  BY <1>10, <1>14, <1>15 DEF Starts, Txns, Labels
<1> QED
  BY <1>7, <1>9, <1>16, Begins DEF SweepRead

-----------------------------------------------------------------------------
(* Sessions that flush.                                                    *)

LEMMA Flushed ==
    ASSUME Inv, NEW i \in Procs, NEW t, FlushedWell(t, overtaken[i]), Hold(i, t), Goto(i, "commit"),
           UNCHANGED <<born, tables, history>>
    PROVE  Inv'
<1>1. txn \in [Procs -> Txns] /\ pc \in [Procs -> Labels]
  BY DEF Inv, TypeOK, Labels
<1>2. txn' = [txn EXCEPT ![i] = t] /\ pc' = [pc EXCEPT ![i] = "commit"]
  BY DEF Hold, Goto
<1>3. t \in Txns
  BY DEF FlushedWell, Txns
<1>4. txn' \in [Procs -> Txns] /\ pc' \in [Procs -> Labels]
  BY <1>1, <1>2, <1>3 DEF Labels
<1>5. UNCHANGED <<exposure, stored, row, win, overtaken, blind>>
  BY DEF tables, history
<1>6. TypeOK'
  BY <1>4, <1>5 DEF Inv, TypeOK, Labels
<1>7. Holds(i)'
  <2>1. txn'[i] = t /\ pc'[i] = "commit" /\ overtaken'[i] = overtaken[i]
    BY <1>1, <1>2, <1>5
  <2>2. (txn[i] \in Flushes /\ Sound(txn[i], overtaken[i]) /\ ClaimKept(txn[i]))'
    BY <1>5, <2>1 DEF FlushedWell, Sound, Unvouched, ClaimKept, Keeps, Merges
  <2>3. overtaken[i] = {} /\ t.reaches => (txn[i].was = win /\ PromotedFrom(txn[i], Leaves(txn[i])))'
    <3> SUFFICES ASSUME overtaken[i] = {}, t.reaches PROVE (txn[i].was = win /\ PromotedFrom(txn[i], Leaves(txn[i])))'
      OBVIOUS
    <3>1. t.was = win /\ t.win = Promoted(Attributable(stored \cup {t.key}, Leaves(t)), Leaves(t), t.was)
      BY DEF FlushedWell, PromotedFrom
    <3>2. Leaves(txn[i])' = Leaves(t) /\ (stored \cup {txn[i].key})' = stored \cup {t.key}
      BY <1>5, <2>1 DEF Leaves
    <3>3. Attributable(stored \cup {txn[i].key}, Leaves(txn[i]))' = Attributable(stored \cup {t.key}, Leaves(t))
      BY <1>5, <3>2 DEF Attributable
    <3>4. PromotedFrom(txn[i], Leaves(txn[i]))'
      <4> DEFINE rows == Leaves(txn[i])
                 K == Attributable(stored \cup {txn[i].key}, Leaves(txn[i]))
      <4>1. PICK R, Q : R = Leaves(t) /\ Q = Attributable(stored \cup {t.key}, Leaves(t))
        OBVIOUS
      <4>2. K' = Q /\ rows' = R
        BY <3>2, <3>3, <4>1
      <4>3. t.win = Promoted(Q, R, t.was)
        BY <3>1, <4>1
      <4> HIDE DEF rows, K
      <4>4. (txn[i].win = Promoted(K, rows, txn[i].was))'
        BY <2>1, <4>2, <4>3 DEF Promoted, Observed, InArm, Returned
      <4> QED
        BY <4>4 DEF PromotedFrom, rows, K
    <3> QED
      BY <1>5, <2>1, <3>1, <3>4
  <2> QED
    BY <2>1, <2>2, <2>3 DEF Holds, FlushedWell
<1>8. ASSUME NEW j \in Procs PROVE Holds(j)'
  <2>1. CASE j # i
    BY <2>1, <1>1, <1>2, <1>5, LeftAlone
  <2> QED
    BY <1>7, <2>1
<1>9. \A e \in Exposures : exposure'[e].linked => exposure'[e].here
  BY <1>5 DEF Inv
<1> QED
  BY <1>4, <1>6, <1>8, <1>9 DEF Inv

\* A row with no exposure is what the report merged, and evidence only if it reached
\* a real send (_apply_item).
LEMMA WrittenWell ==
    ASSUME NEW t, NEW over, ReadWell(t, over)
    PROVE  /\ Unvouched(t.rec, Written(t))
           /\ Written(t).exp # Loaded(t).exp => Written(t).exp # NoExposure
           /\ Loaded(t).ret # "unresolved" => Written(t).ret = Loaded(t).ret
           /\ Written(t).exp = NoExposure =>
                 /\ Loaded(t).exp = NoExposure
                 /\ Written(t).routing = MergeRouting(Loaded(t).routing, t.item.routing)
                 /\ ~Written(t).limited => Written(t).routing = "real"
<1>1. /\ Written(t).exp = ExposureOf(t)
      /\ Written(t).ret = FillHorizon(Loaded(t).ret, t.item.ret)
      /\ Written(t).routing = IF t.exp # NoExposure THEN t.routing
                              ELSE MergeRouting(Loaded(t).routing, t.item.routing)
      /\ Written(t).limited = Limited(t.reaches \/ t.exp # NoExposure, Written(t))
  BY WrittenFacts DEF ReadWell
<1>2. Key(t) \notin t.stored => Loaded(t).exp = NoExposure
  BY BlankFacts DEF Loaded
<1>3. /\ Written(t).exp = NoExposure => t.exp = NoExposure /\ Loaded(t).exp = NoExposure
      /\ Written(t).exp # Loaded(t).exp => Written(t).exp # NoExposure
  BY <1>1, <1>2 DEF ExposureOf
<1>4. Unvouched(t.rec, Written(t))
  BY <1>1, <1>3 DEF ReadWell, Unvouched, Limited
<1> QED
  BY <1>1, <1>3, <1>4 DEF FillHorizon, Limited

\* A flush nobody overtook sees the rows as they will be once it is committed.
LEMMA FlushSees ==
    ASSUME Inv, NEW t, ReadWell(t, {})
    PROVE  /\ View(t) = [row EXCEPT ![Key(t)] = Written(t)]
           /\ Reached(t) = Attributable(stored \cup {Key(t)}, [row EXCEPT ![Key(t)] = Written(t)])
<1>1. /\ Key(t) \in Keys /\ Loaded(t) \in Rows /\ Written(t) \in Rows
      /\ row \in [Keys -> Rows] /\ Loaded(t) = row[Key(t)]
  BY WrittenFacts DEF ReadWell, Inv, TypeOK
<1>2. Changed(Loaded(t), Written(t), row[Key(t)]) = Written(t)
  BY <1>1, ChangedRow
<1>3. ASSUME NEW k \in Keys
      PROVE  View(t)[k] = IF k = Key(t) THEN Written(t) ELSE row[k]
  <2>1. k \in t.stored => t.row[k[2]] = row[k]
    BY DEF ReadWell
  <2> QED
    BY <2>1 DEF View
<1>4. View(t) = [row EXCEPT ![Key(t)] = Written(t)]
  BY <1>1, <1>3 DEF View
<1>5. [row EXCEPT ![Key(t)] = Changed(Loaded(t), Written(t), @)] = [row EXCEPT ![Key(t)] = Written(t)]
  BY <1>1, <1>2
<1> QED
  BY <1>4, <1>5 DEF Reached

\* An ingest flushes.
LEMMA InvFlush == ASSUME Inv, NEW i \in Procs, Flush(i) PROVE Inv'
<1> DEFINE referred(t) == IF Written(t).exp # Loaded(t).exp THEN Written(t).exp ELSE NoExposure
<1>1. PICK t : t = txn[i]
  OBVIOUS
<1>2. PICK over : over = overtaken[i]
  OBVIOUS
<1>3. ReadWell(t, over) /\ t \in Sessions
  BY <1>1, <1>2 DEF Flush, Inv, Holds, ReadWell
<1>4. /\ Key(t) \in Keys /\ Key(t)[1] = t.rec /\ Loaded(t) \in Rows /\ Written(t) \in Rows
      /\ t.item.routing \in Claim /\ t.win \in Wins /\ t.reaches \in BOOLEAN
  BY <1>3, WrittenFacts DEF Sessions
<1>5. PICK w : w = IF t.reaches THEN Promoted(Reached(t), View(t), t.win) ELSE t.win
  OBVIOUS
<1>6. w \in Wins
  BY <1>4, <1>5, PromotedTyped
<1>7. PICK e : e = referred(t)
  OBVIOUS
<1>8. e \in MaybeExposure
  BY <1>4, <1>7 DEF Rows, MaybeExposure
<1>9. PICK f : f = [key |-> Key(t), sweeps |-> NoExposure, shares |-> e, claim |-> {t.item.routing},
                    old |-> Loaded(t), new |-> Written(t), reaches |-> t.reaches, was |-> t.win, win |-> w]
  OBVIOUS
<1>10. Hold(i, f) /\ Goto(i, "commit") /\ UNCHANGED <<born, tables, history>>
  BY <1>1, <1>5, <1>7, <1>9 DEF Flush
<1>11. /\ f.key = Key(t) /\ f.claim = {t.item.routing} /\ f.old = Loaded(t) /\ f.new = Written(t)
       /\ f.reaches = t.reaches /\ f.was = t.win /\ f.win = w
  BY <1>9
<1>12. f \in Flushes
  <2>1. {t.item.routing} \in SUBSET Claim /\ NoExposure \in MaybeExposure
    BY <1>4 DEF MaybeExposure
  <2> QED
    BY <2>1, <1>4, <1>6, <1>8, <1>9 DEF Flushes
<1>13. Sound(f, over)
  BY <1>3, <1>4, <1>11, WrittenWell DEF Sound, ReadWell
<1>14. Merges(f, t.item.routing)
  BY <1>3, <1>11, WrittenWell DEF Merges
<1>15. ClaimKept(f)
  BY <1>4, <1>11, <1>14 DEF ClaimKept
<1>16. ASSUME over = {}, f.reaches PROVE f.was = win /\ PromotedFrom(f, Leaves(f))
  <2>1. t.win = win
    BY <1>3, <1>16 DEF ReadWell
  <2>2. View(t) = Leaves(f) /\ Reached(t) = Attributable(stored \cup {f.key}, Leaves(f))
    BY <1>3, <1>11, <1>16, FlushSees DEF Leaves
  <2> QED
    BY <2>1, <2>2, <1>5, <1>11, <1>16 DEF PromotedFrom
<1>17. FlushedWell(f, over)
  BY <1>12, <1>13, <1>15, <1>16 DEF FlushedWell
<1> QED
  BY <1>2, <1>10, <1>17, Flushed

\* A sweep flushes.
LEMMA InvGrade == ASSUME Inv, NEW i \in Procs, Grade(i) PROVE Inv'
<1>1. PICK t : t = txn[i]
  OBVIOUS
<1>2. PICK over : over = overtaken[i]
  OBVIOUS
<1>3. t \in Grades /\ Sound(t, over) /\ Keeps(t)
  BY <1>1, <1>2 DEF Grade, Inv, Holds
<1>4. PICK rows, K : rows = [row EXCEPT ![t.key] = t.new] /\ K = Attributable(stored \cup {t.key}, rows)
  OBVIOUS
<1>5. PICK reaches \in BOOLEAN : reaches = (born /\ t.key \in K)
  BY DEF Inv, TypeOK
<1>6. PICK w : w = IF reaches THEN Promoted(K, rows, win) ELSE win
  OBVIOUS
<1>7. win \in Wins
  BY DEF Inv, TypeOK
<1>8. w \in Wins
  BY <1>6, <1>7, PromotedTyped
<1>9. PICK f : f = [key |-> t.key, sweeps |-> t.sweeps, shares |-> t.shares, claim |-> {},
                    old |-> t.old, new |-> t.new, reaches |-> reaches, was |-> win, win |-> w]
  OBVIOUS
<1>10. Hold(i, f) /\ Goto(i, "commit") /\ UNCHANGED <<born, tables, history>>
  BY <1>1, <1>4, <1>5, <1>6, <1>9 DEF Grade
<1>11. /\ f.key = t.key /\ f.claim = {} /\ f.old = t.old /\ f.new = t.new
       /\ f.reaches = reaches /\ f.was = win /\ f.win = w
  BY <1>9
<1>12. f \in Flushes
  BY <1>3, <1>7, <1>8, <1>9 DEF Flushes, Grades
<1>13. Sound(f, over)
  BY <1>3, <1>11 DEF Sound
<1>14. ClaimKept(f)
  BY <1>3, <1>11 DEF ClaimKept, Keeps
<1>15. f.reaches => f.was = win /\ PromotedFrom(f, Leaves(f))
  BY <1>4, <1>6, <1>11 DEF PromotedFrom, Leaves
<1>16. FlushedWell(f, over)
  BY <1>12, <1>13, <1>14, <1>15 DEF FlushedWell
<1> QED
  BY <1>2, <1>10, <1>16, Flushed

-----------------------------------------------------------------------------
(* Sessions that commit.                                                   *)

\* Everyone else is passed by.
LEMMA Others ==
    ASSUME Inv, NEW i \in Procs, NEW x \in Keys \cup Exposures, NEW c, Moves(x), Ends(i, x, c)
    PROVE  /\ txn' \in [Procs -> Txns] /\ pc' \in [Procs -> Labels]
           /\ overtaken' \in [Procs -> SUBSET (Keys \cup Exposures)]
           /\ blind' \subseteq Keys \cup Exposures
           /\ \A j \in Procs : Holds(j)'
<1>1. txn \in [Procs -> Txns] /\ pc \in [Procs -> Labels] /\ blind \subseteq Keys \cup Exposures
      /\ overtaken \in [Procs -> SUBSET (Keys \cup Exposures)]
  BY DEF Inv, TypeOK, Labels
<1>2. /\ pc' = [pc EXCEPT ![i] = "idle"] /\ txn' = [txn EXCEPT ![i] = Nothing]
      /\ blind' = blind \cup (overtaken[i] \cap {x})
      /\ overtaken' = [j \in Procs |-> IF j = i \/ pc[j] = "idle" THEN {} ELSE overtaken[j] \cup {x}]
  BY DEF Ends
<1>3. Nothing \in Txns
  BY DEF Txns
<1>4. /\ txn' \in [Procs -> Txns] /\ pc' \in [Procs -> Labels]
      /\ overtaken' \in [Procs -> SUBSET (Keys \cup Exposures)]
      /\ blind' \subseteq Keys \cup Exposures
  BY <1>1, <1>2, <1>3 DEF Labels
<1>5. ASSUME NEW j \in Procs PROVE Holds(j)'
  <2>1. CASE j = i \/ pc[j] = "idle"
    <3>1. pc'[j] = "idle"
      BY <2>1, <1>1, <1>2
    <3> QED
      BY <3>1 DEF Holds
  <2>2. CASE j # i /\ pc[j] # "idle"
    <3>1. pc'[j] = pc[j] /\ txn'[j] = txn[j] /\ overtaken'[j] = overtaken[j] \cup {x}
      BY <2>2, <1>1, <1>2
    <3> QED
      BY <3>1, PassedBy
  <2> QED
    BY <2>1, <2>2
<1> QED
  BY <1>4, <1>5

\* A commit writes a row over a row, and never takes an exposure off it.
LEMMA InvCommit == ASSUME Inv, NEW i \in Procs, Commit(i) PROVE Inv'
<1>1. PICK t : t = txn[i]
  OBVIOUS
<1>2. t \in Flushes /\ Sound(t, overtaken[i])
  BY <1>1 DEF Commit, Inv, Holds, FlushedWell
<1>3. /\ t.old \in Rows /\ t.new \in Rows /\ t.was \in Wins /\ t.win \in Wins /\ t.key \in Keys
  BY <1>2 DEF Flushes
<1>4. /\ row \in [Keys -> Rows] /\ row[t.key] \in Rows /\ win \in Wins /\ stored \subseteq Keys
      /\ Exposures \cap Keys = {}
  BY <1>3, EvidenceAssumption DEF Inv, TypeOK
<1>5. PICK r : r = Changed(t.old, t.new, row[t.key])
  OBVIOUS
<1>6. /\ r \in Rows /\ r.exp = (IF t.new.exp # t.old.exp THEN t.new.exp ELSE row[t.key].exp)
      /\ r.limited = (IF t.new.limited # t.old.limited THEN t.new.limited ELSE row[t.key].limited)
  BY <1>3, <1>4, <1>5, ChangedRow
<1>7. Changed(t.was, t.win, win) \in Wins
  BY <1>3, <1>4, ChangedWin
<1>8. /\ row' = [row EXCEPT ![t.key] = r] /\ stored' = stored \cup {t.key}
      /\ win' = Changed(t.was, t.win, win) /\ exposure' = exposure /\ born' = born
      /\ Ends(i, t.key, t.claim)
  BY <1>1, <1>5 DEF Commit
<1>9. row[t.key].exp # NoExposure => r.exp # NoExposure
  BY <1>2, <1>6 DEF Sound
<1>10. Unvouched(t.key[1], r)
  <2>1. Unvouched(t.key[1], row[t.key])
    BY <1>3, BlankFacts DEF Inv, TypeOK, Unvouched
  <2>2. t.old.limited \in BOOLEAN /\ t.new.limited \in BOOLEAN
    BY <1>3 DEF Rows
  <2> QED
    BY <2>1, <2>2, <1>2, <1>6 DEF Sound, Unvouched
<1>11. row' \in [Keys -> Rows] /\ row'[t.key] = r /\ \A k \in Keys : k # t.key => row'[k] = row[k]
  BY <1>3, <1>4, <1>6, <1>8
<1>12. Moves(t.key)
  BY <1>8, <1>9, <1>11 DEF Moves
<1>13. /\ txn' \in [Procs -> Txns] /\ pc' \in [Procs -> Labels]
       /\ overtaken' \in [Procs -> SUBSET (Keys \cup Exposures)]
       /\ blind' \subseteq Keys \cup Exposures
       /\ \A j \in Procs : Holds(j)'
  BY <1>3, <1>8, <1>12, Others
<1>14. ASSUME NEW k \in Keys
       PROVE  /\ k \notin stored' => row'[k] = Blank
              /\ k \in stored' /\ k[1] = "unresolved" /\ row'[k].exp = NoExposure => row'[k].limited
  <2>1. CASE k = t.key
    BY <2>1, <1>8, <1>10, <1>11 DEF Unvouched
  <2>2. CASE k # t.key
    BY <2>2, <1>8, <1>11 DEF Inv, TypeOK
  <2> QED
    BY <2>1, <2>2
<1>15. stored' \subseteq Keys
  BY <1>3, <1>4, <1>8
<1>16. TypeOK'
  BY <1>7, <1>8, <1>11, <1>13, <1>14, <1>15 DEF Inv, TypeOK, Labels
<1> QED
  BY <1>8, <1>13, <1>16 DEF Inv

\* Registration links and merges routings; what is here stays.
LEMMA InvRegisterCommit == ASSUME Inv, NEW i \in Procs, RegisterCommit(i) PROVE Inv'
<1>1. PICK t : t = txn[i]
  OBVIOUS
<1>2. PICK e : e = t.reg.exposure
  OBVIOUS
<1>3. SawWell(t, overtaken[i]) /\ t \in Registers
  BY <1>1 DEF RegisterCommit, Inv, Holds, SawWell
<1>4. t.saw \in Links /\ e \in Exposures /\ t.reg.named \in BOOLEAN /\ t.reg.routing \in Claim
  BY <1>2, <1>3, EvidenceAssumption DEF Registers
<1>5. exposure \in [Exposures -> Links] /\ exposure[e] \in Links /\ Exposures \cap Keys = {}
  BY <1>4, EvidenceAssumption DEF Inv, TypeOK
<1>6. Registered(t) \in Links /\ Registered(t).here
  <2>1. MergeRouting(t.saw.routing, t.reg.routing) \in Routing
    BY <1>4, MergeTyped DEF Links, Routing
  <2>2. (t.saw.linked \/ t.reg.named) \in BOOLEAN
    BY <1>4 DEF Links
  <2> QED
    BY <2>1, <2>2 DEF Registered, Links
<1>7. PICK x : x = Changed(t.saw, Registered(t), exposure[e])
  OBVIOUS
<1>8. x \in Links /\ x.here
  <2>1. x \in Links /\ x.here = IF Registered(t).here # t.saw.here THEN Registered(t).here ELSE exposure[e].here
    <3>1. PICK y \in Links, z \in Links, s \in Links : y = Registered(t) /\ z = exposure[e] /\ s = t.saw
      BY <1>4, <1>5, <1>6
    <3>2. Changed(s, y, z) \in Links
          /\ Changed(s, y, z).here = IF y.here # s.here THEN y.here ELSE z.here
      BY ChangedLink
    <3> QED
      BY <3>1, <3>2, <1>7
  <2>2. t.saw.here => exposure[e].here
    BY <1>2, <1>3 DEF SawWell
  <2>3. Registered(t).here = TRUE /\ t.saw.here \in BOOLEAN
    BY <1>4 DEF Registered, Links
  <2> QED
    BY <2>1, <2>2, <2>3
<1>9. /\ exposure' = [exposure EXCEPT ![e] = x] /\ Ends(i, e, {t.reg.routing})
      /\ UNCHANGED <<born, stored, row, win>>
  BY <1>1, <1>2, <1>7 DEF RegisterCommit
<1>10. /\ exposure' \in [Exposures -> Links] /\ exposure'[e] = x
       /\ \A f \in Exposures : f # e => exposure'[f] = exposure[f]
  BY <1>4, <1>5, <1>8, <1>9
<1>11. Moves(e)
  BY <1>4, <1>8, <1>9, <1>10 DEF Moves
<1>12. /\ txn' \in [Procs -> Txns] /\ pc' \in [Procs -> Labels]
       /\ overtaken' \in [Procs -> SUBSET (Keys \cup Exposures)]
       /\ blind' \subseteq Keys \cup Exposures
       /\ \A j \in Procs : Holds(j)'
  BY <1>4, <1>9, <1>11, Others
<1>13. TypeOK'
  BY <1>9, <1>10, <1>12 DEF Inv, TypeOK, Labels
<1>14. \A f \in Exposures : exposure'[f].linked => exposure'[f].here
  BY <1>8, <1>10 DEF Inv
<1> QED
  BY <1>12, <1>13, <1>14 DEF Inv

\* The winner is recorded.
LEMMA InvRecordWinner == ASSUME Inv, RecordWinner PROVE Inv'
<1>1. UNCHANGED <<tables, pc, txn, history>> /\ born' = TRUE
  BY DEF RecordWinner
<1>2. UNCHANGED <<exposure, stored, row, win, overtaken, blind>>
  BY <1>1 DEF tables, history
<1>3. TypeOK'
  BY <1>1, <1>2 DEF Inv, TypeOK
<1>4. \A j \in Procs : Holds(j)'
  BY <1>1, <1>2, LeftAlone
<1> QED
  BY <1>1, <1>2, <1>3, <1>4 DEF Inv

\* Every step keeps the invariant.
LEMMA InvNext == Inv /\ [Next]_vars => Inv'
<1> SUFFICES ASSUME Inv, [Next]_vars PROVE Inv'
  OBVIOUS
<1>1. CASE UNCHANGED vars
  <2>1. UNCHANGED <<born, tables, pc, txn, history>>
    BY <1>1 DEF vars
  <2>2. UNCHANGED <<exposure, stored, row, win, overtaken, blind>>
    BY <2>1 DEF tables, history
  <2>3. TypeOK'
    BY <2>1, <2>2 DEF Inv, TypeOK
  <2>4. \A j \in Procs : Holds(j)'
    BY <2>1, <2>2, LeftAlone
  <2> QED
    BY <2>1, <2>2, <2>3, <2>4 DEF Inv
<1> QED
  BY <1>1, InvRead, InvRetry, InvRefuse, InvFlush, InvCommit, InvRegisterRead, InvRegisterRetry,
     InvRegisterCommit, InvSweepRead, InvGrade, InvRecordWinner
     DEF Next

\* Rows, registry, winner and sessions keep their types, and a row whose pair never
\* resolved is no evidence without an exposure, however sessions overlap.
THEOREM EvidenceTyped == Spec => []TypeOK
<1>1. Inv => TypeOK
  BY DEF Inv
<1> QED
  BY <1>1, InvInit, InvNext, PTL DEF Spec

-----------------------------------------------------------------------------
(* The properties.                                                         *)

\* What a commit that nobody overtook leaves is what its session meant to leave.
LEMMA Unhindered ==
    ASSUME Inv, NEW i \in Procs, Commit(i), txn[i].key \notin overtaken[i]
    PROVE  /\ row' = [row EXCEPT ![txn[i].key] = txn[i].new]
           /\ txn[i].old = row[txn[i].key] /\ txn[i].key \in Keys /\ row' \in [Keys -> Rows]
<1>1. txn[i] \in Flushes /\ txn[i].old = row[txn[i].key]
  BY DEF Commit, Inv, Holds, FlushedWell, Sound
<1>2. /\ txn[i].old \in Rows /\ txn[i].new \in Rows /\ txn[i].key \in Keys /\ row \in [Keys -> Rows]
  BY <1>1 DEF Flushes, Inv, TypeOK
<1>3. Changed(txn[i].old, txn[i].new, row[txn[i].key]) = txn[i].new
  BY <1>1, <1>2, ChangedRow
<1>4. row' = [row EXCEPT ![txn[i].key] = txn[i].new]
  BY <1>3 DEF Commit
<1> QED
  BY <1>1, <1>2, <1>4

\* So it leaves the winner as promoted from the rows it leaves.
LEMMA SolePromotion ==
    ASSUME Inv, NEW i \in Procs, Commit(i), Undisturbed(i)
    PROVE  \E K, R, old :
              /\ row' = R /\ win' = Promoted(K, R, old)
              /\ K = {k \in stored' : k[1] = "winner" \/ (R[k].exp # NoExposure /\ exposure'[R[k].exp].linked)}
<1>1. PICK t : t = txn[i]
  OBVIOUS
<1>2. t \in Flushes /\ t.was = win /\ PromotedFrom(t, Leaves(t)) /\ overtaken[i] = {}
  BY <1>1 DEF Commit, Undisturbed, Inv, Holds, FlushedWell
<1>3. row' = Leaves(t)
  BY <1>1, <1>2, Unhindered DEF Leaves
<1>4. t.was \in Wins /\ t.win \in Wins /\ win \in Wins
  BY <1>2 DEF Flushes, Inv, TypeOK
<1>5. win' = t.win
  <2>1. win' = Changed(t.was, t.win, win)
    BY <1>1 DEF Commit
  <2> QED
    BY <2>1, <1>2, <1>4, ChangedWin
<1>6. stored' = stored \cup {t.key} /\ exposure' = exposure
  BY <1>1 DEF Commit
<1>7. PICK R : R = Leaves(t)
  OBVIOUS
<1>8. PICK K : K = Attributable(stored \cup {t.key}, R)
  OBVIOUS
<1>9. row' = R /\ win' = Promoted(K, R, t.was)
  BY <1>2, <1>3, <1>5, <1>7, <1>8 DEF PromotedFrom
<1>10. K = {k \in stored' : k[1] = "winner" \/ (R[k].exp # NoExposure /\ exposure'[R[k].exp].linked)}
  BY <1>6, <1>8 DEF Attributable
<1> QED
  BY <1>9, <1>10

\* A session that commits does so by Commit.
LEMMA Committing ==
    ASSUME Inv, [Next]_vars, NEW i \in Procs, pc[i] = "commit", pc'[i] = "idle" PROVE Commit(i)
<1>1. pc \in [Procs -> Labels]
  BY DEF Inv, TypeOK, Labels
<1>2. pc' # pc
  OBVIOUS
<1>3. ASSUME NEW j \in Procs, j # i, NEW l, pc' = [pc EXCEPT ![j] = l] PROVE FALSE
  BY <1>1, <1>3
<1>4. ~RecordWinner /\ ~UNCHANGED vars
  BY <1>2 DEF RecordWinner, vars
<1>5. PICK j \in Procs :
         \/ \E it \in Items : Read(j, it)
         \/ Retry(j) \/ Refuse(j) \/ Flush(j) \/ Commit(j)
         \/ \E reg \in Registrations : RegisterRead(j, reg)
         \/ RegisterRetry(j) \/ RegisterCommit(j)
         \/ \E k \in Keys : SweepRead(j, k)
         \/ Grade(j)
  BY <1>4 DEF Next
<1>6. \E l : pc' = [pc EXCEPT ![j] = l]
  BY <1>5 DEF Read, Retry, Refuse, Flush, Commit, RegisterRead, RegisterRetry, RegisterCommit, SweepRead,
              Grade, Begin, Abandon, Goto, Ends
<1>7. j = i
  BY <1>3, <1>6
<1> QED
  BY <1>5, <1>7 DEF Read, Retry, Refuse, Flush, RegisterRead, RegisterRetry, RegisterCommit, SweepRead, Grade

\* The next report or sweep of the winner that no commit overtakes leaves it eligible
\* only on a return (_promote_warm_start).
LEMMA EarnedStep ==
    ASSUME Inv, [Next]_vars, NEW i \in Procs, Undisturbed(i) PROVE Earned' /\ Causal'
<1>1. Commit(i)
  BY Committing DEF Undisturbed
<1>2. PICK K, R, old :
         /\ row' = R /\ win' = Promoted(K, R, old)
         /\ K = {k \in stored' : k[1] = "winner" \/ (R[k].exp # NoExposure /\ exposure'[R[k].exp].linked)}
  BY <1>1, SolePromotion
<1>3. Counted(stored, row)' = Observed(K, R)
  BY <1>2 DEF Counted, Attributable, Observed
<1>4. win'.eligible => Proof(K, R) /\ Comparison(K, R)
  BY <1>2, PromotedFacts
<1>5. Earned'
  BY <1>2, <1>3, <1>4 DEF Earned, Proof, Returned
<1>6. Causal'
  BY <1>2, <1>3, <1>4 DEF Causal, Comparison, Returned, InArm
<1> QED
  BY <1>5, <1>6

\* Nothing seeds other runs without surviving proof: any number of sessions may have
\* left a grant from what they had not seen, the next report or sweep of the winner that
\* no commit overtakes takes it back (_promote_warm_start recomputes).
THEOREM ProofIsEarned == Spec => EligibilityIsEarned
<1>1. Inv /\ [Next]_vars => [\A i \in Procs : Undisturbed(i) => Earned']_vars
  BY EarnedStep
<1> QED
  BY <1>1, InvInit, InvNext, PTL DEF Spec, EligibilityIsEarned

\* And such a session leaves a winner with arm-tagged evidence eligible only on a treated
\* return beside an observed control.
THEOREM GrantsAreCausal == Spec => GrantIsCausal
<1>1. Inv /\ [Next]_vars => [\A i \in Procs : Undisturbed(i) => Causal']_vars
  BY EarnedStep
<1> QED
  BY <1>1, InvInit, InvNext, PTL DEF Spec, GrantIsCausal

\* A measured Day 7 changes only under a session that has not seen it.
LEMMA MeasuredStep ==
    ASSUME Inv, [Next]_vars, NEW k \in Keys, row[k].ret # "unresolved", row'[k].ret # row[k].ret
    PROVE  \E i \in Procs : pc[i] = "commit" /\ pc'[i] = "idle" /\ txn[i].key = k /\ k \in overtaken[i]
<1>1. row' # row
  OBVIOUS
<1>2. PICK i \in Procs : Commit(i)
  BY <1>1 DEF Next, vars, tables, Read, Retry, Refuse, Flush, RegisterRead, RegisterRetry, RegisterCommit,
              SweepRead, Grade, RecordWinner
<1>3. txn[i] \in Flushes /\ (txn[i].old.ret # "unresolved" => txn[i].new.ret = txn[i].old.ret)
  BY <1>2 DEF Commit, Inv, Holds, FlushedWell, Sound
<1>4. row \in [Keys -> Rows] /\ txn[i].key \in Keys /\ pc \in [Procs -> Labels]
  BY <1>3 DEF Inv, TypeOK, Labels, Flushes
<1>5. txn[i].key = k
  BY <1>2, <1>4 DEF Commit
<1>6. k \in overtaken[i]
  <2> SUFFICES ASSUME k \notin overtaken[i] PROVE FALSE
    OBVIOUS
  <2>1. row' = [row EXCEPT ![k] = txn[i].new] /\ txn[i].old = row[k]
    BY <1>2, <1>5, Unhindered
  <2> QED
    BY <2>1, <1>3, <1>4
<1>7. pc[i] = "commit" /\ pc'[i] = "idle"
  BY <1>2, <1>4 DEF Commit, Ends
<1> QED
  BY <1>5, <1>6, <1>7

\* A measured horizon is rewritten by nobody who has seen it, whatever is reported or
\* swept (_apply_flags, resolve_due_checkpoints).
THEOREM MeasurementsStand == Spec => MeasuredStands
<1>1. Inv /\ [Next]_vars => [\A k \in Keys : row[k].ret # "unresolved" /\ row'[k].ret # row[k].ret =>
          \E i \in Procs : pc[i] = "commit" /\ pc'[i] = "idle" /\ txn[i].key = k /\ k \in overtaken[i]]_vars
  BY MeasuredStep
<1> QED
  BY <1>1, InvInit, InvNext, PTL DEF Spec, MeasuredStands

-----------------------------------------------------------------------------
(* Disagreement.                                                           *)

\* Nobody has claimed anything.
LEMMA ClaimsInit == Init => ClaimsInv
<1> SUFFICES ASSUME Init PROVE ClaimsInv
  OBVIOUS
<1>1. Tells("", {}) /\ Unknown.routing = ""
  BY DEF Unknown, Tells
<1>2. /\ \A x \in Keys \cup Exposures : claims[x] = {}
      /\ claims \in [Keys \cup Exposures -> SUBSET Claim]
  BY DEF Init
<1>3. \A e \in Exposures : exposure[e].routing = ""
  BY <1>1 DEF Init
<1>4. \A k \in Keys : row[k] = Blank
  BY DEF Init
<1> QED
  BY <1>1, <1>2, <1>3, <1>4, BlankFacts DEF ClaimsInv

\* A commit of a row adds its claim, and nobody else's is lost unless it was not seen.
LEMMA ClaimsCommit == ASSUME Inv, ClaimsInv, NEW i \in Procs, Commit(i) PROVE ClaimsInv'
<1>1. PICK t : t = txn[i]
  OBVIOUS
<1>2. t \in Flushes /\ ClaimKept(t)
  BY <1>1 DEF Commit, Inv, Holds, FlushedWell
<1>3. /\ t.key \in Keys /\ t.claim \subseteq Claim /\ Exposures \cap Keys = {}
      /\ row \in [Keys -> Rows] /\ claims \in [Keys \cup Exposures -> SUBSET Claim]
  BY <1>2, EvidenceAssumption DEF Flushes, Inv, TypeOK, ClaimsInv
<1>4. /\ claims' = [claims EXCEPT ![t.key] = @ \cup (t.claim \ {""})] /\ exposure' = exposure
      /\ blind' = blind \cup (overtaken[i] \cap {t.key})
      /\ row' = [row EXCEPT ![t.key] = Changed(t.old, t.new, @)]
  BY <1>1 DEF Commit, Ends
<1>5. /\ claims' \in [Keys \cup Exposures -> SUBSET Claim]
      /\ claims'[t.key] = claims[t.key] \cup (t.claim \ {""})
      /\ \A x \in Keys \cup Exposures : x # t.key => claims'[x] = claims[x]
  BY <1>3, <1>4
<1>6. ASSUME NEW e \in Exposures \ blind' PROVE Tells(exposure'[e].routing, claims'[e])
  BY <1>3, <1>4, <1>5, <1>6 DEF ClaimsInv
<1>7. ASSUME NEW k \in Keys \ blind', row'[k].exp = NoExposure
      PROVE  Tells(row'[k].routing, claims'[k]) /\ (~row'[k].limited => row'[k].routing = "real")
  <2>1. CASE k # t.key
    <3>1. row'[k] = row[k] /\ claims'[k] = claims[k] /\ k \notin blind
      BY <2>1, <1>3, <1>4, <1>5, <1>7
    <3> QED
      BY <3>1, <1>7 DEF ClaimsInv
  <2>2. CASE k = t.key
    <3>1. k \notin overtaken[i] /\ k \notin blind
      BY <2>2, <1>4, <1>7
    <3>2. row'[k] = t.new /\ t.old = row[k]
      BY <2>2, <3>1, <1>1, <1>3, Unhindered
    <3>3. t.old.exp = NoExposure
      BY <3>2, <1>2, <1>7 DEF ClaimKept, Keeps, Merges
    <3>4. Tells(row[k].routing, claims[k]) /\ (~row[k].limited => row[k].routing = "real")
      BY <3>1, <3>2, <3>3 DEF ClaimsInv
    <3>5. CASE t.claim = {} /\ Keeps(t)
      <4>1. claims'[k] = claims[k]
        BY <2>2, <3>5, <1>5
      <4> QED
        BY <4>1, <3>2, <3>4, <3>5, <1>7 DEF Keeps
    <3>6. ASSUME NEW c \in Claim, t.claim = {c}, Merges(t, c)
          PROVE  Tells(row'[k].routing, claims'[k]) /\ (~row'[k].limited => row'[k].routing = "real")
      <4>1. claims'[k] = claims[k] \cup ({c} \ {""})
        BY <2>2, <3>6, <1>5
      <4>2. row'[k].routing = MergeRouting(row[k].routing, c) /\ (~row'[k].limited => row'[k].routing = "real")
        BY <3>2, <3>6, <1>7 DEF Merges
      <4>3. Tells(MergeRouting(row[k].routing, c), claims[k] \cup ({c} \ {""}))
        BY <3>4, MergeTells
      <4> QED
        BY <4>1, <4>2, <4>3
    <3> QED
      BY <3>5, <3>6, <1>2 DEF ClaimKept
  <2> QED
    BY <2>1, <2>2
<1> QED
  BY <1>5, <1>6, <1>7 DEF ClaimsInv

\* A registration's is merged into its exposure.
LEMMA ClaimsRegister == ASSUME Inv, ClaimsInv, NEW i \in Procs, RegisterCommit(i) PROVE ClaimsInv'
<1>1. PICK t : t = txn[i]
  OBVIOUS
<1>2. PICK e : e = t.reg.exposure
  OBVIOUS
<1>3. t \in Registers /\ (e \notin overtaken[i] => t.saw = exposure[e])
  BY <1>1, <1>2 DEF RegisterCommit, Inv, Holds, SawWell
<1>4. e \in Exposures /\ t.reg.routing \in Claim /\ t.reg.named \in BOOLEAN /\ t.saw \in Links
  BY <1>2, <1>3, EvidenceAssumption DEF Registers
<1>5. /\ Exposures \cap Keys = {} /\ exposure \in [Exposures -> Links]
      /\ claims \in [Keys \cup Exposures -> SUBSET Claim]
  BY EvidenceAssumption DEF Inv, TypeOK, ClaimsInv
<1>6. /\ claims' = [claims EXCEPT ![e] = @ \cup ({t.reg.routing} \ {""})] /\ row' = row
      /\ blind' = blind \cup (overtaken[i] \cap {e})
      /\ exposure' = [exposure EXCEPT ![e] = Changed(t.saw, Registered(t), @)]
  BY <1>1, <1>2 DEF RegisterCommit, Ends
<1>7. /\ claims' \in [Keys \cup Exposures -> SUBSET Claim]
      /\ claims'[e] = claims[e] \cup ({t.reg.routing} \ {""})
      /\ \A x \in Keys \cup Exposures : x # e => claims'[x] = claims[x]
  BY <1>4, <1>5, <1>6
<1>8. ASSUME NEW f \in Exposures \ blind' PROVE Tells(exposure'[f].routing, claims'[f])
  <2>1. CASE f # e
    BY <2>1, <1>4, <1>5, <1>6, <1>7, <1>8 DEF ClaimsInv
  <2>2. CASE f = e
    <3>1. t.saw = exposure[e] /\ e \notin blind
      BY <2>2, <1>3, <1>6, <1>8
    <3>2. PICK y : y = Registered(t)
      OBVIOUS
    <3>3. y.routing = MergeRouting(exposure[e].routing, t.reg.routing)
      BY <3>1, <3>2 DEF Registered
    <3>4. y \in Links
      <4>1. MergeRouting(t.saw.routing, t.reg.routing) \in Routing
        BY <1>4, MergeTyped DEF Links, Routing
      <4>2. (t.saw.linked \/ t.reg.named) \in BOOLEAN
        BY <1>4 DEF Links
      <4> QED
        BY <3>2, <4>1, <4>2 DEF Registered, Links
    <3>5. exposure'[e] = y
      <4>1. PICK s \in Links : s = exposure[e]
        BY <1>4, <1>5
      <4>2. Changed(s, y, s) = y
        BY <3>4, ChangedLink
      <4> QED
        BY <3>1, <3>2, <4>1, <4>2, <1>4, <1>5, <1>6
    <3>6. PICK old, C, c : old = exposure[e].routing /\ C = claims[e] /\ c = t.reg.routing
      OBVIOUS
    <3>7. Tells(old, C) /\ c \in Claim
      BY <3>1, <3>6, <1>4 DEF ClaimsInv
    <3>8. Tells(MergeRouting(old, c), C \cup ({c} \ {""}))
      BY <3>7, MergeTells
    <3> QED
      BY <2>2, <3>3, <3>5, <3>6, <3>8, <1>7
  <2> QED
    BY <2>1, <2>2
<1>9. ASSUME NEW k \in Keys \ blind', row'[k].exp = NoExposure
      PROVE  Tells(row'[k].routing, claims'[k]) /\ (~row'[k].limited => row'[k].routing = "real")
  BY <1>4, <1>5, <1>6, <1>7, <1>9 DEF ClaimsInv
<1> QED
  BY <1>7, <1>8, <1>9 DEF ClaimsInv

\* Every step keeps rows and exposures telling what was claimed of them.
LEMMA ClaimsNext == Inv /\ ClaimsInv /\ [Next]_vars => ClaimsInv'
<1> SUFFICES ASSUME Inv, ClaimsInv, [Next]_vars PROVE ClaimsInv'
  OBVIOUS
<1>1. ASSUME UNCHANGED <<exposure, row, claims, blind>> PROVE ClaimsInv'
  BY <1>1 DEF ClaimsInv
<1>2. CASE \E i \in Procs : Commit(i) \/ RegisterCommit(i)
  BY <1>2, ClaimsCommit, ClaimsRegister
<1>3. CASE ~\E i \in Procs : Commit(i) \/ RegisterCommit(i)
  <2>1. UNCHANGED <<exposure, row, claims, blind>>
    BY <1>3 DEF Next, vars, tables, history, Read, Retry, Refuse, Flush, RegisterRead, RegisterRetry,
                SweepRead, Grade, RecordWinner
  <2> QED
    BY <2>1, <1>1
<1> QED
  BY <1>2, <1>3

\* Sources that disagree fail closed: evidence no exposure vouches for, and an exposure
\* that vouches, had a real send claimed and nothing else, but where a session wrote
\* over a commit it had not seen (merge_routing).
THEOREM DisagreementCloses == Spec => []DisagreementFailsClosed
<1>1. Inv /\ ClaimsInv => DisagreementFailsClosed
  BY DEF Inv, TypeOK, ClaimsInv, Tells, DisagreementFailsClosed
<1> QED
  BY <1>1, InvInit, InvNext, ClaimsInit, ClaimsNext, PTL DEF Spec
=============================================================================
