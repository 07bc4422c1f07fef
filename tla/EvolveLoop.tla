------------------------------ MODULE EvolveLoop ------------------------------
(***************************************************************************)
(* The stages of one Pro's job that spend money (waypoint/pipeline.py,     *)
(* waypoint/loop.py): rounds of win-stay/lose-shift, each a batch of ideas *)
(* generated, criticised, ranked and screened by paid calls and then       *)
(* committed with its ledger row; the held-out final check of the          *)
(* champion; the winner and its measurement.  The worker may die between   *)
(* any two of these.  Its successor replays the ledger and the recorded    *)
(* calls, but reads the outcomes that veto mechanisms and the past winners *)
(* anew.                                                                   *)
(***************************************************************************)
EXTENDS Integers, FiniteSets, Sequences, Functions

CONSTANTS
    Mechs, NoMech,      \* mechanisms: an idea of a round is known by its own
    CandidateCount, MaxRounds, MaxNoImprove, Patience, KeepDelta, WinThreshold,
    MaxRefills,         \* MAX_BATCH_REFILLS
    Floor, Scores,      \* MIN_REDUCTION_FLOOR_PP, and what a screen can yield
    MaxCrashes, MaxVetoes, MaxRetrievals   \* bounds: deaths, new outcomes of the
                                           \* Pro, new winners of similar Pros

ASSUME EvolveAssumption ==
    /\ NoMech \notin Mechs
    /\ CandidateCount \in Nat \ {0} /\ Patience \in Nat \ {0}
    /\ {MaxRounds, MaxNoImprove, KeepDelta, MaxRefills} \subseteq Nat
    /\ {MaxCrashes, MaxVetoes, MaxRetrievals} \subseteq Nat
    /\ Scores \subseteq Nat /\ Floor \in Nat /\ WinThreshold \in Nat

NoScore == -1

VARIABLES
    ledger,      \* evolve_rounds of the Pro, by round
    cands,       \* its candidates
    calls,       \* the recorded answers of the round in progress, by call key
    evals,       \* the persona_evals of the ideas of that round
    outcome,     \* kind of its winner row, "none" without
    measured,    \* whether the winner has a measurement
    evolved,     \* whether the evolve stage has its checkpoint
    failing,     \* mechanisms its touch outcomes veto
    similar,     \* the mechanism of the most similar past winner
    crashes, vetoes, retrievals,
    pc,          \* of the job's owner
    loop,        \* its LoopState
    failed, warm,            \* what it read: vetoes at entry, warm start in round 1
    refillFailed, rankFailed, screens,   \* this round's failures, screens by token
    deepFailed               \* the deep tier failed the final check

rows == <<ledger, cands, calls, evals, outcome, measured, evolved>>
world == <<failing, similar, crashes, vetoes, retrievals>>
round == <<refillFailed, rankFailed, screens>>
locals == <<loop, failed, warm, round, deepFailed>>
vars == <<rows, world, pc, locals>>

Tokens == 1..(CandidateCount + 1)
NoRanking == [n |-> 0, order |-> <<>>, tie |-> FALSE]
NoScreen == [of |-> NoMech, score |-> NoScore]
NoCalls == [batches |-> <<>>, critic |-> <<>>, rank |-> NoRanking,
            screen |-> [t \in Tokens |-> NoScreen], final |-> "none"]

-----------------------------------------------------------------------------
(* loop.py: the pure policy.                                               *)

Start == [round |-> 0, best |-> NoScore, champion |-> <<>>, mech |-> NoMech,
          tries |-> 0, dry |-> 0, tried |-> {}]

IsWin(l, score) ==
    /\ score # NoScore
    /\ IF l.best = NoScore THEN score >= Floor ELSE score >= l.best + KeepDelta

ApplyRound(l, mech, score, verdict, also) ==
    LET tries == IF mech = l.mech THEN l.tries + 1 ELSE 1
        next  == [l EXCEPT !.round = @ + 1, !.mech = mech, !.tried = @ \cup {mech} \cup also]
    IN
    IF verdict = "win"
    THEN [next EXCEPT !.best = score, !.champion = <<l.round + 1, mech>>, !.tries = 0, !.dry = 0]
    ELSE [next EXCEPT !.tries = tries, !.dry = IF tries >= Patience THEN @ + 1 ELSE @]

Uncapped(l) ==
    IF l.best > WinThreshold THEN "win_threshold"
    ELSE IF l.dry >= MaxNoImprove THEN "no_improve_exhausted" ELSE "none"

StopReason(l) ==
    IF l.best > WinThreshold THEN "win_threshold"
    ELSE IF l.dry >= MaxNoImprove THEN "no_improve_exhausted"
    ELSE IF l.round >= MaxRounds THEN "round_cap"
    ELSE "none"

ChallengerOnly(row) == {}

\* What the ranking of the ledger row names: the suppressed ideas never got there.
AlsoTried(row) == Range(row.order)

Replayed(l, row) == ApplyRound(l, row.mech, row.score, row.outcome, AlsoTried(row))
Replay(rowsSoFar) ==
    LET after[n \in 0..Len(rowsSoFar)] ==
            IF n = 0 THEN Start ELSE Replayed(after[n - 1], rowsSoFar[n])
    IN after[Len(rowsSoFar)]

-----------------------------------------------------------------------------
(* The round, from its recorded calls and what the owner read.             *)

\* What seq adds to start: its elements in S, the first of each.
Keep(start, seq, S) ==
    LET kept[n \in 0..Len(seq)] ==
            IF n = 0 THEN start
            ELSE IF seq[n] \in S \ Range(kept[n - 1]) THEN Append(kept[n - 1], seq[n])
            ELSE kept[n - 1]
    IN kept[Len(seq)]

TargetOf(keep) == IF keep = NoMech THEN CandidateCount ELSE CandidateCount + 1
Target == TargetOf(warm)

\* _dedupe_mechanisms: one idea per mechanism, the warm one first, no more than
\* asked for.
Dedupe(ideas, keep) ==
    LET held == Keep(IF keep \in Range(ideas) THEN <<keep>> ELSE <<>>, ideas, Mechs)
    IN SubSeq(held, 1, IF Len(held) < TargetOf(keep) THEN Len(held) ELSE TargetOf(keep))

IdeasOf(batches, keep) ==
    LET held[n \in 0..Len(batches)] ==
            IF n = 0 THEN <<>> ELSE Dedupe(held[n - 1] \o batches[n], keep)
    IN held[Len(batches)]

Ideas == IdeasOf(calls.batches, warm)

\* A short batch, or one without the warm idea, is refilled a few times.
NeedsBatch ==
    \/ calls.batches = <<>>
    \/ /\ Len(calls.batches) <= MaxRefills /\ ~refillFailed
       /\ LET ideas == Ideas IN
          Len(ideas) < Target \/ (warm # NoMech /\ warm \notin Range(ideas))

ToReview == LET ideas == Ideas IN {i \in DOMAIN ideas : ideas[i] \notin failed}
NeedsReview == calls.critic = <<>> /\ ~NeedsBatch /\ ToReview # {}

PassesUnlessBlocked(i) == i \in DOMAIN calls.critic => calls.critic[i].pass

\* The critic's answer by position: an idea without one is benched.
Passes(i) == i \in DOMAIN calls.critic /\ calls.critic[i].pass

Rankable == Keep(<<>>, [t \in Tokens |-> t], {i \in ToReview : Passes(i)})
IdeaOf(t) == Ideas[Rankable[t]]

\* A recorded ranking of other tokens is asked for again.
NeedsRank ==
    /\ ~rankFailed /\ ~NeedsBatch /\ ~NeedsReview
    /\ LET n == Len(Rankable) IN n >= 2 /\ calls.rank.n # n

\* The tokens to screen: the only one, the first, or a tie of the first two.
Finalists ==
    LET n == Len(Rankable) IN
    IF n = 0 \/ rankFailed THEN <<>>
    ELSE IF n = 1 THEN <<1>>
    ELSE IF calls.rank.tie THEN calls.rank.order ELSE <<calls.rank.order[1]>>

Selected == ~NeedsBatch /\ ~NeedsReview /\ ~NeedsRank

-----------------------------------------------------------------------------

Init ==
    /\ ledger = <<>> /\ cands = {} /\ calls = NoCalls /\ evals = [m \in Mechs |-> NoScreen]
    /\ outcome = "none" /\ measured = "no" /\ evolved = FALSE
    /\ failing \in {{}} \cup {{m} : m \in Mechs}
    /\ similar \in Mechs \cup {NoMech}
    /\ crashes \in 0..MaxCrashes /\ vetoes \in 0..MaxVetoes /\ retrievals \in 0..MaxRetrievals
    /\ pc = "stage" /\ loop = Start /\ failed = {} /\ warm = NoMech
    /\ refillFailed = FALSE /\ rankFailed = FALSE /\ screens = [t \in Tokens |-> NoScreen]
    /\ deepFailed = FALSE

(* The world: outcomes of the Pro are graded or age out, other Pros return.  *)

\* Either is read when a job is entered: it matters what changed until then.
Veto(m) ==
    /\ pc = "stage" /\ ~evolved
    /\ vetoes < MaxVetoes /\ vetoes' = vetoes + 1
    /\ failing' = IF m \in failing THEN failing \ {m} ELSE failing \cup {m}
    /\ UNCHANGED <<rows, similar, crashes, retrievals, pc, locals>>

Promote(m) ==
    /\ pc = "stage" /\ ~evolved
    /\ m # similar
    /\ retrievals < MaxRetrievals /\ retrievals' = retrievals + 1
    /\ similar' = m
    /\ UNCHANGED <<rows, failing, crashes, vetoes, pc, locals>>

\* The process dies or a step raises, and a successor gets the job (in "stage"
\* an owner holds nothing that could be lost).
Crash ==
    /\ pc \in {"round", "work", "final"} /\ crashes < MaxCrashes
    /\ crashes' = crashes + 1
    /\ pc' = "stage" /\ loop' = Start /\ failed' = {} /\ warm' = NoMech
    /\ refillFailed' = FALSE /\ rankFailed' = FALSE /\ screens' = [t \in Tokens |-> NoScreen]
    /\ deepFailed' = FALSE
    /\ UNCHANGED <<rows, failing, similar, vetoes, retrievals>>

-----------------------------------------------------------------------------
(* The owner.                                                              *)

CompleteEvolve == evolved' = TRUE /\ pc' = "stage"

\* gate_pro: the brief contradicts the window, or no channel is left.
GateBlocks ==
    /\ pc = "stage" /\ ~evolved
    /\ outcome' = "abstained"
    /\ CompleteEvolve
    /\ UNCHANGED <<ledger, cands, calls, evals, measured, world, locals>>

EnterEvolve ==
    /\ pc = "stage" /\ ~evolved
    /\ loop' = Replay(ledger) /\ failed' = failing
    /\ pc' = "round"
    /\ UNCHANGED <<rows, world, warm, round, deepFailed>>

\* _guard and the preflight; a warm start is looked up before round 1 only, and
\* not taken when the Pro's own outcomes veto it.
StartRound ==
    /\ pc = "round" /\ StopReason(loop) = "none"
    /\ warm' = IF loop.round = 0 /\ similar \notin failed THEN similar ELSE NoMech
    /\ pc' = "work"
    /\ UNCHANGED <<rows, world, loop, failed, round, deepFailed>>

EndRounds ==
    /\ pc = "round" /\ StopReason(loop) # "none"
    /\ CompleteEvolve
    /\ UNCHANGED <<ledger, cands, calls, evals, outcome, measured, world, locals>>

\* A killed run or an exhausted budget ends the job where it is guarded; one that
\* ends inside a round leaves what a crash leaves, and nobody comes back.
StopJob ==
    /\ pc \in {"round", "final"}
    /\ pc' = "ended"
    /\ UNCHANGED <<rows, world, locals>>

Missing == IF Len(Ideas) < Target THEN Target - Len(Ideas) ELSE 1
Batches == UNION {{b \in [1..n -> Mechs] : IsInjective(b)} : n \in 1..Missing}

\* The model is asked for what is missing and may answer with anything.
Generate ==
    /\ pc = "work" /\ NeedsBatch
    /\ \/ \E batch \in Batches :
             /\ calls' = [calls EXCEPT !.batches = Append(@, batch)]
             /\ UNCHANGED refillFailed
       \/ /\ calls.batches # <<>> /\ refillFailed' = TRUE
          /\ UNCHANGED calls
    /\ UNCHANGED <<ledger, cands, evals, outcome, measured, evolved, world, pc,
                   loop, failed, warm, rankFailed, screens, deepFailed>>

Review ==
    /\ pc = "work" /\ NeedsReview
    /\ LET ideas == Ideas IN
       \E pass \in SUBSET ToReview :
          calls' = [calls EXCEPT !.critic =
                       [i \in ToReview |-> [of |-> ideas[i], pass |-> i \in pass]]]
    /\ UNCHANGED <<ledger, cands, evals, outcome, measured, evolved, world, pc, locals>>

Rank ==
    /\ pc = "work" /\ NeedsRank
    /\ \/ \E first, second \in 1..Len(Rankable), tie \in BOOLEAN :
             /\ first # second
             /\ calls' = [calls EXCEPT !.rank =
                   [n |-> Len(Rankable), order |-> <<first, second>>, tie |-> tie]]
             /\ UNCHANGED rankFailed
       \/ rankFailed' = TRUE /\ UNCHANGED calls
    /\ UNCHANGED <<ledger, cands, evals, outcome, measured, evolved, world, pc,
                   loop, failed, warm, refillFailed, screens, deepFailed>>

\* Too few personas fit: the Pro abstains, whatever earlier rounds found.
NoPanel ==
    /\ pc = "work" /\ Selected /\ Finalists # <<>> /\ \A t \in Tokens : screens[t] = NoScreen
    /\ outcome' = "abstained"
    /\ CompleteEvolve
    /\ UNCHANGED <<ledger, cands, calls, evals, measured, world, locals>>

ToScreen == {t \in Range(Finalists) : screens[t] = NoScreen}

\* The paid call of a screen; two run side by side.
CallScreen(t) ==
    /\ evals[IdeaOf(t)] = NoScreen /\ calls.screen[t] = NoScreen
    /\ \E score \in Scores :
          calls' = [calls EXCEPT !.screen[t] = [of |-> IdeaOf(t), score |-> score]]
    /\ UNCHANGED <<ledger, cands, evals, outcome, measured, evolved, world, pc, locals>>

\* _react: a cached evaluation of the idea, or the recorded answer of the token,
\* which is cached in its turn.
TakeScreen(t) ==
    LET idea == IdeaOf(t)
        result == IF evals[idea] # NoScreen THEN evals[idea] ELSE calls.screen[t]
    IN
    /\ result # NoScreen
    /\ evals' = [evals EXCEPT ![idea] = result]
    /\ screens' = [screens EXCEPT ![t] = result]
    /\ UNCHANGED <<ledger, cands, calls, outcome, measured, evolved, world, pc,
                   loop, failed, warm, refillFailed, rankFailed, deepFailed>>

FailScreen(t) ==
    /\ screens' = [screens EXCEPT ![t] = [of |-> IdeaOf(t), score |-> NoScore]]
    /\ UNCHANGED <<rows, world, pc, loop, failed, warm, refillFailed, rankFailed, deepFailed>>

Screen ==
    /\ pc = "work" /\ Selected
    /\ \E t \in ToScreen : CallScreen(t) \/ TakeScreen(t) \/ FailScreen(t)

-----------------------------------------------------------------------------
(* The end of a round.                                                     *)

Scored(finalists) == {k \in DOMAIN finalists : screens[finalists[k]].score # NoScore}

FirstScored(finalists) ==
    finalists[CHOOSE k \in Scored(finalists) : \A j \in Scored(finalists) : k <= j]

\* The first of the best.
BestScored(finalists) ==
    finalists[CHOOSE k \in Scored(finalists) : \A j \in Scored(finalists) :
                 /\ screens[finalists[j]].score <= screens[finalists[k]].score
                 /\ j < k => screens[finalists[j]].score < screens[finalists[k]].score]

\* What the round comes to: outcome, score, and the challenger's position.
Verdict(rankable, finalists) ==
    IF rankable = <<>> THEN [outcome |-> "suppressed", score |-> NoScore, at |-> 1]
    ELSE IF Scored(finalists) = {}
    THEN [outcome |-> "unavailable", score |-> NoScore,
          at |-> rankable[IF finalists = <<>> THEN 1 ELSE finalists[1]]]
    ELSE LET best == BestScored(finalists) IN
         [outcome |-> IF IsWin(loop, screens[best].score) THEN "win" ELSE "lose",
          score |-> screens[best].score, at |-> rankable[best]]

\* The verdict it was given: by position, or none for an idea that was vetoed.
Judged(idea, i) ==
    IF idea \in failed THEN idea
    ELSE IF i \in DOMAIN calls.critic THEN calls.critic[i].of ELSE NoMech

\* The screen of the token it had, if it was a finalist.
Screened(idea, tokens) ==
    IF \E t \in tokens : screens[t] # NoScreen
    THEN screens[CHOOSE t \in tokens : TRUE] ELSE [of |-> idea, score |-> NoScore]

Candidate(idea, i, rankable, v) ==
    [id |-> <<loop.round + 1, idea>>,
     status |-> IF i \notin Range(rankable) THEN "suppressed"
                ELSE IF v.outcome = "win" /\ i = v.at THEN "champion" ELSE "discarded",
     judged |-> Judged(idea, i),
     screen |-> Screened(idea, {t \in DOMAIN rankable : rankable[t] = i}),
     final |-> "none"]

LeaveChampion(c, v) == c

\* The champion of the rounds before loses its status to the new one.
Dethroned(c, v) ==
    IF v.outcome = "win" /\ c.id = loop.champion THEN [c EXCEPT !.status = "discarded"] ELSE c

\* Candidates, dethroned champion and ledger row land in one commit.
CommitRound ==
    /\ pc = "work" /\ Selected
    /\ ToScreen = {}
    /\ LET ideas    == Ideas
           rankable == Rankable
           v        == Verdict(rankable, Finalists)
       IN
       /\ cands' = {Dethroned(c, v) : c \in cands}
                     \cup {Candidate(ideas[i], i, rankable, v) : i \in DOMAIN ideas}
       /\ ledger' = Append(ledger,
             [mech |-> ideas[v.at], outcome |-> v.outcome, score |-> v.score,
              order |-> [k \in DOMAIN rankable |-> ideas[rankable[k]]]])
       /\ loop' = ApplyRound(loop, ideas[v.at], v.score, v.outcome, Range(ideas))
    /\ calls' = NoCalls /\ evals' = [m \in Mechs |-> NoScreen]
    /\ refillFailed' = FALSE /\ rankFailed' = FALSE /\ screens' = [t \in Tokens |-> NoScreen]
    /\ pc' = "round"
    /\ UNCHANGED <<outcome, measured, evolved, world, failed, warm, deepFailed>>

-----------------------------------------------------------------------------
(* final, score, measure.                                                  *)

\* _champion_for: the ledger decides.
Champion == LET id == Replay(ledger).champion IN {c \in cands : c.id = id}
Checked == \E c \in Champion : c.final # "none"

FinalNeeded == outcome = "none" /\ Champion # {} /\ ~Checked

EnterFinal ==
    /\ pc = "stage" /\ evolved /\ FinalNeeded
    /\ \/ pc' = "final" /\ UNCHANGED outcome
       \/ pc' = "stage" /\ outcome' = "abstained"      \* five personas do not fit
    /\ UNCHANGED <<ledger, cands, calls, evals, measured, evolved, world, locals>>

\* The deep tier's call, or after its failure the fast one's.
CallFinal ==
    /\ pc = "final" /\ calls.final = "none"
    /\ \E result \in {"cleared", "short"} : calls' = [calls EXCEPT !.final = result]
    /\ UNCHANGED <<ledger, cands, evals, outcome, measured, evolved, world, pc, locals>>

DowngradeFinal ==
    /\ pc = "final" /\ calls.final = "none" /\ ~deepFailed
    /\ deepFailed' = TRUE
    /\ UNCHANGED <<rows, world, pc, loop, failed, warm, round>>

\* The score is stored with the champion; both tiers failing is an abstention.
StoreFinal(result) ==
    /\ cands' = {IF c \in Champion THEN [c EXCEPT !.final = result] ELSE c : c \in cands}
    /\ calls' = NoCalls /\ deepFailed' = FALSE
    /\ pc' = "stage"
    /\ UNCHANGED <<ledger, evals, outcome, measured, evolved, world, loop, failed, warm, round>>

CommitFinal ==
    \/ pc = "final" /\ calls.final # "none" /\ StoreFinal(calls.final)
    \/ pc = "final" /\ calls.final = "none" /\ deepFailed /\ StoreFinal("abstained")

AnyChampion == Champion # {}
Confirmed == \E c \in Champion : c.final = "cleared"

\* select_winner over the champion alone.
Score ==
    /\ pc = "stage" /\ evolved /\ ~FinalNeeded /\ outcome = "none"
    /\ outcome' = IF Confirmed THEN "winner" ELSE "no_action"
    /\ UNCHANGED <<ledger, cands, calls, evals, measured, evolved, world, pc, locals>>

\* The war game is attached, or noted as unavailable, before the measurement.
Measure ==
    /\ pc = "stage" /\ outcome = "winner"
    /\ \/ measured = "no" /\ measured' = "planned"
       \/ measured = "planned" /\ measured' = "yes"
    /\ UNCHANGED <<ledger, cands, calls, evals, outcome, evolved, world, pc, locals>>

-----------------------------------------------------------------------------

Next ==
    \/ \E m \in Mechs : Veto(m) \/ Promote(m)
    \/ Crash \/ GateBlocks \/ EnterEvolve \/ StartRound \/ EndRounds \/ StopJob
    \/ Generate \/ Review \/ Rank \/ NoPanel \/ Screen \/ CommitRound
    \/ EnterFinal \/ CallFinal \/ DowngradeFinal \/ CommitFinal \/ Score \/ Measure

Spec == Init /\ [][Next]_vars

\* A round with a warm start is not redone, and its vetoes stand.
StableInit ==
    /\ Init
    /\ IF similar = NoMech THEN crashes = 0 /\ vetoes = 0 /\ retrievals = MaxRetrievals
       ELSE crashes = MaxCrashes /\ vetoes = MaxVetoes /\ retrievals = 0

StableSpec == StableInit /\ [][Next]_vars

-----------------------------------------------------------------------------
(* Properties.                                                             *)

\* Types of the rows and the owner.
TypeOK ==
    /\ Len(ledger) <= MaxRounds
    /\ \A n \in DOMAIN ledger :
          /\ ledger[n].mech \in Mechs /\ ledger[n].score \in Scores \cup {NoScore}
          /\ ledger[n].outcome \in {"win", "lose", "suppressed", "unavailable"}
          /\ Range(ledger[n].order) \subseteq Mechs
    /\ \A c \in cands :
          /\ c.id \in (1..Len(ledger)) \X Mechs
          /\ c.status \in {"suppressed", "discarded", "champion"}
          /\ c.final \in {"none", "cleared", "short", "abstained"}
    /\ outcome \in {"none", "winner", "no_action", "abstained"}
    /\ measured \in {"no", "planned", "yes"}
    /\ evolved \in BOOLEAN
    /\ pc \in {"stage", "round", "work", "final", "ended"}
    /\ loop.round <= MaxRounds /\ loop.best \in Scores \cup {NoScore}

\* The candidates' statuses agree with the ledger, which alone is replayed:
\* the one champion is the candidate of its last win, whatever died in between.
OneChampion == {c \in cands : c.status = "champion"} = Champion

\* The best screened idea wins: no candidate of any round scored enough to take
\* the place of the champion, or of no champion, and was passed over.
BestWins ==
    LET l == Replay(ledger) IN
    \A c \in cands :
        c.screen.score # NoScore /\ c.id # l.champion =>
            c.screen.score < (IF l.best = NoScore THEN Floor ELSE l.best + KeepDelta)

\* The owner, fresh or resumed, is where the ledger is, and holds as tried
\* whatever was ranked: a shift never buys the same losers again.
ResumeForgetsNothing ==
    pc = "round" =>
        /\ [loop EXCEPT !.tried = {}] = [Replay(ledger) EXCEPT !.tried = {}]
        /\ \A c \in cands : c.status # "suppressed" => c.id[2] \in loop.tried

\* Every idea that competes was let through by a verdict of its own, although
\* verdicts are recorded by position and the round may be redone.
VerdictsAreOwn == \A c \in cands : c.status # "suppressed" => c.judged = c.id[2]

\* What ships went the whole way: let through by its own verdict, screened above
\* the floor, never dethroned, and confirmed by the held-out panel.
ShippedIsConfirmed ==
    outcome = "winner" =>
        \E c \in cands :
            /\ c.status = "champion" /\ c.id = Replay(ledger).champion
            /\ c.judged = c.id[2] /\ c.screen.score >= Floor /\ c.final = "cleared"
=============================================================================
