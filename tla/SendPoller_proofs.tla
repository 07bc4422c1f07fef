--------------------------- MODULE SendPoller_proofs ---------------------------
(***************************************************************************)
(* Proofs about SendPoller: that no link is lost to the race with the      *)
(* pipeline, and, for a poller that has a cursor to start from, that the   *)
(* cursor passes nothing it did not store.                                 *)
(***************************************************************************)
EXTENDS SendPoller, TLAPS

-----------------------------------------------------------------------------
(* The inductive invariants.                                               *)

\* What the poller can meet: nothing happens later than now.
EventInv ==
    /\ now \in Nat
    /\ sentAt \in [Sends -> Nat \cup {Never}]
    /\ clickedAt \in [Sends -> Nat \cup {Never}]
    /\ visibleAt \in [Sends -> Nat \cup {Never}]
    /\ exposure \in [Sends -> {"none", "linked", "unlinked"}]
    /\ deferred \in BOOLEAN
    /\ pc \in {"idle", "sends", "clicks", "save"}

\* The clock of a tick.
ClockInv == pc # "idle" => win.at \in Nat /\ win.at <= now

\* A send without its winner was old enough when it was given up.
GivenUpInv ==
    \A m \in Sends : exposure[m] = "unlinked" =>
        /\ sentAt[m] # Never /\ sentAt[m] + DeferLimit <= now
        /\ visibleAt[m] = Never \/ visibleAt[m] >= sentAt[m] + DeferLimit

LinkInv == EventInv /\ ClockInv /\ GivenUpInv

\* The window begins at the cursor and ends where everything is indexed.
WindowInv ==
    /\ cursor \in Nat /\ cursor <= now
    /\ pc # "idle" =>
          /\ win.since = cursor
          /\ win.until \in Nat /\ cursor <= win.until
          /\ win.until <= win.at - Lag

Mine == Stamped \ Malformed

\* What happened before t is stored.
SendsStored(t) == \A m \in Mine : sentAt[m] # Never /\ sentAt[m] < t => exposure[m] # "none"
ClicksStored(t) ==
    \A m \in Mine : clickedAt[m] # Never /\ clickedAt[m] < t => m \in outcome \cup rejected

\* Before the cursor everything is, and at the end of a tick what its window holds.
StoredInv ==
    /\ SendsStored(cursor) /\ ClicksStored(cursor)
    /\ pc \in {"clicks", "save"} /\ ~deferred => SendsStored(win.until)
    /\ pc = "save" => ClicksStored(win.until)

CursorInv == LinkInv /\ WindowInv /\ StoredInv

-----------------------------------------------------------------------------
(* Links.                                                                  *)

LEMMA LinkInit == ASSUME Init PROVE LinkInv
  BY DEF Init, LinkInv, EventInv, ClockInv, GivenUpInv, Never

\* The world moves on, and never back.
LEMMA LinkWorld ==
    ASSUME LinkInv,
           \/ Tick \/ FlipLearning
           \/ \E m \in Sends : Send(m) \/ Click(m) \/ Unrelated(m) \/ WinnerVisible(m)
    PROVE  LinkInv'
<1> USE PollerAssumption DEF Never
<1>1. CASE Tick
  BY <1>1 DEF Tick, events, switch, tick, LinkInv, EventInv, ClockInv, GivenUpInv
<1>2. CASE FlipLearning
  BY <1>2 DEF FlipLearning, events, tick, LinkInv, EventInv, ClockInv, GivenUpInv
<1>3. ASSUME NEW m \in Sends, Send(m) PROVE LinkInv'
  BY <1>3 DEF Send, switch, tick, LinkInv, EventInv, ClockInv, GivenUpInv
<1>4. ASSUME NEW m \in Sends, Click(m) PROVE LinkInv'
  BY <1>4 DEF Click, switch, tick, LinkInv, EventInv, ClockInv, GivenUpInv
<1>5. ASSUME NEW m \in Sends, Unrelated(m) PROVE LinkInv'
  BY <1>5 DEF Unrelated, switch, tick, LinkInv, EventInv, ClockInv, GivenUpInv
<1>6. ASSUME NEW m \in Sends, WinnerVisible(m) PROVE LinkInv'
  <2>1. EventInv' /\ ClockInv'
    BY <1>6 DEF WinnerVisible, switch, tick, LinkInv, EventInv, ClockInv
  <2>2. GivenUpInv'
    BY <1>6 DEF WinnerVisible, switch, tick, LinkInv, EventInv, GivenUpInv
  <2> QED
    BY <2>1, <2>2 DEF LinkInv
<1> QED
  BY <1>1, <1>2, <1>3, <1>4, <1>5, <1>6

\* A send is given up only if it is not deferred any more.
LEMMA LinkRegister ==
    ASSUME LinkInv, RegisterSends
    PROVE  LinkInv'
<1> USE PollerAssumption DEF Never
<1>1. PICK S \in Export(sentAt) :
          /\ exposure' = [m \in Sends |->
                IF m \in OfARun(S) /\ ~Defers(m) THEN Registered(m) ELSE exposure[m]]
          /\ deferred' = (\E m \in S : Defers(m))
  BY DEF RegisterSends
<1>2. pc = "sends" /\ pc' = "clicks" /\ UNCHANGED <<now, events, win>>
  BY DEF RegisterSends
<1>3. \A m \in S : m \in Sends /\ sentAt[m] # Never
  BY DEF Export
<1>4. EventInv'
  BY <1>1, <1>2 DEF LinkInv, EventInv, Registered, events
<1>5. ClockInv'
  BY <1>2 DEF LinkInv, ClockInv
<1>6. GivenUpInv'
  <2> SUFFICES ASSUME NEW m \in Sends, exposure'[m] = "unlinked"
               PROVE  /\ sentAt[m] # Never /\ sentAt[m] + DeferLimit <= now
                      /\ visibleAt[m] = Never \/ visibleAt[m] >= sentAt[m] + DeferLimit
    BY <1>2 DEF GivenUpInv, events
  <2>1. CASE exposure[m] = "unlinked"
    BY <2>1 DEF LinkInv, GivenUpInv
  <2>2. CASE exposure[m] # "unlinked"
    <3>1. m \in S /\ m \in Stamped \ Malformed /\ ~Defers(m) /\ visibleAt[m] = Never
      BY <2>2, <1>1 DEF OfARun, Registered
    <3>2. sentAt[m] <= win.at - DeferLimit /\ sentAt[m] \in Nat
      BY <3>1, <1>2, <1>3 DEF Defers, LinkInv, ClockInv, EventInv
    <3> QED
      BY <3>1, <3>2, <1>2 DEF LinkInv, ClockInv, EventInv
  <2> QED
    BY <2>1, <2>2
<1> QED
  BY <1>4, <1>5, <1>6 DEF LinkInv

LEMMA LinkStep == ASSUME LinkInv, [Next]_vars PROVE LinkInv'
<1> USE PollerAssumption
<1>1. CASE StartTick
  BY <1>1 DEF StartTick, LinkInv, EventInv, ClockInv, GivenUpInv, events
<1>2. CASE IngestClicks \/ RejectClicks \/ RefuseClicks \/ SaveCursor \/ FailTick
  BY <1>2 DEF IngestClicks, RejectClicks, RefuseClicks, SaveCursor, FailTick,
         LinkInv, EventInv, ClockInv, GivenUpInv, events
<1>3. CASE UNCHANGED vars
  BY <1>3 DEF vars, events, tick, LinkInv, EventInv, ClockInv, GivenUpInv
<1> QED
  BY <1>1, <1>2, <1>3, LinkWorld, LinkRegister DEF Next

\* However late the winner of a send becomes visible, and however often its window
\* is read, the send is not given up as winner-less within the deferral.
THEOREM LinksWait == Spec => []LateWinnersOnly
<1>1. LinkInv => LateWinnersOnly
  BY DEF LinkInv, GivenUpInv, LateWinnersOnly
<1>2. LinkInv /\ [Next]_vars => LinkInv'
  BY LinkStep
<1>3. Init => LinkInv
  BY LinkInit
<1> QED
  BY <1>1, <1>2, <1>3, PTL DEF Spec

-----------------------------------------------------------------------------
(* The cursor.                                                             *)

LEMMA CursorInit == ASSUME StartCursor = 0, Init PROVE CursorInv
<1>1. WindowInv /\ StoredInv
  BY PollerAssumption DEF Init, WindowInv, StoredInv, SendsStored, ClicksStored, Mine, Never
<1> QED
  BY <1>1, LinkInit DEF CursorInv

\* What happens now is not before the cursor, nor before the end of a window.
LEMMA CursorWorld ==
    ASSUME CursorInv, LinkInv',
           \/ Tick \/ FlipLearning
           \/ \E m \in Sends : Send(m) \/ Click(m) \/ Unrelated(m) \/ WinnerVisible(m)
    PROVE  CursorInv'
<1> USE PollerAssumption DEF Never
<1>1. /\ UNCHANGED <<cursor, exposure, outcome, rejected, tick>>
      /\ now' = now \/ now' = now + 1
  BY DEF Tick, FlipLearning, Send, Click, Unrelated, WinnerVisible
<1>2. WindowInv'
  BY <1>1 DEF CursorInv, LinkInv, EventInv, WindowInv, tick
<1>3. \A m \in Mine : /\ sentAt'[m] = sentAt[m] \/ sentAt'[m] = now
                      /\ clickedAt'[m] = clickedAt[m] \/ clickedAt'[m] = now
  BY DEF Tick, FlipLearning, Send, Click, Unrelated, WinnerVisible, events, Mine,
         CursorInv, LinkInv, EventInv
<1>4. cursor <= now /\ (pc # "idle" => win.until \in Nat /\ win.until <= now)
  BY DEF CursorInv, WindowInv, LinkInv, ClockInv, EventInv
<1>5. StoredInv'
  <2>1. SendsStored(cursor)' /\ ClicksStored(cursor)'
    BY <1>1, <1>3, <1>4 DEF CursorInv, StoredInv, SendsStored, ClicksStored, WindowInv, LinkInv, EventInv
  <2>2. pc \in {"clicks", "save"} /\ ~deferred => SendsStored(win.until)'
    BY <1>1, <1>3, <1>4 DEF CursorInv, StoredInv, SendsStored, LinkInv, EventInv, tick
  <2>3. pc = "save" => ClicksStored(win.until)'
    BY <1>1, <1>3, <1>4 DEF CursorInv, StoredInv, ClicksStored, LinkInv, EventInv, tick
  <2> QED
    BY <1>1, <2>1, <2>2, <2>3 DEF StoredInv, tick
<1> QED
  BY <1>2, <1>5 DEF CursorInv

\* The window ends before the indexing lag: an event in it is in the export.
LEMMA ExportIsComplete ==
    ASSUME CursorInv, pc # "idle", NEW at \in [Sends -> Nat \cup {Never}],
           NEW S \in Export(at), NEW m \in Sends,
           at[m] # Never, cursor <= at[m], at[m] < win.until
    PROVE  m \in S
<1>1. win.since <= at[m] /\ at[m] <= win.until
  BY DEF CursorInv, WindowInv
<1>2. at[m] < now - Lag
  BY PollerAssumption DEF CursorInv, WindowInv, LinkInv, ClockInv, EventInv, Never
<1> QED
  BY <1>1, <1>2 DEF Export

LEMMA CursorStart ==
    ASSUME CursorInv, LinkInv', StartTick
    PROVE  CursorInv'
<1> USE PollerAssumption DEF Never
<1>1. Since = cursor
  BY DEF Since, CursorInv, WindowInv
<1>2. WindowInv'
  BY <1>1 DEF StartTick, Until, CursorInv, WindowInv, LinkInv, EventInv
<1>3. StoredInv'
  BY DEF StartTick, CursorInv, StoredInv, SendsStored, ClicksStored, events
<1> QED
  BY <1>2, <1>3 DEF CursorInv

LEMMA CursorRegister ==
    ASSUME CursorInv, LinkInv', RegisterSends
    PROVE  CursorInv'
<1> USE PollerAssumption DEF Never
<1>1. PICK S \in Export(sentAt) :
          /\ exposure' = [m \in Sends |->
                IF m \in OfARun(S) /\ ~Defers(m) THEN Registered(m) ELSE exposure[m]]
          /\ deferred' = (\E m \in S : Defers(m))
  BY DEF RegisterSends
<1>2. pc = "sends" /\ pc' = "clicks" /\ UNCHANGED <<now, events, cursor, outcome, rejected, win>>
  BY DEF RegisterSends
<1>3. \A m \in Sends : exposure[m] # "none" => exposure'[m] # "none"
  BY <1>1 DEF Registered
<1>4. SendsStored(cursor)' /\ ClicksStored(cursor)'
  BY <1>2, <1>3 DEF CursorInv, StoredInv, SendsStored, ClicksStored, Mine, events
<1>5. ~deferred' => SendsStored(win.until)'
  <2> SUFFICES ASSUME ~deferred', NEW m \in Mine, sentAt[m] # Never, sentAt[m] < win.until
               PROVE  exposure'[m] # "none"
    BY <1>2 DEF SendsStored, events
  <2>1. m \in Sends
    BY DEF Mine
  <2>2. CASE sentAt[m] < cursor
    BY <2>1, <2>2, <1>3 DEF CursorInv, StoredInv, SendsStored
  <2>3. CASE cursor <= sentAt[m]
    <3>1. m \in S
      BY <2>1, <2>3, <1>2, ExportIsComplete DEF CursorInv, LinkInv, EventInv
    <3> QED
      BY <2>1, <3>1, <1>1 DEF Mine, OfARun, Registered
  <2> QED
    BY <2>1, <2>2, <2>3 DEF CursorInv, WindowInv, LinkInv, EventInv
<1>6. WindowInv'
  BY <1>2 DEF CursorInv, WindowInv
<1>7. StoredInv'
  BY <1>2, <1>4, <1>5 DEF StoredInv
<1> QED
  BY <1>6, <1>7 DEF CursorInv

\* The clicks of the window are stored, or their export was rejected.
LEMMA CursorClicks ==
    ASSUME CursorInv, LinkInv', IngestClicks \/ RejectClicks
    PROVE  CursorInv'
<1> USE PollerAssumption DEF Never
<1>1. /\ pc = "clicks" /\ pc' = "save"
      /\ UNCHANGED <<now, events, cursor, exposure, win, deferred>>
      /\ outcome \subseteq outcome' /\ rejected \subseteq rejected'
  BY DEF IngestClicks, RejectClicks
<1>2. WindowInv'
  BY <1>1 DEF CursorInv, WindowInv
<1>3. SendsStored(cursor)' /\ ClicksStored(cursor)' /\ (~deferred' => SendsStored(win.until)')
  BY <1>1 DEF CursorInv, StoredInv, SendsStored, ClicksStored, events
<1>4. ClicksStored(win.until)'
  <2> SUFFICES ASSUME NEW m \in Mine, clickedAt[m] # Never, clickedAt[m] < win.until
               PROVE  m \in outcome' \cup rejected'
    BY <1>1 DEF ClicksStored, events
  <2>1. m \in Sends /\ m \in Stamped
    BY DEF Mine
  <2>2. CASE clickedAt[m] < cursor
    BY <2>2, <1>1 DEF CursorInv, StoredInv, ClicksStored
  <2>3. CASE cursor <= clickedAt[m] /\ IngestClicks
    <3>1. PICK S \in Export(clickedAt) : outcome' = outcome \cup Known(S)
      BY <2>3 DEF IngestClicks
    <3>2. m \in S
      BY <2>1, <2>3, <1>1, ExportIsComplete DEF CursorInv, LinkInv, EventInv
    <3> QED
      BY <2>1, <3>1, <3>2 DEF Known
  <2>4. CASE cursor <= clickedAt[m] /\ RejectClicks
    BY <2>1, <2>4, <1>1 DEF RejectClicks, CursorInv, WindowInv, LinkInv, EventInv
  <2> QED
    BY <2>1, <2>2, <2>3, <2>4 DEF CursorInv, WindowInv, LinkInv, EventInv
<1>5. StoredInv'
  BY <1>1, <1>3, <1>4 DEF StoredInv
<1> QED
  BY <1>2, <1>5 DEF CursorInv

\* The cursor moves to the end of a window whose sends and clicks are stored, and
\* holds if a send was deferred; a tick that fails leaves it where it was.
LEMMA CursorSave ==
    ASSUME CursorInv, LinkInv', SaveCursor \/ FailTick \/ RefuseClicks
    PROVE  CursorInv'
<1> USE PollerAssumption DEF Never
<1>1. pc' = "idle" /\ UNCHANGED <<now, events, exposure, outcome, rejected>>
  BY DEF SaveCursor, FailTick, RefuseClicks
<1>2. cursor' = cursor \/ (pc = "save" /\ ~deferred /\ cursor' = win.until)
  BY DEF SaveCursor, NextCursor, FailTick, RefuseClicks, CursorInv, LinkInv, EventInv
<1>3. WindowInv'
  BY <1>1, <1>2 DEF CursorInv, WindowInv, LinkInv, ClockInv, EventInv
<1>4. StoredInv'
  BY <1>1, <1>2 DEF CursorInv, StoredInv, SendsStored, ClicksStored, events
<1> QED
  BY <1>3, <1>4 DEF CursorInv

LEMMA CursorStep == ASSUME CursorInv, [Next]_vars PROVE CursorInv'
<1>1. LinkInv'
  BY LinkStep DEF CursorInv
<1>2. CASE UNCHANGED vars
  BY <1>1, <1>2 DEF vars, events, tick, CursorInv, WindowInv, StoredInv, SendsStored, ClicksStored
<1> QED
  BY <1>1, <1>2, CursorWorld, CursorStart, CursorRegister, CursorClicks, CursorSave DEF Next

\* Whatever fails, dies, is indexed late, deferred or read twice: the cursor never
\* passes a send or a click of a run that was not stored.
THEOREM CursorPassesNothing ==
    ASSUME StartCursor = 0
    PROVE  Spec => []CursorIsHonest
<1>1. CursorInv => CursorIsHonest
  BY DEF CursorInv, StoredInv, SendsStored, ClicksStored, Mine, CursorIsHonest
<1>2. CursorInv /\ [Next]_vars => CursorInv'
  BY CursorStep
<1>3. Init => CursorInv
  BY CursorInit
<1> QED
  BY <1>1, <1>2, <1>3, PTL DEF Spec

-----------------------------------------------------------------------------
(* Types.                                                                  *)

\* Whatever is exported, nothing of a message without a run is stored.
OwnTraffic == \A m \in Sends \ Stamped : exposure[m] = "none" /\ m \notin outcome

Typed == TypeOK /\ CursorInv

\* A message of another system has no exposure to be known by, and carries no run.
LEMMA TypedStep == ASSUME Typed, [Next]_vars PROVE Typed'
<1> USE PollerAssumption DEF Typed
<1>1. CursorInv'
  BY CursorStep
<1>2. LinkInv'
  BY <1>1 DEF CursorInv
<1>3. now' \in Times
  <2>1. now \in Times
    BY DEF TypeOK
  <2>2. CASE Tick
    BY <2>1, <2>2 DEF Tick, Times
  <2>3. CASE ~Tick
    <3>1. now' = now
      BY <2>3 DEF Next, FlipLearning, Send, Click, Unrelated, WinnerVisible, StartTick, RegisterSends,
             IngestClicks, RefuseClicks, RejectClicks, SaveCursor, FailTick, vars
    <3> QED
      BY <2>1, <3>1
  <2> QED
    BY <2>2, <2>3
<1>4. cursor' \in Times
  BY <1>1, <1>2, <1>3 DEF CursorInv, WindowInv, LinkInv, EventInv, Times
<1>5. /\ sentAt' \in [Sends -> Times \cup {Never}]
      /\ clickedAt' \in [Sends -> Times \cup {Never}]
      /\ visibleAt' \in [Sends -> Times \cup {Never}]
  BY DEF Next, Tick, FlipLearning, Send, Click, Unrelated, WinnerVisible, StartTick, RegisterSends,
         IngestClicks, RefuseClicks, RejectClicks, SaveCursor, FailTick, vars, events, TypeOK
<1>6. OwnTraffic'
  <2>1. CASE RegisterSends
    BY <2>1 DEF RegisterSends, OfARun, OwnTraffic, TypeOK
  <2>2. CASE IngestClicks
    BY <2>2 DEF IngestClicks, Known, OwnTraffic, TypeOK
  <2>3. CASE ~RegisterSends /\ ~IngestClicks
    <3>1. UNCHANGED <<exposure, outcome>>
      BY <2>3 DEF Next, Tick, FlipLearning, Send, Click, Unrelated, WinnerVisible, StartTick,
             RefuseClicks, RejectClicks, SaveCursor, FailTick, vars
    <3> QED
      BY <3>1 DEF OwnTraffic, TypeOK
  <2> QED
    BY <2>1, <2>2, <2>3
<1> QED
  BY <1>1, <1>2, <1>3, <1>4, <1>5, <1>6 DEF TypeOK, OwnTraffic, LinkInv, EventInv

\* For a poller that has a cursor to start from: the cursor is always a time that
\* was, and traffic that carries no run is never stored.
THEOREM PollerTyped == ASSUME StartCursor = 0 PROVE Spec => []TypeOK
<1>1. Init => Typed
  <2>1. Init => TypeOK
    <3> SUFFICES ASSUME Init PROVE TypeOK
      OBVIOUS
    <3>1. 0 \in Times
      BY PollerAssumption DEF Times
    <3>2. {sentAt, clickedAt, visibleAt} \subseteq [Sends -> Times \cup {Never}]
      BY DEF Init
    <3> QED
      BY <3>1, <3>2 DEF Init, TypeOK
  <2> QED
    BY <2>1, CursorInit DEF Typed
<1>2. Typed /\ [Next]_vars => Typed'
  BY TypedStep
<1>3. Typed => TypeOK
  BY DEF Typed
<1> QED
  BY <1>1, <1>2, <1>3, PTL DEF Spec
=============================================================================
