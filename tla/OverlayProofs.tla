---------------------------- MODULE OverlayProofs ----------------------------
(***************************************************************************)
(* Proofs about module Overlay, for any number of threads, displays and    *)
(* overlays.  OPEN lets one session in at a time; from its event on, that  *)
(* session is in one place only: on its way to the UI thread, there, or    *)
(* being rendered.  So the teardown that is posted finds the session whose *)
(* end it carries, and `done` is called before the next can begin.         *)
(***************************************************************************)
EXTENDS Overlay, FiniteSets, FiniteSetTheorems, TLAPS

Has(q, do) == \E i \in DOMAIN q : q[i].do = do
Once(q, do) == \A i, j \in DOMAIN q : q[i].do = do /\ q[j].do = do => i = j

(* Events that neither bring a session nor end one. *)
Plain == {e \in Events : e.do \notin {"install", "teardown"}}

(* One place at a time, with q for what waits for the UI thread. *)
PlaceInv(q) ==
  /\ open <=> Has(q, "install") \/ session.id # None \/ rendering # {}
  /\ session.ending <=> Has(q, "teardown")
  /\ session.ending => session.id # None
  /\ Has(q, "install") => session.id = None /\ rendering = {}
  /\ session.id # None => rendering = {}
  /\ \A n, m \in rendering : n = m
  /\ Once(q, "install") /\ Once(q, "teardown")

(* Who is on the way has not been heard of, and a teardown carries what was chosen. *)
ChosenInv(q) ==
  /\ \A i \in DOMAIN q :
       /\ q[i].do = "install" => q[i].id <= lastId /\ outcome[q[i].id] = "none"
       /\ q[i].do = "teardown" => OutcomeOf(q[i].plan) = choice[session.id]
  /\ session.id # None => session.id <= lastId /\ outcome[session.id] = "none"
  /\ \A n \in rendering : n <= lastId /\ outcome[n] = "none" /\ choice[n] = "done"
  /\ \A n \in Ids : n > lastId => outcome[n] = "none"
  /\ \A n \in Ids : outcome[n] # "none" => outcome[n] = choice[n]

FramesInv == \A f \in session.pending \cup session.windows : f.of = session.id

UiInv(q) == PlaceInv(q) /\ ChosenInv(q) /\ FramesInv

(* Whoever is about to begin a session was counted when it asked. *)
Asking == {t \in Threads : thread[t] \in {"look", "begin"}}

AskInv == IsFiniteSet(Asking) /\ lastId + Cardinality(Asking) <= asks

MineInv == \A t \in Threads : thread[t] \in {"grab", "wait"} => mine[t] # None

(* An agent's thread and its waiter part only when the time is up. *)
WaiterInv ==
  \A a \in Agents :
    /\ thread[a] = "out" => waiter[a] # "waiting"
    /\ thread[a] # "out" => waiter[a] # "out"
    /\ thread[a] = "out" /\ mine[a] # None /\ waiter[a] # "late" => mine[a] \in handled

ThreadInv == AskInv /\ MineInv /\ WaiterInv

IInv == TypeOK /\ UiInv(queue) /\ ThreadInv

-----------------------------------------------------------------------------
(* The queue                                                                *)

(* What is posted comes last. *)
LEMMA Posted ==
  ASSUME NEW q \in Seq(Events), NEW e \in Events
  PROVE  /\ Append(q, e) \in Seq(Events)
         /\ DOMAIN Append(q, e) = 1..(Len(q) + 1) /\ DOMAIN q = 1..Len(q) /\ Len(q) \in Nat
         /\ \A i \in 1..Len(q) : Append(q, e)[i] = q[i]
         /\ Append(q, e)[Len(q) + 1] = e
OBVIOUS

(* What is taken was first. *)
LEMMA Taken ==
  ASSUME NEW q \in Seq(Events), q # <<>>
  PROVE  /\ Tail(q) \in Seq(Events)
         /\ Head(q) \in Events /\ Head(q) = q[1]
         /\ DOMAIN Tail(q) = 1..(Len(q) - 1) /\ DOMAIN q = 1..Len(q) /\ Len(q) \in Nat \ {0}
         /\ \A i \in 1..(Len(q) - 1) : Tail(q)[i] = q[i + 1]
OBVIOUS

LEMMA PostedHas ==
  ASSUME NEW q \in Seq(Events), NEW e \in Events, NEW do
  PROVE  /\ Has(Append(q, e), do) <=> Has(q, do) \/ e.do = do
         /\ Once(q, do) /\ ~(Has(q, do) /\ e.do = do) => Once(Append(q, e), do)
<1>1. Has(Append(q, e), do) <=> Has(q, do) \/ e.do = do
  BY Posted DEF Has
<1>2. ASSUME Once(q, do), ~(Has(q, do) /\ e.do = do)
      PROVE  Once(Append(q, e), do)
  BY <1>2, Posted DEF Has, Once
<1>3. QED BY <1>1, <1>2

LEMMA TakenHas ==
  ASSUME NEW q \in Seq(Events), q # <<>>, NEW do
  PROVE  /\ Head(q).do # do => (Has(Tail(q), do) <=> Has(q, do))
         /\ Head(q).do = do => Has(q, do)
         /\ Once(q, do) => Once(Tail(q), do)
         /\ Once(q, do) /\ Head(q).do = do => ~Has(Tail(q), do)
<1>1. Has(Tail(q), do) => Has(q, do)
  BY Taken DEF Has
<1>2. ASSUME Head(q).do # do, Has(q, do)
      PROVE  Has(Tail(q), do)
  <2>1. PICK i \in 1..Len(q) : q[i].do = do
    BY <1>2, Taken DEF Has
  <2>2. i - 1 \in 1..(Len(q) - 1) /\ Tail(q)[i - 1] = q[i]
    BY <1>2, <2>1, Taken
  <2>3. QED BY <2>1, <2>2, Taken DEF Has
<1>3. Head(q).do = do => Has(q, do)
  BY Taken DEF Has
<1>4. Once(q, do) => Once(Tail(q), do)
  BY Taken DEF Once
<1>5. Once(q, do) /\ Head(q).do = do => ~Has(Tail(q), do)
  BY Taken DEF Once, Has
<1>6. QED BY <1>1, <1>2, <1>3, <1>4, <1>5

-----------------------------------------------------------------------------
(* What passes through the queue without touching a session                 *)

LEMMA PostPlain ==
  ASSUME TypeOK, NEW q \in Seq(Events), UiInv(q), NEW e \in Plain
  PROVE  UiInv(Append(q, e))
<1>1. e \in Events /\ e.do # "install" /\ e.do # "teardown"
  BY DEF Plain
<1>2. PlaceInv(Append(q, e))
  BY <1>1, PostedHas DEF UiInv, PlaceInv
<1>3. ChosenInv(Append(q, e))
  BY <1>1, Posted DEF UiInv, ChosenInv
<1>4. QED BY <1>2, <1>3 DEF UiInv

LEMMA TakePlain ==
  ASSUME TypeOK, NEW q \in Seq(Events), q # <<>>, UiInv(q), Head(q).do \notin {"install", "teardown"}
  PROVE  UiInv(Tail(q))
<1>1. PlaceInv(Tail(q))
  BY TakenHas DEF UiInv, PlaceInv
<1>2. ChosenInv(Tail(q))
  <2>1. \A i \in DOMAIN Tail(q) : i + 1 \in DOMAIN q /\ Tail(q)[i] = q[i + 1]
    BY Taken
  <2>2. QED BY <2>1 DEF UiInv, ChosenInv
<1>3. QED BY <1>1, <1>2 DEF UiInv

(* The threads leave the sessions alone. *)
LEMMA SessionsAlone ==
  ASSUME UiInv(queue'), UNCHANGED <<open, lastId, outcome, uiVars>>
  PROVE  UiInv(queue)'
BY DEF UiInv, PlaceInv, ChosenInv, FramesInv, uiVars

(* The UI thread leaves the threads alone. *)
LEMMA ThreadsAlone ==
  ASSUME ThreadInv, UNCHANGED <<lastId, waiter, threadVars>>
  PROVE  ThreadInv'
<1>1. Asking' = Asking
  BY DEF Asking, threadVars
<1>2. AskInv'
  BY <1>1 DEF ThreadInv, AskInv, threadVars
<1>3. QED BY <1>2 DEF ThreadInv, MineInv, WaiterInv, threadVars

-----------------------------------------------------------------------------
(* The UI thread                                                            *)

(* The first end of a session is noted and posted, every later one is lost. *)
LEMMA SettleKeeps ==
  ASSUME TypeOK, NEW rest \in Seq(Events), UiInv(rest), NEW plan \in Plans,
         Settle(plan, rest), UNCHANGED <<open, lastId, outcome, rendering>>
  PROVE  /\ UiInv(queue)'
         /\ queue' \in Seq(Events)
         /\ session' \in [id : Ids \cup {None}, windows : SUBSET Frames, pending : SUBSET Frames, ending : BOOLEAN]
         /\ choice' \in [Ids -> {"none", "cancelled", "done"}]
<1>1. CASE ~Live
  <2>1. queue' = rest /\ UNCHANGED <<session, choice>>
    BY <1>1 DEF Settle
  <2>2. QED BY <2>1 DEF UiInv, PlaceInv, ChosenInv, FramesInv, TypeOK
<1>2. CASE Live
  <2> DEFINE e == Teardown(plan)
  <2>1. /\ session' = [session EXCEPT !.ending = TRUE]
        /\ queue' = Append(rest, e)
        /\ choice' = [choice EXCEPT ![session.id] = OutcomeOf(plan)]
    BY <1>2 DEF Settle
  <2>2. e \in Events /\ e.do = "teardown" /\ e.plan = plan
    BY DEF Events, Teardown
  <2>3. session.id \in Ids /\ session.id # None /\ ~session.ending
    BY <1>2 DEF Live, TypeOK
  <2>4. /\ session'.id = session.id /\ session'.ending = TRUE
        /\ session'.windows = session.windows /\ session'.pending = session.pending
        /\ session' \in [id : Ids \cup {None}, windows : SUBSET Frames, pending : SUBSET Frames, ending : BOOLEAN]
    BY <2>1 DEF TypeOK
  <2>5. /\ choice' \in [Ids -> {"none", "cancelled", "done"}]
        /\ choice'[session.id] = OutcomeOf(plan)
        /\ \A n \in Ids : n # session.id => choice'[n] = choice[n]
    BY <2>1, <2>3 DEF TypeOK, OutcomeOf
  <2>6. queue' \in Seq(Events)
    BY <2>1, <2>2, Posted
  <2>7. PlaceInv(queue)'
    BY <2>1, <2>2, <2>3, <2>4, PostedHas DEF UiInv, PlaceInv
  <2>8. ChosenInv(queue)'
    <3>1. ~Has(rest, "teardown") /\ rendering = {}
      BY <2>3 DEF UiInv, PlaceInv
    <3>2. \A i \in DOMAIN queue' :
            \/ i \in DOMAIN rest /\ queue'[i] = rest[i] /\ queue'[i].do # "teardown"
            \/ queue'[i] = e
      BY <2>1, <2>2, <3>1, Posted DEF Has
    <3>3. \A i \in DOMAIN queue' :
            /\ queue'[i].do = "install" => queue'[i].id <= lastId /\ outcome[queue'[i].id] = "none"
            /\ queue'[i].do = "teardown" => OutcomeOf(queue'[i].plan) = OutcomeOf(plan)
      BY <2>2, <3>2 DEF UiInv, ChosenInv
    <3>4. \A n \in Ids : outcome[n] # "none" => outcome[n] = choice'[n]
      BY <2>3, <2>5 DEF UiInv, ChosenInv
    <3>5. QED BY <2>3, <2>4, <2>5, <3>1, <3>3, <3>4 DEF UiInv, ChosenInv
  <2>9. FramesInv'
    BY <2>4 DEF UiInv, FramesInv
  <2>10. QED BY <2>4, <2>5, <2>6, <2>7, <2>8, <2>9 DEF UiInv
<1>3. QED BY <1>1, <1>2

(* A session that gains or loses frames of its own is the same session. *)
LEMMA ShowKeeps ==
  ASSUME UiInv(queue'), UNCHANGED <<open, lastId, outcome, rendering, choice>>,
         session'.id = session.id, session'.ending = session.ending,
         FramesInv'
  PROVE  UiInv(queue)'
BY DEF UiInv, PlaceInv, ChosenInv

LEMMA InstallKeeps ==
  ASSUME TypeOK, UiInv(queue), UiInstall
  PROVE  UiInv(queue)' /\ TypeOK'
<1>1. queue # <<>> /\ Head(queue).do = "install" /\ queue \in Seq(Events)
  BY DEF UiInstall, Due, TypeOK
<1>2. Head(queue).id \in Ids
  BY <1>1, Taken DEF Events, Install, Add, Key, Cancel, Teardown
<1>3. session.id = None /\ rendering = {} /\ ~session.ending /\ Has(queue, "install") /\ open
  BY <1>1, TakenHas DEF UiInv, PlaceInv, TypeOK
<1>4. UNCHANGED <<open, lastId, outcome, rendering, choice>> /\ queue' = Tail(queue)
  BY <1>3 DEF UiInstall
<1>5. /\ session'.id = Head(queue).id /\ session'.ending = FALSE
      /\ session'.windows = {} /\ session'.pending = {}
      /\ session' \in [id : Ids \cup {None}, windows : SUBSET Frames, pending : SUBSET Frames, ending : BOOLEAN]
  BY <1>2 DEF UiInstall, NoSession
<1>6. Head(queue).id # None
  BY <1>2 DEF Ids, None
<1>7. PlaceInv(queue)'
  BY <1>1, <1>3, <1>4, <1>5, <1>6, TakenHas DEF UiInv, PlaceInv
<1>8. ChosenInv(queue)'
  <2>1. \A i \in DOMAIN Tail(queue) : i + 1 \in DOMAIN queue /\ Tail(queue)[i] = queue[i + 1]
    BY <1>1, Taken
  <2>2. ~Has(Tail(queue), "teardown") /\ ~Has(queue, "teardown")
    BY <1>1, <1>3, TakenHas DEF UiInv, PlaceInv
  <2>3. Head(queue).id <= lastId /\ outcome[Head(queue).id] = "none"
    BY <1>1, Taken DEF UiInv, ChosenInv
  <2>4. QED BY <1>3, <1>4, <1>5, <2>1, <2>2, <2>3 DEF UiInv, ChosenInv, Has
<1>9. FramesInv'
  BY <1>5 DEF FramesInv
<1>10. TypeOK'
  BY <1>1, <1>4, <1>5, Taken DEF UiInstall, TypeOK, threadVars
<1>11. QED BY <1>7, <1>8, <1>9, <1>10 DEF UiInv

LEMMA TeardownKeeps ==
  ASSUME TypeOK, UiInv(queue), UiTeardown
  PROVE  UiInv(queue)' /\ TypeOK'
<1> DEFINE plan == Head(queue).plan
<1>1. queue # <<>> /\ Head(queue).do = "teardown" /\ queue \in Seq(Events)
  BY DEF UiTeardown, Due, TypeOK
<1>2. plan \in Plans
  BY <1>1, Taken DEF Events, Install, Add, Key, Cancel, Teardown
<1>3. /\ session.ending /\ session.id # None /\ session.id \in Ids /\ rendering = {} /\ open
      /\ ~Has(queue, "install") /\ ~Has(Tail(queue), "install") /\ ~Has(Tail(queue), "teardown")
  BY <1>1, TakenHas DEF UiInv, PlaceInv, TypeOK
<1>4. /\ session'.id = None /\ session'.ending = FALSE
      /\ session'.windows = {} /\ session'.pending = {}
      /\ session' \in [id : Ids \cup {None}, windows : SUBSET Frames, pending : SUBSET Frames, ending : BOOLEAN]
  BY DEF UiTeardown, NoSession
<1>5. queue' = Tail(queue) /\ UNCHANGED <<lastId, choice>> /\ queue' \in Seq(Events)
  BY <1>1, Taken DEF UiTeardown
<1>6. choice[session.id] = OutcomeOf(plan) /\ outcome[session.id] = "none" /\ session.id <= lastId
  BY <1>1, <1>3, Taken DEF UiInv, ChosenInv
<1>7. \A i \in DOMAIN queue' : queue'[i].do # "install" /\ queue'[i].do # "teardown"
  BY <1>3, <1>5 DEF Has
<1>8. FramesInv'
  BY <1>4 DEF FramesInv
<1>9. Once(queue', "install") /\ Once(queue', "teardown")
  BY <1>7 DEF Once
<1>10. CASE plan = "render"
  <2>1. rendering' = {session.id} /\ UNCHANGED <<open, outcome>>
    BY <1>3, <1>10 DEF UiTeardown
  <2>2. PlaceInv(queue)'
    BY <1>3, <1>4, <1>5, <1>9, <2>1 DEF PlaceInv
  <2>3. ChosenInv(queue)'
    BY <1>3, <1>4, <1>5, <1>6, <1>7, <1>10, <2>1 DEF UiInv, ChosenInv, OutcomeOf
  <2>4. TypeOK'
    BY <1>3, <1>4, <1>5, <2>1 DEF UiTeardown, TypeOK, threadVars
  <2>5. QED BY <1>8, <2>2, <2>3, <2>4 DEF UiInv
<1>11. CASE plan # "render"
  <2>1. open' = FALSE /\ outcome' = [outcome EXCEPT ![session.id] = OutcomeOf(plan)] /\ UNCHANGED rendering
    BY <1>11 DEF UiTeardown
  <2>2. /\ outcome'[session.id] = OutcomeOf(plan)
        /\ \A n \in Ids : n # session.id => outcome'[n] = outcome[n]
        /\ outcome' \in [Ids -> {"none", "cancelled", "done"}]
    BY <1>3, <2>1 DEF TypeOK, OutcomeOf
  <2>3. PlaceInv(queue)'
    BY <1>3, <1>4, <1>5, <1>9, <2>1 DEF PlaceInv
  <2>4. \A n \in Ids : n > lastId => n # session.id
    BY <1>3, <1>6 DEF Ids, TypeOK
  <2>5. ChosenInv(queue)'
    BY <1>3, <1>4, <1>5, <1>6, <1>7, <2>1, <2>2, <2>4 DEF UiInv, ChosenInv
  <2>6. TypeOK'
    <3>1. UNCHANGED <<lastId, grabs, waiter, choice, thread, mine, asks, handled>>
      BY DEF UiTeardown, threadVars
    <3>2. open' \in BOOLEAN /\ rendering' \in SUBSET Ids
      BY <2>1 DEF TypeOK
    <3>3. QED BY <1>4, <1>5, <2>2, <3>1, <3>2 DEF TypeOK
  <2>7. QED BY <1>8, <2>3, <2>5, <2>6 DEF UiInv
<1>12. QED BY <1>10, <1>11

LEMMA RenderKeeps ==
  ASSUME TypeOK, UiInv(queue), NEW n \in rendering, Render(n)
  PROVE  UiInv(queue)' /\ TypeOK'
<1>1. rendering' = {} /\ open' = FALSE /\ n \in Ids
  BY DEF Render, UiInv, PlaceInv, TypeOK
<1>2. UNCHANGED <<lastId, queue, session, choice>>
  BY DEF Render
<1>3. session.id = None /\ ~Has(queue, "install") /\ n <= lastId /\ choice[n] = "done"
  BY DEF UiInv, PlaceInv, ChosenInv
<1>4. /\ outcome'[n] = "done"
      /\ \A m \in Ids : m # n => outcome'[m] = outcome[m]
      /\ outcome' \in [Ids -> {"none", "cancelled", "done"}]
  BY <1>1 DEF Render, TypeOK
<1>5. PlaceInv(queue)'
  BY <1>1, <1>2, <1>3 DEF UiInv, PlaceInv
<1>6. \A m \in Ids : m > lastId => m # n
  BY <1>3 DEF Ids, TypeOK
<1>7. ChosenInv(queue)'
  BY <1>1, <1>2, <1>3, <1>4, <1>6 DEF UiInv, ChosenInv, Has
<1>8. FramesInv'
  BY <1>2 DEF UiInv, FramesInv
<1>9. TypeOK'
  BY <1>1, <1>2, <1>4 DEF Render, TypeOK, threadVars
<1>10. QED BY <1>5, <1>7, <1>8, <1>9 DEF UiInv

(* The other steps of the UI thread, and the windows'. *)
LEMMA UiKeeps ==
  ASSUME TypeOK, UiInv(queue),
         \/ UiAdd \/ UiAddFails \/ UiKey \/ UiCancel \/ UiNoWindow
         \/ \E f \in session.pending : Windows(f)
         \/ \E plan \in Plans : UserPoints(plan) \/ UserPresses(plan)
  PROVE  UiInv(queue)' /\ TypeOK'
<1> DEFINE SessionType == [id : Ids \cup {None}, windows : SUBSET Frames, pending : SUBSET Frames, ending : BOOLEAN]
           rest == Tail(queue)
<1>1. UNCHANGED <<open, lastId, outcome, rendering, grabs, waiter, thread, mine, asks, handled>>
  BY DEF UiAdd, UiAddFails, UiKey, UiCancel, UiNoWindow, Windows, UiShow, UiShowFails, UserPoints, UserPresses,
         threadVars, uiVars
<1>2. queue \in Seq(Events) /\ session \in SessionType
  BY DEF TypeOK
<1>3. SUFFICES /\ UiInv(queue)' /\ queue' \in Seq(Events) /\ session' \in SessionType
               /\ choice' \in [Ids -> {"none", "cancelled", "done"}]
  BY <1>1 DEF TypeOK
<1>4. ASSUME queue # <<>>, Head(queue).do \notin {"install", "teardown"}
      PROVE  rest \in Seq(Events) /\ UiInv(rest)
  BY <1>2, <1>4, Taken, TakePlain
<1>5. "cancelled" \in Plans
  BY DEF Plans
<1>6. ASSUME NEW plan \in Plans, Settle(plan, queue)
      PROVE  UiInv(queue)' /\ queue' \in Seq(Events) /\ session' \in SessionType
             /\ choice' \in [Ids -> {"none", "cancelled", "done"}]
  BY <1>1, <1>2, <1>6, SettleKeeps
<1>7. ASSUME NEW plan \in Plans, Settle(plan, rest), queue # <<>>, Head(queue).do \notin {"install", "teardown"}
      PROVE  UiInv(queue)' /\ queue' \in Seq(Events) /\ session' \in SessionType
             /\ choice' \in [Ids -> {"none", "cancelled", "done"}]
  BY <1>1, <1>4, <1>7, SettleKeeps
(* A session that has, for its id and its end, not changed, with q for what waits. *)
<1>8. ASSUME session' \in SessionType, session'.id = session.id, session'.ending = session.ending, FramesInv',
             UNCHANGED choice, queue' \in Seq(Events), UiInv(queue')
      PROVE  UiInv(queue)' /\ queue' \in Seq(Events) /\ session' \in SessionType
             /\ choice' \in [Ids -> {"none", "cancelled", "done"}]
  BY <1>1, <1>8, ShowKeeps DEF TypeOK
<1>9. CASE UiAdd
  <2>1. queue # <<>> /\ Head(queue).do = "add" /\ queue' = rest /\ UNCHANGED choice
    BY <1>9 DEF UiAdd, Due
  <2>2. Head(queue).frame \in Frames
    BY <1>2, <2>1, Taken DEF Events, Install, Add, Key, Cancel, Teardown
  <2>3. CASE ForSession(Head(queue).frame.of)
    <3>1. session' = [session EXCEPT !.pending = @ \cup {Head(queue).frame}] /\ session.id = Head(queue).frame.of
      BY <1>9, <2>3 DEF UiAdd, ForSession
    <3>2. /\ session' \in SessionType /\ session'.id = session.id /\ session'.ending = session.ending
          /\ session'.windows = session.windows /\ session'.pending = session.pending \cup {Head(queue).frame}
      BY <1>2, <2>2, <3>1
    <3>3. FramesInv'
      BY <3>1, <3>2 DEF UiInv, FramesInv
    <3>4. QED BY <1>4, <1>8, <2>1, <3>2, <3>3
  <2>4. CASE ~ForSession(Head(queue).frame.of)
    <3>1. UNCHANGED session
      BY <1>9, <2>4 DEF UiAdd
    <3>2. FramesInv'
      BY <3>1 DEF UiInv, FramesInv
    <3>3. QED BY <1>2, <1>4, <1>8, <2>1, <3>1, <3>2
  <2>5. QED BY <2>3, <2>4
<1>10. ASSUME queue' = rest, UNCHANGED <<session, choice>>, queue # <<>>,
              Head(queue).do \notin {"install", "teardown"}
       PROVE  UiInv(queue)' /\ queue' \in Seq(Events) /\ session' \in SessionType
              /\ choice' \in [Ids -> {"none", "cancelled", "done"}]
  <2>1. FramesInv'
    BY <1>10 DEF UiInv, FramesInv
  <2>2. QED BY <1>2, <1>4, <1>8, <1>10, <2>1
<1>11. CASE UiAddFails
  <2>1. queue # <<>> /\ Head(queue).do = "add"
    BY <1>11 DEF UiAddFails, Due
  <2>2. Settle("cancelled", rest) \/ (queue' = rest /\ UNCHANGED <<session, choice>>)
    BY <1>11 DEF UiAddFails
  <2>3. QED BY <1>5, <1>7, <1>10, <2>1, <2>2
<1>12. CASE UiKey
  <2>1. queue # <<>> /\ Head(queue).do = "key"
    BY <1>12 DEF UiKey, Due
  <2>2. Head(queue).plan \in Plans
    BY <1>2, <2>1, Taken DEF Events, Install, Add, Key, Cancel, Teardown
  <2>3. Settle(Head(queue).plan, rest) \/ (queue' = rest /\ UNCHANGED <<session, choice>>)
    BY <1>12 DEF UiKey
  <2>4. QED BY <1>7, <1>10, <2>1, <2>2, <2>3
<1>13. CASE UiCancel
  <2>1. queue # <<>> /\ Head(queue).do = "cancel" /\ Settle("cancelled", rest)
    BY <1>13 DEF UiCancel, Due
  <2>2. QED BY <1>5, <1>7, <2>1
<1>14. CASE UiNoWindow
  BY <1>5, <1>6, <1>14 DEF UiNoWindow
<1>15. ASSUME NEW f \in session.pending, Windows(f)
       PROVE  UiInv(queue)' /\ queue' \in Seq(Events) /\ session' \in SessionType
              /\ choice' \in [Ids -> {"none", "cancelled", "done"}]
  <2>1. f \in Frames
    BY <1>2
  <2>2. CASE UiShow(f)
    <3>1. /\ session' = [session EXCEPT !.pending = @ \ {f}, !.windows = @ \cup {f}]
          /\ UNCHANGED <<queue, choice>>
      BY <2>2 DEF UiShow
    <3>2. /\ session' \in SessionType /\ session'.id = session.id /\ session'.ending = session.ending
          /\ session'.windows = session.windows \cup {f} /\ session'.pending = session.pending \ {f}
      BY <1>2, <2>1, <3>1
    <3>3. FramesInv'
      BY <3>2 DEF UiInv, FramesInv
    <3>4. QED BY <1>2, <1>8, <3>1, <3>2, <3>3
  <2>3. CASE UiShowFails(f) /\ f.display = Cursor
    BY <1>5, <1>6, <2>3 DEF UiShowFails
  <2>4. CASE UiShowFails(f) /\ f.display # Cursor
    <3>1. session' = [session EXCEPT !.pending = @ \ {f}] /\ UNCHANGED <<queue, choice>>
      BY <2>4 DEF UiShowFails
    <3>2. /\ session' \in SessionType /\ session'.id = session.id /\ session'.ending = session.ending
          /\ session'.windows = session.windows /\ session'.pending = session.pending \ {f}
      BY <1>2, <3>1
    <3>3. FramesInv'
      BY <3>2 DEF UiInv, FramesInv
    <3>4. QED BY <1>2, <1>8, <3>1, <3>2, <3>3
  <2>5. QED BY <1>15, <2>2, <2>3, <2>4 DEF Windows
<1>16. ASSUME NEW plan \in Plans, UserPoints(plan)
       PROVE  UiInv(queue)' /\ queue' \in Seq(Events) /\ session' \in SessionType
              /\ choice' \in [Ids -> {"none", "cancelled", "done"}]
  BY <1>6, <1>16 DEF UserPoints
<1>17. ASSUME NEW plan \in Plans, UserPresses(plan)
       PROVE  UiInv(queue)' /\ queue' \in Seq(Events) /\ session' \in SessionType
              /\ choice' \in [Ids -> {"none", "cancelled", "done"}]
  <2>1. queue' = Append(queue, Key(session.id, plan)) /\ UNCHANGED <<session, choice>> /\ session.id \in Ids
    BY <1>2, <1>17 DEF UserPresses, Post, Live, uiVars
  <2>2. Key(session.id, plan) \in Plain
    BY <2>1 DEF Plain, Events, Key
  <2>3. UiInv(queue') /\ queue' \in Seq(Events)
    BY <1>2, <2>1, <2>2, PostPlain, Posted DEF Plain
  <2>4. FramesInv'
    BY <2>1 DEF UiInv, FramesInv
  <2>5. QED BY <1>2, <1>8, <2>1, <2>3, <2>4
<1>18. QED BY <1>9, <1>11, <1>12, <1>13, <1>14, <1>15, <1>16, <1>17

-----------------------------------------------------------------------------
(* The threads                                                              *)

(* A thread that asks is counted with what it may begin. *)
LEMMA AskingEnters ==
  ASSUME TypeOK, AskInv, NEW t \in Threads, Goes(t, "out", "look"), asks' = asks + 1, UNCHANGED lastId
  PROVE  AskInv'
<1>1. Asking' = Asking \cup {t} /\ t \notin Asking
  BY DEF Asking, Goes, TypeOK
<1>2. IsFiniteSet(Asking') /\ Cardinality(Asking') = Cardinality(Asking) + 1 /\ Cardinality(Asking) \in Nat
  BY <1>1, FS_AddElement, FS_CardinalityType DEF AskInv
<1>3. QED BY <1>2 DEF AskInv, TypeOK

(* It leaves with one session at most. *)
LEMMA AskingLeaves ==
  ASSUME TypeOK, AskInv, NEW t \in Threads, thread[t] \in {"look", "begin"},
         NEW to \in {"grab", "sent", "out"}, thread' = [thread EXCEPT ![t] = to],
         UNCHANGED asks, lastId' \in {lastId, lastId + 1}
  PROVE  AskInv' /\ lastId' <= asks
<1>1. Asking' = Asking \ {t} /\ t \in Asking
  BY DEF Asking, TypeOK
<1>2. /\ IsFiniteSet(Asking') /\ Cardinality(Asking') = Cardinality(Asking) - 1
      /\ Cardinality(Asking) \in Nat /\ Cardinality(Asking') \in Nat
  BY <1>1, FS_RemoveElement, FS_CardinalityType DEF AskInv
<1>3. QED BY <1>2 DEF AskInv, TypeOK

LEMMA AskingStays ==
  ASSUME AskInv, UNCHANGED <<asks, lastId>>,
         \A t \in Threads : thread'[t] \in {"look", "begin"} <=> thread[t] \in {"look", "begin"}
  PROVE  AskInv'
<1>1. Asking' = Asking
  BY DEF Asking
<1>2. QED BY <1>1 DEF AskInv

(* The result goes to the waiter that waits. *)
LEMMA AfterIs ==
  ASSUME TypeOK, NEW t \in Threads
  PROVE  /\ After(t) \in {"sent", "out"}
         /\ After(t) = "sent" => t \in Agents /\ waiter[t] = "waiting"
         /\ t \in Agents /\ After(t) = "out" => waiter[t] # "waiting"
BY DEF After, TypeOK

(* A step of one thread, or of an agent's waiter: what it may change and what comes of it. *)
LEMMA Asks ==
  ASSUME TypeOK, ThreadInv, NEW t \in Threads,
         \/ t \in Callers /\ Ask(t)
         \/ t \in Agents /\ AgentAsks(t)
  PROVE  ThreadInv' /\ TypeOK'
<1>1. /\ asks < MaxAsks /\ asks' = asks + 1 /\ Goes(t, "out", "look")
      /\ UNCHANGED <<open, lastId, queue, outcome, grabs, session, rendering, choice, handled>>
  BY DEF Ask, AgentAsks, uiVars
<1>2. AskInv'
  BY <1>1, AskingEnters DEF ThreadInv
<1>3. /\ thread' \in [Threads -> {"out", "look", "begin", "grab", "wait", "sent"}]
      /\ thread'[t] = "look" /\ \A u \in Threads : u # t => thread'[u] = thread[u]
  BY <1>1 DEF Goes, TypeOK
<1>4. asks' \in 0..MaxAsks /\ lastId' \in 0..asks'
  BY <1>1, OverlayAssumption DEF TypeOK
<1>5. CASE t \in Callers /\ Ask(t)
  <2>1. UNCHANGED <<mine, waiter>> /\ t \notin Agents
    BY <1>5, OverlayAssumption DEF Ask
  <2>2. MineInv' /\ WaiterInv'
    BY <1>1, <1>3, <2>1 DEF ThreadInv, MineInv, WaiterInv, Threads
  <2>3. TypeOK'
    BY <1>1, <1>3, <1>4, <2>1 DEF TypeOK
  <2>4. QED BY <1>2, <2>2, <2>3 DEF ThreadInv
<1>6. CASE t \in Agents /\ AgentAsks(t)
  <2>1. waiter' = [waiter EXCEPT ![t] = "waiting"] /\ mine' = [mine EXCEPT ![t] = None]
    BY <1>6 DEF AgentAsks
  <2>2. /\ waiter' \in [Agents -> {"out", "waiting", "late"}] /\ waiter'[t] = "waiting"
        /\ \A a \in Agents : a # t => waiter'[a] = waiter[a]
    BY <1>6, <2>1 DEF TypeOK
  <2>3. /\ mine' \in [Threads -> 0..lastId] /\ \A u \in Threads : u # t => mine'[u] = mine[u]
    BY <2>1 DEF TypeOK, None
  <2>4. MineInv'
    BY <1>3, <2>3 DEF ThreadInv, MineInv
  <2>5. WaiterInv'
    BY <1>1, <1>3, <2>2, <2>3 DEF ThreadInv, WaiterInv, Threads
  <2>6. TypeOK'
    BY <1>1, <1>3, <1>4, <2>2, <2>3 DEF TypeOK
  <2>7. QED BY <1>2, <2>4, <2>5, <2>6 DEF ThreadInv
<1>7. QED BY <1>5, <1>6

LEMMA BeginKeeps ==
  ASSUME IInv, NEW t \in Threads, Begin(t)
  PROVE  IInv'
<1> DEFINE n == lastId + 1
<1> USE DEF IInv
<1>1. /\ ~open /\ open' = TRUE /\ lastId' = n /\ mine' = [mine EXCEPT ![t] = n]
      /\ queue' = Append(queue, Install(n)) /\ thread[t] = "begin" /\ thread' = [thread EXCEPT ![t] = "grab"]
      /\ UNCHANGED <<outcome, grabs, waiter, session, rendering, choice, asks, handled>>
  BY DEF Begin, Goes, Post, uiVars
<1>2. AskInv' /\ n <= asks
  BY <1>1, AskingLeaves DEF ThreadInv
<1>3. n \in Ids /\ n # None /\ n \in 0..asks
  BY <1>2, OverlayAssumption DEF Ids, None, TypeOK
<1>4. Install(n) \in Events /\ Install(n).do = "install" /\ Install(n).id = n
  BY <1>3 DEF Events, Install
<1>5. queue \in Seq(Events)
  BY DEF TypeOK
<1>6. /\ thread' \in [Threads -> {"out", "look", "begin", "grab", "wait", "sent"}]
      /\ thread'[t] = "grab" /\ \A u \in Threads : u # t => thread'[u] = thread[u]
  BY <1>1 DEF TypeOK
<1>7. mine' \in [Threads -> 0..n] /\ mine'[t] = n /\ \A u \in Threads : u # t => mine'[u] = mine[u]
  BY <1>1 DEF TypeOK
<1>8. PlaceInv(queue)'
  <2>1. ~Has(queue, "install") /\ session.id = None /\ rendering = {}
    BY <1>1 DEF UiInv, PlaceInv
  <2>2. /\ Has(queue', "install") /\ (Has(queue', "teardown") <=> Has(queue, "teardown"))
        /\ Once(queue', "install") /\ Once(queue', "teardown")
    BY <1>1, <1>4, <1>5, <2>1, PostedHas DEF UiInv, PlaceInv
  <2>3. QED BY <1>1, <2>1, <2>2 DEF UiInv, PlaceInv
<1>9. ChosenInv(queue)'
  <2>1. outcome[n] = "none"
    BY <1>3 DEF UiInv, ChosenInv, TypeOK
  <2>2. \A i \in DOMAIN queue' : (i \in DOMAIN queue /\ queue'[i] = queue[i]) \/ queue'[i] = Install(n)
    BY <1>1, <1>4, <1>5, Posted
  <2>3. \A m \in Ids : m > n => m > lastId
    BY DEF Ids, TypeOK
  <2>4. \A i \in DOMAIN queue : queue[i] \in Events
    BY <1>5
  <2>5. \A m \in Ids : m <= lastId => m <= n
    BY DEF Ids, TypeOK
  <2>6. n <= n
    BY <1>3 DEF Ids
  <2>7. \A i \in DOMAIN queue : queue[i].do = "install" => queue[i].id \in Ids
    BY <2>4 DEF Events, Install, Add, Key, Cancel, Teardown
  <2>8. \A i \in DOMAIN queue' :
          /\ queue'[i].do = "install" => queue'[i].id <= n /\ outcome[queue'[i].id] = "none"
          /\ queue'[i].do = "teardown" => OutcomeOf(queue'[i].plan) = choice[session.id]
    BY <1>4, <2>1, <2>2, <2>5, <2>6, <2>7 DEF UiInv, ChosenInv
  <2>9. session.id = None /\ rendering = {}
    BY <1>1 DEF UiInv, PlaceInv
  <2>10. QED BY <1>1, <2>3, <2>8, <2>9 DEF UiInv, ChosenInv
<1>10. FramesInv'
  BY <1>1 DEF UiInv, FramesInv
<1>11. MineInv'
  BY <1>3, <1>6, <1>7 DEF ThreadInv, MineInv
<1>12. WaiterInv'
  BY <1>1, <1>6, <1>7 DEF ThreadInv, WaiterInv, Threads
<1>13. TypeOK'
  <2>1. queue' \in Seq(Events)
    BY <1>1, <1>4, <1>5, Posted
  <2>2. QED BY <1>1, <1>3, <1>6, <1>7, <2>1 DEF TypeOK
<1>14. QED BY <1>2, <1>8, <1>9, <1>10, <1>11, <1>12, <1>13 DEF UiInv, ThreadInv

(* A thread that goes back to where it came from has told the waiter, or that is too late. *)
LEMMA WaitersHear ==
  ASSUME TypeOK, WaiterInv, NEW t \in Threads, thread[t] # "out",
         NEW to, t \in Agents /\ to = "out" => waiter[t] # "waiting",
         thread' = [thread EXCEPT ![t] = to], UNCHANGED <<mine, waiter>>, handled \subseteq handled'
  PROVE  WaiterInv'
<1>1. thread'[t] = to /\ \A u \in Threads : u # t => thread'[u] = thread[u]
  BY DEF TypeOK
<1>2. Agents \subseteq Threads
  BY DEF Threads
<1>3. QED BY <1>1, <1>2 DEF WaiterInv, TypeOK

(* A thread that finds OPEN up goes back, and one that does not goes on. *)
LEMMA LookKeeps ==
  ASSUME IInv, NEW t \in Threads, Look(t) \/ BeginFails(t)
  PROVE  IInv'
<1> USE DEF IInv
<1>1. UNCHANGED <<open, lastId, queue, outcome, grabs, waiter, uiVars, mine, asks, handled>>
  BY DEF Look, BeginFails
<1>2. PICK to \in {"begin", After(t)} : thread' = [thread EXCEPT ![t] = to]
  BY DEF Look, BeginFails, Goes
<1>3. thread[t] \in {"look", "begin"}
  BY DEF Look, BeginFails, Goes
<1>4. /\ to \in {"begin", "sent", "out"} /\ (to = "sent" => t \in Agents)
      /\ (t \in Agents /\ to = "out" => waiter[t] # "waiting")
  BY <1>2, AfterIs
<1>5. /\ thread' \in [Threads -> {"out", "look", "begin", "grab", "wait", "sent"}]
      /\ thread'[t] = to /\ \A u \in Threads : u # t => thread'[u] = thread[u]
  BY <1>2, <1>4 DEF TypeOK
<1>6. AskInv'
  <2>1. CASE to = "begin"
    BY <1>1, <1>3, <1>5, <2>1, AskingStays DEF ThreadInv
  <2>2. CASE to # "begin"
    BY <1>1, <1>2, <1>3, <1>4, <2>2, AskingLeaves DEF ThreadInv
  <2>3. QED BY <2>1, <2>2
<1>7. MineInv'
  BY <1>1, <1>4, <1>5 DEF ThreadInv, MineInv
<1>8. WaiterInv'
  BY <1>1, <1>2, <1>3, <1>4, WaitersHear DEF ThreadInv
<1>9. UiInv(queue)'
  BY <1>1, SessionsAlone
<1>10. TypeOK'
  BY <1>1, <1>4, <1>5 DEF TypeOK, uiVars
<1>11. QED BY <1>6, <1>7, <1>8, <1>9, <1>10 DEF ThreadInv

(* What is posted by a thread is a frame or a cancel: no session comes or goes. *)
LEMMA GrabKeeps ==
  ASSUME IInv, NEW t \in Threads, Grab(t) \/ GrabFails(t)
  PROVE  IInv'
<1> USE DEF IInv
<1>1. /\ thread[t] = "grab" /\ thread' = [thread EXCEPT ![t] = "wait"]
      /\ grabs' = grabs \cup [display : Others, of : {mine[t]}]
      /\ UNCHANGED <<open, lastId, outcome, waiter, uiVars, mine, asks, handled>>
  BY DEF Grab, GrabFails, Goes, Spawned
<1>2. mine[t] \in Ids
  BY <1>1, OverlayAssumption DEF ThreadInv, MineInv, TypeOK, Ids, None
<1>3. PICK e \in {Cancel, Add([display |-> Cursor, of |-> mine[t]])} : queue' = queue \/ queue' = Append(queue, e)
  BY DEF Grab, GrabFails, Post
<1>4. e \in Plain /\ e \in Events
  BY <1>2 DEF Plain, Events, Cancel, Add, Frames
<1>5. UiInv(queue') /\ queue' \in Seq(Events)
  <2>1. queue \in Seq(Events)
    BY DEF TypeOK
  <2>2. QED BY <1>3, <1>4, <2>1, PostPlain, Posted
<1>6. UiInv(queue)'
  BY <1>1, <1>5, SessionsAlone
<1>7. /\ thread' \in [Threads -> {"out", "look", "begin", "grab", "wait", "sent"}]
      /\ thread'[t] = "wait" /\ \A u \in Threads : u # t => thread'[u] = thread[u]
  BY <1>1 DEF TypeOK
<1>8. AskInv'
  BY <1>1, <1>7, AskingStays DEF ThreadInv
<1>9. MineInv'
  BY <1>1, <1>7 DEF ThreadInv, MineInv
<1>10. WaiterInv'
  BY <1>1, WaitersHear DEF ThreadInv
<1>11. grabs' \subseteq Frames
  BY <1>1, <1>2 DEF Frames, TypeOK
<1>12. TypeOK'
  BY <1>1, <1>5, <1>7, <1>11 DEF TypeOK, uiVars
<1>13. QED BY <1>6, <1>8, <1>9, <1>10, <1>12 DEF ThreadInv

LEMMA GrabOtherKeeps ==
  ASSUME IInv, NEW f \in grabs, GrabOther(f)
  PROVE  IInv'
<1> USE DEF IInv
<1>1. /\ grabs' = grabs \ {f}
      /\ UNCHANGED <<open, lastId, outcome, waiter, uiVars, threadVars>>
      /\ queue' = queue \/ queue' = Append(queue, Add(f))
  BY DEF GrabOther, Post
<1>2. Add(f) \in Plain /\ Add(f) \in Events /\ queue \in Seq(Events)
  BY DEF Plain, Events, Add, TypeOK
<1>3. UiInv(queue') /\ queue' \in Seq(Events)
  BY <1>1, <1>2, PostPlain, Posted
<1>4. UiInv(queue)'
  BY <1>1, <1>3, SessionsAlone
<1>5. ThreadInv'
  BY <1>1, ThreadsAlone
<1>6. TypeOK'
  BY <1>1, <1>3 DEF TypeOK, uiVars, threadVars
<1>7. QED BY <1>4, <1>5, <1>6

LEMMA HearKeeps ==
  ASSUME IInv, NEW t \in Threads, Hear(t)
  PROVE  IInv'
<1> USE DEF IInv
<1>1. /\ thread[t] = "wait" /\ thread' = [thread EXCEPT ![t] = After(t)]
      /\ UNCHANGED <<open, lastId, queue, outcome, grabs, waiter, uiVars, mine, asks>>
      /\ handled' = IF t \in Callers THEN handled \cup {mine[t]} ELSE handled
  BY DEF Hear, Goes
<1>2. mine[t] \in Ids
  BY <1>1, OverlayAssumption DEF ThreadInv, MineInv, TypeOK, Ids, None
<1>3. handled \subseteq handled' /\ handled' \subseteq Ids
  BY <1>1, <1>2 DEF TypeOK
<1>4. /\ thread' \in [Threads -> {"out", "look", "begin", "grab", "wait", "sent"}]
      /\ thread'[t] = After(t) /\ \A u \in Threads : u # t => thread'[u] = thread[u]
      /\ After(t) \in {"sent", "out"} /\ (After(t) = "sent" => t \in Agents)
  BY <1>1, AfterIs DEF TypeOK
<1>5. AskInv'
  BY <1>1, <1>4, AskingStays DEF ThreadInv
<1>6. MineInv'
  BY <1>1, <1>4 DEF ThreadInv, MineInv
<1>7. WaiterInv'
  BY <1>1, <1>3, AfterIs, WaitersHear DEF ThreadInv
<1>8. UiInv(queue)'
  BY <1>1, SessionsAlone
<1>9. TypeOK'
  BY <1>1, <1>3, <1>4 DEF TypeOK, uiVars
<1>10. QED BY <1>5, <1>6, <1>7, <1>8, <1>9 DEF ThreadInv

LEMMA AgentHearsKeeps ==
  ASSUME IInv, NEW a \in Agents, AgentHears(a)
  PROVE  IInv'
<1> USE DEF IInv
<1>1. /\ waiter[a] = "waiting" /\ waiter' = [waiter EXCEPT ![a] = "out"]
      /\ thread[a] = "sent" /\ thread' = [thread EXCEPT ![a] = "out"]
      /\ handled' = handled \cup ({mine[a]} \ {None})
      /\ UNCHANGED <<open, lastId, queue, outcome, grabs, uiVars, mine, asks>>
  BY DEF AgentHears, Goes
<1>2. a \in Threads /\ Agents \subseteq Threads
  BY DEF Threads
<1>3. handled' \subseteq Ids
  <2>1. mine[a] \in 0..lastId /\ lastId \in 0..asks /\ asks \in 0..MaxAsks /\ handled \subseteq Ids
    BY <1>2 DEF TypeOK
  <2>2. mine[a] # None => mine[a] \in Ids
    BY <2>1, OverlayAssumption DEF Ids, None
  <2>3. QED BY <1>1, <2>1, <2>2
<1>4. /\ thread' \in [Threads -> {"out", "look", "begin", "grab", "wait", "sent"}]
      /\ thread'[a] = "out" /\ \A u \in Threads : u # a => thread'[u] = thread[u]
      /\ waiter' \in [Agents -> {"out", "waiting", "late"}]
      /\ waiter'[a] = "out" /\ \A b \in Agents : b # a => waiter'[b] = waiter[b]
  BY <1>1, <1>2 DEF TypeOK
<1>5. AskInv'
  BY <1>1, <1>2, <1>4, AskingStays DEF ThreadInv
<1>6. MineInv'
  BY <1>1, <1>2, <1>4 DEF ThreadInv, MineInv
<1>7. WaiterInv'
  BY <1>1, <1>2, <1>4 DEF ThreadInv, WaiterInv
<1>8. UiInv(queue)'
  BY <1>1, SessionsAlone
<1>9. TypeOK'
  BY <1>1, <1>3, <1>4 DEF TypeOK, uiVars
<1>10. QED BY <1>5, <1>6, <1>7, <1>8, <1>9 DEF ThreadInv

LEMMA TimeLimitKeeps ==
  ASSUME IInv, NEW a \in Agents, TimeLimit(a)
  PROVE  IInv'
<1> USE DEF IInv
<1>1. /\ waiter' = [waiter EXCEPT ![a] = "late"] /\ thread[a] \in {"grab", "wait"}
      /\ queue' = Append(queue, Cancel)
      /\ UNCHANGED <<open, lastId, outcome, grabs, uiVars, threadVars>>
  BY DEF TimeLimit, Post
<1>2. Cancel \in Plain /\ Cancel \in Events /\ queue \in Seq(Events)
  BY DEF Plain, Events, Cancel, TypeOK
<1>3. UiInv(queue') /\ queue' \in Seq(Events)
  BY <1>1, <1>2, PostPlain, Posted
<1>4. UiInv(queue)'
  BY <1>1, <1>3, SessionsAlone
<1>5. /\ waiter' \in [Agents -> {"out", "waiting", "late"}]
      /\ waiter'[a] = "late" /\ \A b \in Agents : b # a => waiter'[b] = waiter[b]
  BY <1>1 DEF TypeOK
<1>6. AskInv'
  BY <1>1, AskingStays DEF ThreadInv, threadVars
<1>7. MineInv'
  BY <1>1 DEF ThreadInv, MineInv, threadVars
<1>8. WaiterInv'
  BY <1>1, <1>5 DEF ThreadInv, WaiterInv, threadVars
<1>9. TypeOK'
  BY <1>1, <1>3, <1>5 DEF TypeOK, uiVars, threadVars
<1>10. QED BY <1>4, <1>6, <1>7, <1>8, <1>9 DEF ThreadInv

-----------------------------------------------------------------------------
(* The invariant                                                            *)

LEMMA InitIInv == Init => IInv
<1> SUFFICES ASSUME Init PROVE IInv
  OBVIOUS
<1>1. queue = <<>> /\ queue \in Seq(Events) /\ DOMAIN queue = {}
  BY DEF Init
<1>2. session.id = None /\ session.ending = FALSE /\ session.windows = {} /\ session.pending = {} /\ rendering = {}
  BY DEF Init, NoSession
<1>3. PlaceInv(queue)
  BY <1>1, <1>2 DEF Init, PlaceInv, Has, Once
<1>4. ChosenInv(queue)
  BY <1>1, <1>2 DEF Init, ChosenInv
<1>5. FramesInv
  BY <1>2 DEF FramesInv
<1>6. Asking = {}
  BY DEF Init, Asking
<1>7. IsFiniteSet(Asking) /\ Cardinality(Asking) = 0
  BY <1>6, FS_EmptySet
<1>8. AskInv
  BY <1>7 DEF Init, AskInv
<1>9. MineInv /\ WaiterInv
  BY DEF Init, MineInv, WaiterInv, Threads
<1>10. session \in [id : Ids \cup {None}, windows : SUBSET Frames, pending : SUBSET Frames, ending : BOOLEAN]
  BY DEF Init, NoSession
<1>11. TypeOK
  <2>1. open \in BOOLEAN /\ rendering \in SUBSET Ids /\ grabs \in SUBSET Frames /\ handled \in SUBSET Ids
    BY DEF Init
  <2>2. asks \in 0..MaxAsks /\ lastId \in 0..asks
    BY OverlayAssumption DEF Init
  <2>3. outcome \in [Ids -> {"none", "cancelled", "done"}] /\ choice \in [Ids -> {"none", "cancelled", "done"}]
    BY DEF Init
  <2>4. /\ thread \in [Threads -> {"out", "look", "begin", "grab", "wait", "sent"}]
        /\ \A t \in Threads : thread[t] = "sent" => t \in Agents
    BY DEF Init
  <2>5. mine \in [Threads -> 0..lastId]
    BY DEF Init, None
  <2>6. waiter \in [Agents -> {"out", "waiting", "late"}]
    BY DEF Init
  <2>7. QED BY <1>1, <1>10, <2>1, <2>2, <2>3, <2>4, <2>5, <2>6 DEF TypeOK
<1>12. QED BY <1>3, <1>4, <1>5, <1>8, <1>9, <1>11 DEF IInv, UiInv, ThreadInv

LEMMA NextIInv == IInv /\ [Next]_vars => IInv'
<1> SUFFICES ASSUME IInv, [Next]_vars PROVE IInv'
  OBVIOUS
<1>1. ASSUME NEW t \in Threads, (t \in Callers /\ Ask(t)) \/ (t \in Agents /\ AgentAsks(t))
      PROVE  IInv'
  <2>1. ThreadInv' /\ TypeOK'
    BY <1>1, Asks DEF IInv
  <2>2. UNCHANGED <<open, lastId, queue, outcome, uiVars>>
    BY <1>1 DEF Ask, AgentAsks
  <2>3. UiInv(queue)'
    BY <2>2, SessionsAlone DEF IInv
  <2>4. QED BY <2>1, <2>3 DEF IInv
<1>2. ASSUME NEW t \in Threads, ThreadGoesOn(t)
      PROVE  IInv'
  BY <1>2, LookKeeps, BeginKeeps, GrabKeeps, HearKeeps DEF ThreadGoesOn
<1>3. ASSUME UNCHANGED <<lastId, waiter, threadVars>>, UiInv(queue)', TypeOK'
      PROVE  IInv'
  BY <1>3, ThreadsAlone DEF IInv
<1>4. CASE UiInstall
  BY <1>3, <1>4, InstallKeeps DEF IInv, UiInstall
<1>5. CASE UiTeardown
  BY <1>3, <1>5, TeardownKeeps DEF IInv, UiTeardown
<1>6. ASSUME NEW n \in rendering, Render(n)
      PROVE  IInv'
  BY <1>3, <1>6, RenderKeeps DEF IInv, Render
<1>7. ASSUME \/ UiAdd \/ UiAddFails \/ UiKey \/ UiCancel \/ UiNoWindow
             \/ \E f \in session.pending : Windows(f)
             \/ \E plan \in Plans : UserPoints(plan) \/ UserPresses(plan)
      PROVE  IInv'
  <2>1. UNCHANGED <<lastId, waiter, threadVars>>
    BY <1>7 DEF UiAdd, UiAddFails, UiKey, UiCancel, UiNoWindow, Windows, UiShow, UiShowFails, UserPoints, UserPresses
  <2>2. UiInv(queue)' /\ TypeOK'
    BY <1>7, UiKeeps DEF IInv
  <2>3. QED BY <1>3, <2>1, <2>2
<1>8. CASE UNCHANGED vars
  <2>1. UNCHANGED <<open, lastId, queue, outcome, grabs, waiter, uiVars, threadVars>>
    BY <1>8 DEF vars
  <2>2. UiInv(queue)'
    BY <2>1, SessionsAlone DEF IInv
  <2>3. TypeOK'
    BY <2>1 DEF IInv, TypeOK, uiVars, threadVars
  <2>4. QED BY <1>3, <2>1, <2>2, <2>3
<1>9. CASE Next
  <2>1. ASSUME NEW t \in Callers, Ask(t) PROVE IInv'
    BY <1>1, <2>1 DEF Threads
  <2>2. ASSUME NEW a \in Agents, AgentAsks(a) PROVE IInv'
    BY <1>1, <2>2 DEF Threads
  <2>3. ASSUME NEW f \in grabs, GrabOther(f) PROVE IInv'
    BY <2>3, GrabOtherKeeps
  <2>4. ASSUME NEW a \in Agents, AgentHears(a) \/ TimeLimit(a) PROVE IInv'
    BY <2>4, AgentHearsKeeps, TimeLimitKeeps
  <2>5. QED BY <1>2, <1>4, <1>5, <1>6, <1>7, <1>9, <2>1, <2>2, <2>3, <2>4 DEF Next, Handle
<1>10. QED BY <1>8, <1>9

LEMMA Invariance == Spec => []IInv
BY InitIInv, NextIInv, PTL DEF Spec

-----------------------------------------------------------------------------
(* What follows                                                             *)

(* Every reachable state of a session, its threads and its agents is well typed. *)
THEOREM TypeCorrect == Spec => []TypeOK
<1>1. IInv => TypeOK
  BY DEF IInv
<1>2. QED BY <1>1, Invariance, PTL

(* OPEN is up just while there is a session somewhere, and no frame is in another session's window. *)
THEOREM OpenIsASession == Spec => []OpenMeansSession
<1>1. IInv => OpenMeansSession
  BY DEF IInv, UiInv, PlaceInv, FramesInv, OpenMeansSession, Queued, Has
<1>2. QED BY <1>1, Invariance, PTL

(* `done` says how the session ended first, and the agent that still waits hears of it. *)
THEOREM DoneOnce == Spec => []DoneIsTheChoice
<1>1. IInv => DoneIsTheChoice
  BY DEF IInv, UiInv, ChosenInv, ThreadInv, WaiterInv, DoneIsTheChoice
<1>2. QED BY <1>1, Invariance, PTL
=============================================================================
