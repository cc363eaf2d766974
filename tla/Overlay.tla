------------------------------ MODULE Overlay -------------------------------
(***************************************************************************)
(* A session of the capture overlay (shotik-ui/overlay/mod.rs), the        *)
(* threads that open one and wait for it (overlay.rs), and an agent that   *)
(* asks the user for a region with a time limit (mcp_wiring.rs).           *)
(*                                                                         *)
(* What is Slint's lives on the UI thread, which handles one thing after   *)
(* another: what other threads post, in the order they post it, and what   *)
(* comes from the user and from windows being created.  Only OPEN is seen  *)
(* from every thread.                                                      *)
(***************************************************************************)
EXTENDS Naturals, Sequences, SequencesExt

CONSTANTS
  Callers,   (* threads of a hotkey, the tray or the main window           *)
  Agents,    (* requests of an agent: each has a waiter and a thread       *)
  Cursor,    (* the display under the cursor: its window is the focused one *)
  Others,    (* the other displays                                         *)
  MaxAsks    (* a bound for the model: overlays asked for                  *)

ASSUME OverlayAssumption ==
  /\ Callers \cap Agents = {}
  /\ Cursor \notin Others
  /\ MaxAsks \in Nat

VARIABLES
  open,       (* OPEN                                                      *)
  lastId,     (* NEXT_SESSION                                              *)
  session,    (* SESSION                                                   *)
  queue,      (* the UI thread's event loop                                *)
  rendering,  (* sessions whose image is being rendered off the UI thread  *)
  outcome,    (* what each session's `done` was called with                *)
  grabs,      (* background captures of the other displays                 *)
  thread,     (* where each thread that runs an overlay is, and its session *)
  mine,
  waiter,     (* the waiter of each agent's request                        *)
  asks,
  (* for the properties only *)
  choice,     (* what the first end of each session was                    *)
  handled     (* sessions whose result the application went on with        *)

uiVars == <<session, rendering, choice>>
threadVars == <<thread, mine, asks, handled>>
vars == <<open, lastId, queue, outcome, grabs, waiter, uiVars, threadVars>>

Threads == Callers \cup Agents
Ids == 1..MaxAsks
Frames == [display : {Cursor} \cup Others, of : Ids]
Plans == {"cancelled", "action", "render"}

None == 0
NoSession == [id |-> None, windows |-> {}, pending |-> {}, ending |-> FALSE]
OutcomeOf(plan) == IF plan = "cancelled" THEN "cancelled" ELSE "done"

Install(n) == [do |-> "install", id |-> n]
Add(f) == [do |-> "add", frame |-> f]
Key(n, plan) == [do |-> "key", id |-> n, plan |-> plan]
Cancel == [do |-> "cancel"]
Teardown(plan) == [do |-> "teardown", plan |-> plan]

Init ==
  /\ open = FALSE /\ lastId = 0
  /\ session = NoSession
  /\ queue = <<>>
  /\ rendering = {} /\ grabs = {}
  /\ outcome = [n \in Ids |-> "none"]
  /\ thread = [t \in Threads |-> "out"]
  /\ mine = [t \in Threads |-> None]
  /\ waiter = [a \in Agents |-> "out"]
  /\ asks = 0
  /\ choice = [n \in Ids |-> "none"]
  /\ handled = {}

Post(event) == queue' = Append(queue, event)

-----------------------------------------------------------------------------
(* A thread in overlay_session.  That an installation keeps it out is the   *)
(* concern of module Handover.                                              *)

Goes(t, from, to) == thread[t] = from /\ thread' = [thread EXCEPT ![t] = to]

(* A slip: the result is sent whoever ran the overlay. *)
AfterForAll(t) == "sent"

(* An agent's thread sends its result to the waiter, if that still waits. *)
After(t) == IF t \in Agents /\ waiter[t] = "waiting" THEN "sent" ELSE "out"

Ask(t) ==
  /\ asks < MaxAsks
  /\ asks' = asks + 1
  /\ Goes(t, "out", "look")
  /\ UNCHANGED <<open, lastId, queue, outcome, grabs, waiter, uiVars, mine, handled>>

Look(t) ==
  /\ Goes(t, "look", IF open THEN After(t) ELSE "begin")
  /\ UNCHANGED <<open, lastId, queue, outcome, grabs, waiter, uiVars, mine, asks, handled>>

(* A slip: OPEN is raised, but nobody looks whether it was up. *)
BeginUnchecked(t) ==
  /\ open' = TRUE
  /\ lastId' = lastId + 1
  /\ mine' = [mine EXCEPT ![t] = lastId + 1]
  /\ Post(Install(lastId + 1))
  /\ Goes(t, "begin", "grab")
  /\ UNCHANGED <<outcome, grabs, waiter, uiVars, asks, handled>>

Begin(t) ==
  /\ ~open
  /\ open' = TRUE
  /\ lastId' = lastId + 1
  /\ mine' = [mine EXCEPT ![t] = lastId + 1]
  /\ Post(Install(lastId + 1))
  /\ Goes(t, "begin", "grab")
  /\ UNCHANGED <<outcome, grabs, waiter, uiVars, asks, handled>>

(* Another thread's overlay came in between the look and the exchange. *)
BeginFails(t) ==
  /\ open
  /\ Goes(t, "begin", After(t))
  /\ UNCHANGED <<open, lastId, queue, outcome, grabs, waiter, uiVars, mine, asks, handled>>

(* The display under the cursor is captured; then the others' captures are spawned. *)
Spawned(n) == grabs' = grabs \cup [display : Others, of : {n}]

(* add_display gives up quietly when no overlay is open at all. *)
Grab(t) ==
  /\ IF open THEN Post(Add([display |-> Cursor, of |-> mine[t]])) ELSE UNCHANGED queue
  /\ Goes(t, "grab", "wait")
  /\ Spawned(mine[t])
  /\ UNCHANGED <<open, lastId, outcome, waiter, uiVars, mine, asks, handled>>

(* A slip: the failure is shown to the user, and nobody ends the session. *)
GrabFailsOpen(t) ==
  /\ Goes(t, "grab", "wait")
  /\ Spawned(mine[t])
  /\ UNCHANGED <<open, lastId, queue, outcome, waiter, uiVars, mine, asks, handled>>

(* The capture failed, or its picture could not be converted. *)
GrabFails(t) ==
  /\ Post(Cancel)
  /\ Goes(t, "grab", "wait")
  /\ Spawned(mine[t])
  /\ UNCHANGED <<open, lastId, outcome, waiter, uiVars, mine, asks, handled>>

(* Another display's capture: a failure is only logged. *)
GrabOther(f) ==
  /\ f \in grabs
  /\ grabs' = grabs \ {f}
  /\ (open /\ Post(Add(f))) \/ UNCHANGED queue
  /\ UNCHANGED <<open, lastId, outcome, waiter, uiVars, threadVars>>

(* `done` was called.  A hotkey's thread goes on with the result itself. *)
Hear(t) ==
  /\ thread[t] = "wait" /\ outcome[mine[t]] # "none"
  /\ Goes(t, "wait", After(t))
  /\ handled' = IF t \in Callers THEN handled \cup {mine[t]} ELSE handled
  /\ UNCHANGED <<open, lastId, queue, outcome, grabs, waiter, uiVars, mine, asks>>

-----------------------------------------------------------------------------
(* select_region_for_mcp                                                    *)

(* An overlay that is open already is an error for the agent. *)
AgentAsks(a) ==
  /\ asks < MaxAsks
  /\ ~open
  /\ waiter[a] # "waiting"
  /\ asks' = asks + 1
  /\ waiter' = [waiter EXCEPT ![a] = "waiting"]
  /\ Goes(a, "out", "look")
  /\ mine' = [mine EXCEPT ![a] = None]
  /\ UNCHANGED <<open, lastId, queue, outcome, grabs, uiVars, handled>>

AgentHears(a) ==
  /\ waiter[a] = "waiting"
  /\ waiter' = [waiter EXCEPT ![a] = "out"]
  /\ Goes(a, "sent", "out")
  /\ handled' = handled \cup ({mine[a]} \ {None})
  /\ UNCHANGED <<open, lastId, queue, outcome, grabs, uiVars, mine, asks>>

(* A slip: the agent is told, and the overlay stays open. *)
TimeLimitOpen(a) ==
  /\ waiter[a] = "waiting" /\ thread[a] \in {"grab", "wait"}
  /\ waiter' = [waiter EXCEPT ![a] = "late"]
  /\ UNCHANGED <<open, lastId, queue, outcome, grabs, uiVars, threadVars>>

(* The user took too long; that the thread takes two minutes to open an overlay is left out. *)
TimeLimit(a) ==
  /\ waiter[a] = "waiting" /\ thread[a] \in {"grab", "wait"}
  /\ waiter' = [waiter EXCEPT ![a] = "late"]
  /\ Post(Cancel)
  /\ UNCHANGED <<open, lastId, outcome, grabs, uiVars, threadVars>>

-----------------------------------------------------------------------------
(* The UI thread                                                            *)

Live == session.id # None /\ ~session.ending

(* settle, with what remains of the queue: once per session, and the windows go on the next turn. *)
Settle(plan, rest) ==
  IF Live
  THEN /\ session' = [session EXCEPT !.ending = TRUE]
       /\ queue' = Append(rest, Teardown(plan))
       /\ choice' = [choice EXCEPT ![session.id] = OutcomeOf(plan)]
  ELSE queue' = rest /\ UNCHANGED <<session, choice>>

Due(do) == queue # <<>> /\ Head(queue).do = do

(* The `done` of a session that was still there would be dropped, which its thread hears as Cancelled. *)
UiInstall ==
  /\ Due("install")
  /\ session' = [NoSession EXCEPT !.id = Head(queue).id]
  /\ outcome' = IF session.id = None THEN outcome ELSE [outcome EXCEPT ![session.id] = "cancelled"]
  /\ queue' = Tail(queue)
  /\ UNCHANGED <<open, lastId, rendering, grabs, waiter, choice, threadVars>>

(* A slip: the frame goes to whichever session there is. *)
ForAnySession(n) == Live

(* A frame or a key may outlive its session. *)
ForSession(n) == Live /\ session.id = n

UiAdd ==
  /\ Due("add")
  /\ session' = IF ForSession(Head(queue).frame.of)
                THEN [session EXCEPT !.pending = @ \cup {Head(queue).frame}] ELSE session
  /\ queue' = Tail(queue)
  /\ UNCHANGED <<open, lastId, outcome, rendering, grabs, waiter, choice, threadVars>>

(* There is no slot for the frame: without the focused one the session cannot go on. *)
UiAddFails ==
  /\ Due("add") /\ ForSession(Head(queue).frame.of)
  /\ IF Head(queue).frame.display = Cursor THEN Settle("cancelled", Tail(queue))
     ELSE queue' = Tail(queue) /\ UNCHANGED <<session, choice>>
  /\ UNCHANGED <<open, lastId, outcome, rendering, grabs, waiter, threadVars>>

UiKey ==
  /\ Due("key")
  /\ IF ForSession(Head(queue).id) THEN Settle(Head(queue).plan, Tail(queue))
     ELSE queue' = Tail(queue) /\ UNCHANGED <<session, choice>>
  /\ UNCHANGED <<open, lastId, outcome, rendering, grabs, waiter, threadVars>>

UiCancel ==
  /\ Due("cancel")
  /\ Settle("cancelled", Tail(queue))
  /\ UNCHANGED <<open, lastId, outcome, rendering, grabs, waiter, threadVars>>

(* teardown takes the session that is there; an image is rendered first, on a thread of its own. *)
UiTeardown ==
  /\ Due("teardown")
  /\ queue' = Tail(queue)
  /\ session' = NoSession
  /\ IF Head(queue).plan = "render"
     THEN rendering' = rendering \cup {session.id} /\ UNCHANGED <<open, outcome>>
     ELSE /\ open' = FALSE
          /\ outcome' = [outcome EXCEPT ![session.id] = OutcomeOf(Head(queue).plan)]
          /\ UNCHANGED rendering
  /\ UNCHANGED <<lastId, grabs, waiter, choice, threadVars>>

Render(n) ==
  /\ n \in rendering
  /\ rendering' = rendering \ {n}
  /\ open' = FALSE
  /\ outcome' = [outcome EXCEPT ![n] = "done"]
  /\ UNCHANGED <<lastId, queue, grabs, waiter, session, choice, threadVars>>

(* A native window is there, possibly before its frame was. *)
UiShow(f) ==
  /\ Live /\ f \in session.pending
  /\ session' = [session EXCEPT !.pending = @ \ {f}, !.windows = @ \cup {f}]
  /\ UNCHANGED <<open, lastId, queue, outcome, rendering, grabs, waiter, choice, threadVars>>

(* It cannot be opened. *)
UiShowFails(f) ==
  /\ Live /\ f \in session.pending
  /\ IF f.display = Cursor THEN Settle("cancelled", queue)
     ELSE /\ session' = [session EXCEPT !.pending = @ \ {f}]
          /\ UNCHANGED <<queue, choice>>
  /\ UNCHANGED <<open, lastId, outcome, rendering, grabs, waiter, threadVars>>

(* A native window cannot be created, be it the spare one's or a frame's. *)
UiNoWindow ==
  /\ Live /\ (session.pending # {} \/ session.windows = {})
  /\ Settle("cancelled", queue)
  /\ UNCHANGED <<open, lastId, outcome, rendering, grabs, waiter, threadVars>>

(* The user ends the session with the pointer, or with a key, which waits for its turn. *)
UserPoints(plan) ==
  /\ Live /\ session.windows # {}
  /\ Settle(plan, queue)
  /\ UNCHANGED <<open, lastId, outcome, rendering, grabs, waiter, threadVars>>

(* A bound for the model: one key at a time on its way. *)
UserPresses(plan) ==
  /\ Live /\ session.windows # {}
  /\ \A i \in DOMAIN queue : queue[i].do # "key"
  /\ Post(Key(session.id, plan))
  /\ UNCHANGED <<open, lastId, outcome, rendering, grabs, waiter, uiVars, threadVars>>

-----------------------------------------------------------------------------
ThreadGoesOn(t) == Look(t) \/ Begin(t) \/ BeginFails(t) \/ Grab(t) \/ GrabFails(t) \/ Hear(t)

Handle == UiInstall \/ UiAdd \/ UiAddFails \/ UiKey \/ UiCancel \/ UiTeardown

Windows(f) == UiShow(f) \/ UiShowFails(f)

Next ==
  \/ \E t \in Callers : Ask(t)
  \/ \E t \in Threads : ThreadGoesOn(t)
  \/ \E f \in grabs : GrabOther(f)
  \/ \E a \in Agents : AgentAsks(a) \/ AgentHears(a) \/ TimeLimit(a)
  \/ Handle
  \/ \E n \in rendering : Render(n)
  \/ \E f \in session.pending : Windows(f)
  \/ UiNoWindow
  \/ \E plan \in Plans : UserPoints(plan) \/ UserPresses(plan)

(* Threads and the UI thread go on, captures and renderings end, windows come or fail, and time limits run out.  *)
(* Nothing is expected of the user.                                                                              *)
Fairness ==
  /\ \A t \in Threads : WF_vars(ThreadGoesOn(t))
  /\ \A a \in Agents : WF_vars(AgentHears(a)) /\ WF_vars(TimeLimit(a))
  /\ WF_vars(Handle)
  /\ \A n \in Ids : WF_vars(Render(n))
  /\ \A f \in Frames : WF_vars(Windows(f)) /\ WF_vars(GrabOther(f))

Spec == Init /\ [][Next]_vars

FairSpec == Spec /\ Fairness

-----------------------------------------------------------------------------
Events ==
  {Cancel} \cup {Install(n) : n \in Ids} \cup {Add(f) : f \in Frames}
  \cup {Key(n, plan) : n \in Ids, plan \in Plans} \cup {Teardown(plan) : plan \in Plans}

TypeOK ==
  /\ open \in BOOLEAN
  /\ asks \in 0..MaxAsks /\ lastId \in 0..asks
  /\ session \in [id : Ids \cup {None}, windows : SUBSET Frames, pending : SUBSET Frames, ending : BOOLEAN]
  /\ queue \in Seq(Events)
  /\ rendering \in SUBSET Ids
  /\ grabs \in SUBSET Frames
  /\ outcome \in [Ids -> {"none", "cancelled", "done"}]
  /\ choice \in [Ids -> {"none", "cancelled", "done"}]
  /\ thread \in [Threads -> {"out", "look", "begin", "grab", "wait", "sent"}]
  /\ \A t \in Threads : thread[t] = "sent" => t \in Agents
  /\ mine \in [Threads -> 0..lastId]
  /\ waiter \in [Agents -> {"out", "waiting", "late"}]
  /\ handled \in SUBSET Ids

Queued(do) == \E i \in DOMAIN queue : queue[i].do = do

(* OPEN is up just while a session is on its way, there, or being rendered: an overlay that is refused as already open *)
(* will come to an end, and whoever gets past OPEN finds no other session.  A capture can outlive its session: its    *)
(* frame does not land in the next one.                                                                               *)
OpenMeansSession ==
  /\ open <=> Queued("install") \/ session.id # None \/ rendering # {}
  /\ session.ending <=> Queued("teardown")
  /\ \A f \in session.pending \cup session.windows : f.of = session.id

(* `done` fires once, with what ended the session first, however many cancels, keys and failures came behind it; and  *)
(* what the user finished for an agent is carried out, unless the agent's time ran out while it was being rendered.   *)
DoneIsTheChoice ==
  /\ \A n \in Ids : outcome[n] # "none" => outcome[n] = choice[n]
  /\ \A a \in Agents :
       thread[a] = "out" /\ mine[a] # None /\ outcome[mine[a]] = "done" /\ waiter[a] # "late" => mine[a] \in handled

(* A session that cannot show anything does not hang unseen. *)
NeverUnseen ==
  \A n \in Ids :
    session.id = n /\ session.windows = {} ~> session.id # n \/ session.windows # {}

(* When the time limit runs out, the overlay does not stay open with nobody waiting for it. *)
LimitCloses == \A a \in Agents : waiter[a] = "late" ~> thread[a] = "out"
=============================================================================
