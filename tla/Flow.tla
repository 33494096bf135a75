--------------------------------- MODULE Flow ---------------------------------
(***************************************************************************)
(* One run of a Flow (src/flow.rs): `run` with its on_start and on_end      *)
(* hooks, `execute` (the flow's own prep and post around the traversal),    *)
(* the traversal `orchestrate` with its step budget and cancel check, and   *)
(* the flows nested in it, whose `run_lifecycle` calls `execute` again with *)
(* a budget of its own.  `frames` is the stack of those calls.              *)
(*                                                                         *)
(* A visit of a plain node is one awaited call here; NodeLifecycle is what  *)
(* happens inside it.  Visits, prep, post and hooks are user code and may   *)
(* stay pending, succeed or fail.  The run's token is cancelled from        *)
(* outside at any time; each call of `execute` looks at the token it was    *)
(* passed, which for a nested flow is its parent's.                         *)
(*                                                                         *)
(* The graph, the budgets and the entry nodes are chosen by Init and do not *)
(* change during the run.  Every node belongs to one flow, so that no flow  *)
(* contains itself (the code does not rule that out: such a flow recurses   *)
(* without a bound).                                                        *)
(***************************************************************************)
EXTENDS Sequences, SequencesExt, Naturals, FlowErrors

CONSTANTS
  Nodes,      \* the plain nodes
  Flows,      \* the flows, nested ones included
  Root,       \* the flow that is run
  Home,       \* the flow whose graph a node or nested flow belongs to
  MaxSteps,   \* bound on the max_steps of a flow
  HookCount,  \* number of hook sets registered on Root
  Actions,    \* named actions
  Cycle,      \* FlowError::Cycle of a flow of this run; one that a visit
              \* brings along is a failure like others
  NoStart     \* FlowError::Flow of a flow without a start node

Element == Nodes \cup (Flows \ {Root})
Action  == Actions \cup {None}    \* None follows the "default" edge
Error   == UserError \cup {Cycle, NoStart}
Hook    == 1 .. HookCount

ASSUME FlowAssumption ==
  /\ Root \in Flows
  /\ Nodes \cap Flows = {}
  /\ Home \in [Element -> Flows]
  /\ MaxSteps \in Nat
  /\ HookCount \in Nat
  /\ None \notin Element \cup Actions \cup Error
  /\ Cycle \notin UserError \cup {NoStart}
  /\ "ok" \notin Error

VARIABLES
  start,      \* start_node of each flow
  edges,      \* successors of each node
  max,        \* max_steps of each flow
  cancelled,  \* the run's token is cancelled
  phase,      \* "on_start", "running", "on_end" or "returned"
  hook,       \* the hook awaited in a fan-out
  frames,     \* the calls of `execute` in progress, the innermost last
  action,     \* the action `run` will return
  err,        \* the error `run` will return
  result      \* what run returned: "ok", an error, None before

\* History.
VARIABLES
  trail,      \* the nodes and flows visited so far
  raised,     \* the last error that arose
  culprit,    \* the frame that failed
  heard       \* on_end calls that settled, per hook

graph   == <<start, edges, max>>
history == <<trail, raised, culprit, heard>>
vars    == <<graph, cancelled, phase, hook, frames, action, err, result, history>>

\* The token that run was given, and one of a flow's own, as a run that is given
\* none makes for itself; nobody cancels that one.
Token == {"run", "own"}

\* A call of execute: signal is the token it was passed; curr, last and steps are
\* the locals of orchestrate.
Frame ==
  [flow   : Flows,
   signal : Token,
   at     : {"prep", "step", "visit", "nested", "post"},
   curr   : Element \cup {None},
   last   : Action,
   steps  : Nat]

TypeOK ==
  /\ start \in [Flows -> Element \cup {None}]
  /\ edges \in [Element -> [Action -> Element \cup {None}]]
  /\ max \in [Flows -> 0 .. MaxSteps]
  /\ cancelled \in BOOLEAN
  /\ phase \in {"on_start", "running", "on_end", "returned"}
  /\ hook \in 1 .. HookCount + 1
  /\ frames \in Seq(Frame)
  /\ action \in Action
  /\ err \in Error \cup {None}
  /\ result \in Error \cup {"ok", None}
  /\ trail \in Seq(Element)
  /\ raised \in Error \cup {None}
  /\ culprit \in Frame \cup {None}
  /\ heard \in [Hook -> Nat]

InGraph(f) == {x \in Element : Home[x] = f} \cup {None}

Init ==
  /\ start \in {s \in [Flows -> Element \cup {None}] :
                  \A f \in Flows : s[f] \in InGraph(f)}
  /\ edges \in {g \in [Element -> [Action -> Element \cup {None}]] :
                  \A x \in Element, a \in Action : g[x][a] \in InGraph(Home[x])}
  /\ max \in [Flows -> 0 .. MaxSteps]
  /\ cancelled \in BOOLEAN
  /\ phase = "on_start"
  /\ hook = 1
  /\ frames = <<>>
  /\ action = None
  /\ err = None
  /\ result = None
  /\ trail = <<>>
  /\ raised = None
  /\ culprit = None
  /\ heard = [h \in Hook |-> 0]

--------------------------------------------------------------------------------
Cancel ==
  /\ phase # "returned" /\ ~cancelled
  /\ cancelled' = TRUE
  /\ UNCHANGED <<graph, phase, hook, frames, action, err, result, history>>

NewFrame(f, token) ==
  [flow |-> f, signal |-> token, at |-> "prep", curr |-> None, last |-> None, steps |-> 0]

Top == Last(frames)

At(p) == phase = "running" /\ Top.at = p

\* The innermost call goes on, calls another one, or returns to the one below.
SetTop(frame)    == frames' = Front(frames) \o <<frame>>
Push(frame, new) == frames' = Append(Front(frames) \o <<frame>>, new)
Pop(frame)       == frames' = Front(Front(frames)) \o <<frame>>

\* `?` takes an error from the frame where it arose through every enclosing
\* one: a nested flow has no lifecycle hooks of its own that could catch it.
Unwind(e, frame) ==
  /\ err' = e
  /\ raised' = e
  /\ culprit' = frame
  /\ frames' = <<>>
  /\ phase' = "on_end"
  /\ UNCHANGED <<action, trail>>

\* The successor wired for an action, None when there is none.
resolve_successor(x, a) == edges[x][a]

\* What was visited returned Ok(a): the traversal goes on at its successor.
Advance(f, a) ==
  [f EXCEPT !.at = "step", !.last = a, !.curr = resolve_successor(f.curr, a)]

\* The innermost call of execute returns Ok(a): to the traversal that visits
\* this flow, or to run.
ReturnAction(a) ==
  IF Len(frames) = 1
  THEN /\ action' = a
       /\ frames' = <<>>
       /\ phase' = "on_end"
  ELSE /\ Pop(Advance(Last(Front(frames)), a))
       /\ UNCHANGED <<action, phase>>

--------------------------------------------------------------------------------
\* on_start: in order; an error leaves run at once, on_end is not fired.
StartHook ==
  /\ phase = "on_start" /\ hook <= HookCount
  /\ \/ hook' = hook + 1 /\ UNCHANGED <<phase, result, raised>>
     \/ \E e \in UserError :
          /\ phase' = "returned"
          /\ result' = e
          /\ raised' = e
          /\ UNCHANGED hook
  /\ UNCHANGED <<graph, cancelled, frames, action, err, trail, culprit, heard>>

\* Every start hook has answered: execute, with the budget of this run.
Begin ==
  /\ phase = "on_start" /\ hook > HookCount
  /\ phase' = "running"
  /\ hook' = 1
  /\ frames' = <<NewFrame(Root, "run")>>
  /\ UNCHANGED <<graph, cancelled, action, err, result, history>>

\* The flow's own prep, then the start node it must have.
Prep ==
  /\ At("prep")
  /\ \/ LET s == start[Top.flow]
        IN  \/ /\ s # None
               /\ SetTop([Top EXCEPT !.at = "step", !.curr = s])
               /\ UNCHANGED <<phase, action, err, trail, raised, culprit>>
            \/ s = None /\ Unwind(NoStart, Top)
     \/ \E e \in UserError : Unwind(e, Top)
  /\ UNCHANGED <<graph, cancelled, hook, result, heard>>

\* Mutant: the budget is one short.
OverBudgetEarly(f) == f.steps >= max[f.flow]

\* The step that has just been counted is one too many.
OverBudget(f) == f.steps > max[f.flow]

\* Mutant: a nested flow is started as a run of its own.
OwnToken(f) == "own"

\* A nested flow adopts the token of the traversal that visits it.
Adopted(f) == f.signal

StopRequested(f) == f.signal = "run" /\ cancelled

\* Mutant: a cancelled traversal goes round instead of returning.
VisitSpins ==
  /\ At("step") /\ Top.curr # None
  /\ IF StopRequested(Top) THEN UNCHANGED frames ELSE SetTop([Top EXCEPT !.at = "visit"])
  /\ UNCHANGED <<graph, cancelled, phase, hook, action, err, result, history>>

\* The loop head of orchestrate: count the step, check the budget, then the
\* token, then visit; a nested flow is entered through its own execute.
Visit ==
  /\ At("step") /\ Top.curr # None
  /\ LET top == [Top EXCEPT !.steps = @ + 1]
     IN  \/ OverBudget(top) /\ Unwind(Cycle, top)
         \/ ~OverBudget(top) /\ StopRequested(top) /\ Unwind(Aborted, top)
         \/ /\ ~OverBudget(top) /\ ~StopRequested(top)
            /\ trail' = Append(trail, top.curr)
            /\ IF top.curr \in Flows
               THEN Push([top EXCEPT !.at = "nested"], NewFrame(top.curr, Adopted(top)))
               ELSE SetTop([top EXCEPT !.at = "visit"])
            /\ UNCHANGED <<phase, action, err, raised, culprit>>
  /\ UNCHANGED <<graph, cancelled, hook, result, heard>>

\* The visited node's run_lifecycle settles; the action picks the edge.
VisitSettles ==
  /\ At("visit")
  /\ \/ \E a \in Action :
          /\ SetTop(Advance(Top, a))
          /\ UNCHANGED <<phase, action, err, trail, raised, culprit>>
     \/ \E e \in UserError : Unwind(e, Top)
  /\ UNCHANGED <<graph, cancelled, hook, result, heard>>

\* No edge for the action: the traversal ends and the flow's own post runs.
Arrive ==
  /\ At("step") /\ Top.curr = None
  /\ SetTop([Top EXCEPT !.at = "post"])
  /\ UNCHANGED <<graph, cancelled, phase, hook, action, err, result, history>>

\* post may replace the final action (FlowOps); the default echoes it.
Post ==
  /\ At("post")
  /\ \/ \E a \in Action : ReturnAction(a) /\ UNCHANGED <<err, trail, raised, culprit>>
     \/ \E e \in UserError : Unwind(e, Top)
  /\ UNCHANGED <<graph, cancelled, hook, result, heard>>

\* on_end: in order; a hook's error replaces the result and ends the fan-out.
EndHook ==
  /\ phase = "on_end" /\ hook <= HookCount
  /\ heard' = [heard EXCEPT ![hook] = @ + 1]
  /\ \/ hook' = hook + 1 /\ UNCHANGED <<phase, result, raised>>
     \/ \E e \in UserError :
          /\ phase' = "returned"
          /\ result' = e
          /\ raised' = e
          /\ UNCHANGED hook
  /\ UNCHANGED <<graph, cancelled, frames, action, err, trail, culprit>>

\* Mutants: the action is returned in the place of Ok; the error is dropped.
ActionForOk  == IF err # None THEN err ELSE action
ErrorDropped == "ok"

Verdict == IF err # None THEN err ELSE "ok"

Finish ==
  /\ phase = "on_end" /\ hook > HookCount
  /\ result' = Verdict
  /\ phase' = "returned"
  /\ UNCHANGED <<graph, cancelled, hook, frames, action, err, history>>

Returned == phase = "returned" /\ UNCHANGED vars

Engine == Begin \/ Visit \/ Arrive \/ Finish
Ops    == Prep \/ Post
Hooks  == StartHook \/ EndHook

Next == Cancel \/ Engine \/ Ops \/ Hooks \/ VisitSettles \/ Returned

Spec == Init /\ [][Next]_vars

(***************************************************************************)
(* Engine steps are fair, the executor takes them.  A visit that is asked   *)
(* to stop returns (NodeLifecycle, CancelReturns), so VisitSettles is fair  *)
(* once the token is cancelled.  The flow's own prep and post and the hooks *)
(* have to settle: nothing races them with the token.                       *)
(***************************************************************************)
StopFair ==
  /\ WF_vars(Engine) /\ WF_vars(cancelled /\ VisitSettles)
  /\ WF_vars(Ops) /\ WF_vars(Hooks)

SpecStopFair == Spec /\ StopFair

--------------------------------------------------------------------------------
(***************************************************************************)
(* Properties.                                                              *)
(***************************************************************************)

\* Every flow in progress is within its own budget and stands at the flow that
\* is nested in it; Cycle is raised by a flow that has used its budget up, and
\* by no other (flow.rs 70-73, 271).
BudgetPerFlow ==
  /\ \A i \in 1 .. Len(frames) : frames[i].steps <= max[frames[i].flow]
  /\ \A i \in 1 .. Len(frames) - 1 :
       frames[i].at = "nested" /\ frames[i].curr = frames[i + 1].flow
  /\ err = Cycle => culprit.steps = max[culprit.flow] + 1

\* What run returns is the last error that arose, wherever it arose and
\* whatever was still to be done, and Ok when none did; it is Ok only when every
\* hook was told of the end, and none is told twice; when a start hook fails
\* nothing is visited and none is told (flow.rs 211-228).
ResultIsLastError ==
  /\ phase = "returned" => result = IF raised = None THEN "ok" ELSE raised
  /\ result = "ok" => \A h \in Hook : heard[h] = 1
  /\ \A h \in Hook : heard[h] <= 1
  /\ phase = "on_start" \/ (phase = "returned" /\ hook <= HookCount /\ heard[hook] = 0)
       => trail = <<>> /\ \A h \in Hook : heard[h] = 0

\* A traversal has a node left to visit on a cancelled run.
StoppedShort == cancelled /\ At("step") /\ Top.curr # None

\* A cancel is heeded at every depth of nesting and by every enclosing flow ("the
\* parent's cancellation token is adopted so cancellation propagates into the
\* sub-graph", flow.rs 254-256): no node is visited any more, and a run that has
\* nodes left then fails, whatever the flows around and the hooks still do; it is
\* Ok only where nothing was left to visit.
CancelIsHeeded ==
  /\ [][cancelled => trail' = trail]_vars
  /\ [](StoppedShort => [](result # "ok"))

\* A run ends when user code settles, whatever the graph: the budgets break
\* every cycle, those through nested flows too.
Terminates == WF_vars(VisitSettles) => <>(phase = "returned")

\* A cancelled run ends although the visits of a run that is not cancelled may
\* hang; the flow's prep and post and the hooks have to settle.
CancelReturns == cancelled ~> phase = "returned"

================================================================================
