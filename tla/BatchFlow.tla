------------------------------- MODULE BatchFlow -------------------------------
(***************************************************************************)
(* One run of a BatchFlow (src/batch_flow.rs): `run` with its on_start and  *)
(* on_end hooks around `execute`, which prepares the bundles and runs the   *)
(* graph once for each, in one of two ways.                                 *)
(*                                                                         *)
(* In parallel, each bundle runs a cloned graph over its own copy of        *)
(* shared, as a closure of the mapper (RunParallel): one awaited call, a    *)
(* Flow of its own with a budget of its own.  The copies of the bundles     *)
(* that end are pushed as they end and merged at last.                      *)
(*                                                                         *)
(* In sequence, the bundles traverse the one graph one after the other,     *)
(* write into the real shared and draw on one budget.  A visit may lead to  *)
(* a further one or not, which stands for every graph.                      *)
(*                                                                         *)
(* Of shared only the bundles that wrote to it are kept.  A bundle is its   *)
(* index.                                                                   *)
(***************************************************************************)
EXTENDS RunParallel, Sequences, SequencesExt

CONSTANTS
  HookCount,  \* number of hook sets
  MaxSteps,   \* bound on max_steps
  Cycle,      \* FlowError::Cycle; to the mapper a failure like others
  NoStart     \* FlowError::Flow of a traversal without a start node

ASSUME BatchFlowAssumption ==
  /\ HookCount \in Nat
  /\ MaxSteps \in Nat
  /\ {Cycle, NoStart} \subseteq Failures

VARIABLES
  failFast,   \* fail_fast
  hasStart,   \* start_node is set
  maxSteps,   \* max_steps
  phase,      \* where run stands
  hook,       \* the hook awaited in a fan-out of run or of the sequential loop
  asked,      \* the on_error hook each parallel bundle awaits, 0 for none
  next,       \* the bundle of the sequential loop
  steps,      \* budget.steps of the sequential bundles
  pushed,     \* bundle_shareds
  shared,     \* what was written to the real shared, and by which bundle
  err,        \* what execute failed with
  result      \* what run returned: "ok", an error, None before

\* History.
VARIABLES
  failed,     \* the bundles whose run failed, but not by Aborted
  reported    \* the bundles that were put to on_error

settings == <<failFast, hasStart, maxSteps>>
loopVars == <<next, steps>>
copies   == <<asked, pushed>>
ending   == <<err, result>>
history  == <<failed, reported>>
own      == <<settings, phase, hook, loopVars, copies, shared, ending, history>>
allVars  == <<vars, own>>

Parallel == concurrency > 1 /\ n > 0

Phase == {"on_start", "fan_out", "merge", "loop", "step", "visit", "on_error",
          "post", "on_end", "returned"}

BundleTypeOK ==
  /\ failFast \in BOOLEAN /\ hasStart \in BOOLEAN
  /\ maxSteps \in 0 .. MaxSteps
  /\ phase \in Phase
  /\ hook \in 1 .. HookCount + 1
  /\ asked \in [Worker -> 0 .. HookCount]
  /\ next \in 0 .. n
  /\ steps \in Nat
  /\ pushed \in Seq(Item)
  /\ shared \in Seq(Item)
  /\ err \in Error \cup {None}
  /\ result \in Error \cup {"ok", None}
  /\ failed \subseteq Item
  /\ reported \subseteq failed

\* with_concurrency raises 0 to 1.  The bundles are those prep will return.
BatchFlowInit ==
  /\ Init
  /\ concurrency > 0
  /\ failFast \in BOOLEAN
  /\ hasStart \in BOOLEAN
  /\ maxSteps \in IF Parallel THEN {MaxSteps} ELSE 0 .. MaxSteps
  /\ phase = "on_start"
  /\ hook = 1
  /\ asked = [w \in Worker |-> 0]
  /\ next = 0
  /\ steps = 0
  /\ pushed = <<>>
  /\ shared = <<>>
  /\ err = None
  /\ result = None
  /\ failed = {}
  /\ reported = {}

--------------------------------------------------------------------------------
(***************************************************************************)
(* run.                                                                     *)
(***************************************************************************)

Cancel ==
  /\ phase # "returned"
  /\ ParentCancel
  /\ UNCHANGED own

\* A hook of on_start or on_end that fails is what run returns at once.
HookFails ==
  /\ \E e \in Error : result' = e
  /\ phase' = "returned"
  /\ UNCHANGED hook

StartHook ==
  /\ phase = "on_start" /\ hook <= HookCount
  /\ (hook' = hook + 1 /\ UNCHANGED <<phase, result>>) \/ HookFails
  /\ UNCHANGED <<vars, settings, loopVars, copies, shared, err, history>>

\* execute ends, with an error or None.
Ends(e) == err' = e /\ phase' = "on_end" /\ hook' = 1

\* prep; the parallel mode looks for the start node before it begins.
Prep ==
  /\ phase = "on_start" /\ hook > HookCount
  /\ \/ \E e \in Error : Ends(e)
     \/ Parallel /\ ~hasStart /\ Ends(NoStart)
     \/ /\ ~Parallel \/ hasStart
        /\ phase' = IF Parallel THEN "fan_out" ELSE "loop"
        /\ hook' = 1
        /\ UNCHANGED err
  /\ UNCHANGED <<vars, settings, loopVars, copies, shared, result, history>>

Post ==
  /\ phase = "post"
  /\ \E e \in Error \cup {None} : Ends(e)
  /\ UNCHANGED <<vars, settings, loopVars, copies, shared, result, history>>

EndHook ==
  /\ phase = "on_end" /\ hook <= HookCount
  /\ (hook' = hook + 1 /\ UNCHANGED <<phase, result>>) \/ HookFails
  /\ UNCHANGED <<vars, settings, loopVars, copies, shared, err, history>>

Finish ==
  /\ phase = "on_end" /\ hook > HookCount
  /\ result' = IF err = None THEN "ok" ELSE err
  /\ phase' = "returned"
  /\ UNCHANGED <<vars, settings, hook, loopVars, copies, shared, err, history>>

\* Mutant: fail_fast is not looked at.
OnlyAborted(e) == e = Aborted

\* The errors of a bundle that end the fan-out or the loop.
Propagated(e) == e = Aborted \/ failFast

\* Mutant: a hook too many.
HooksLeftLate(h) == h <= HookCount + 1

HooksLeft(h) == h <= HookCount

--------------------------------------------------------------------------------
(***************************************************************************)
(* Bundles in parallel.                                                     *)
(***************************************************************************)

\* The mapper's steps that touch no closure, and its return.
Drive(w) ==
  /\ phase = "fan_out"
  /\ Step(w)
  /\ UNCHANGED own

Joined ==
  /\ phase = "fan_out"
  /\ Return
  /\ UNCHANGED own

Pushed(w) == Append(pushed, held[w])

\* Mutant: a worker is done after one bundle.
EndLeaves(w) ==
  /\ pushed' = Pushed(w)
  /\ out' = [out EXCEPT ![held[w]] = held[w]]
  /\ pc' = [pc EXCEPT ![w] = "exited"]
  /\ asked' = [asked EXCEPT ![w] = 0]
  /\ UNCHANGED <<n, concurrency, parent, linked, cursor, firstErr, held,
                 polling, status, raised>>

\* The closure pushes its copy of shared and returns Ok.
BundleEnds(w) ==
  /\ pushed' = Pushed(w)
  /\ SettleOk(w)
  /\ asked' = [asked EXCEPT ![w] = 0]

\* The closure returns an error; its copy is lost.
BundleFails(w, e) ==
  /\ SettleErr(w, e)
  /\ asked' = [asked EXCEPT ![w] = 0]
  /\ UNCHANGED pushed

\* Mutant: the copy is pushed before the hooks are asked, and once more after.
PushedFirst(w, h) ==
  \/ /\ HooksLeft(h)
     /\ asked' = [asked EXCEPT ![w] = h]
     /\ pushed' = Pushed(w)
     /\ UNCHANGED vars
  \/ ~HooksLeft(h) /\ BundleEnds(w)

\* The on_error hooks from the h-th on; when none decides the bundle ends.
AskOnError(w, h) ==
  \/ /\ HooksLeft(h)
     /\ asked' = [asked EXCEPT ![w] = h]
     /\ UNCHANGED <<vars, pushed>>
  \/ ~HooksLeft(h) /\ BundleEnds(w)

\* The lifecycle of the bundle's own Flow settles.
BundleRuns(w) ==
  /\ phase = "fan_out"
  /\ pc[w] = "busy" /\ Polled(w) /\ asked[w] = 0
  /\ \/ BundleEnds(w) /\ UNCHANGED failed
     \/ \E e \in Error :
          /\ failed' = IF e = Aborted THEN failed ELSE failed \cup {held[w]}
          /\ IF Propagated(e) THEN BundleFails(w, e) ELSE AskOnError(w, 1)
  /\ UNCHANGED <<settings, phase, hook, loopVars, shared, ending, reported>>

\* Its on_error hook answers: with nothing, with a policy that is not followed,
\* or with an error.
BundleHook(w) ==
  /\ phase = "fan_out"
  /\ pc[w] = "busy" /\ Polled(w) /\ asked[w] # 0
  /\ reported' = reported \cup {held[w]}
  /\ \/ AskOnError(w, asked[w] + 1)
     \/ BundleEnds(w)
     \/ \E e \in Error : BundleFails(w, e)
  /\ UNCHANGED <<settings, phase, hook, loopVars, shared, ending, failed>>

Dropped(w) ==
  /\ phase = "fan_out"
  /\ Interrupt(w)
  /\ asked' = [asked EXCEPT ![w] = 0]
  /\ UNCHANGED <<settings, phase, hook, loopVars, pushed, shared, ending, history>>

FannedOut ==
  /\ phase = "fan_out"
  /\ \/ status = "err" /\ Ends(firstErr)
     \/ status = "ok" /\ phase' = "merge" /\ UNCHANGED <<err, hook>>
  /\ UNCHANGED <<vars, settings, loopVars, copies, shared, result, history>>

\* merge folds the copies, in the order of bundle_shareds, into shared.
Merge ==
  /\ phase = "merge"
  /\ \/ \E e \in Error : Ends(e) /\ UNCHANGED shared
     \/ phase' = "post" /\ shared' = shared \o pushed /\ UNCHANGED <<err, hook>>
  /\ UNCHANGED <<vars, settings, loopVars, copies, result, history>>

--------------------------------------------------------------------------------
(***************************************************************************)
(* Bundles in sequence.                                                     *)
(***************************************************************************)

\* Mutant: the failure is passed over in silence.
AskNobody(h) == phase' = "loop" /\ next' = next + 1 /\ hook' = 1 /\ UNCHANGED err

NextBundle == phase' = "loop" /\ next' = next + 1 /\ hook' = 1 /\ UNCHANGED err

AskFrom(h) ==
  \/ HooksLeft(h) /\ phase' = "on_error" /\ hook' = h /\ UNCHANGED <<next, err>>
  \/ ~HooksLeft(h) /\ NextBundle

\* The `match` on the outcome of a bundle that failed.
Fails(e) ==
  /\ failed' = IF e = Aborted THEN failed ELSE failed \cup {next}
  /\ \/ Propagated(e) /\ Ends(e) /\ UNCHANGED next
     \/ ~Propagated(e) /\ AskFrom(1)

\* Head of the loop over the bundles, up to the first step of orchestrate.
Loop ==
  /\ phase = "loop"
  /\ \/ next >= n /\ phase' = "post" /\ UNCHANGED <<next, hook, err, failed>>
     \/ next < n /\ parent /\ Fails(Aborted)
     \/ next < n /\ ~parent /\ ~hasStart /\ Fails(NoStart)
     \/ /\ next < n /\ ~parent /\ hasStart
        /\ phase' = "step"
        /\ UNCHANGED <<next, hook, err, failed>>
  /\ UNCHANGED <<vars, settings, steps, copies, shared, result, reported>>

\* Mutant: one step too many.
OverBudgetLate(k) == k > maxSteps + 1

OverBudget(k) == k > maxSteps

StopRequested == parent

\* Head of orchestrate's loop: count, check the budget, then the token, visit.
Visit ==
  /\ phase = "step"
  /\ steps' = steps + 1
  /\ \/ OverBudget(steps') /\ Fails(Cycle) /\ UNCHANGED shared
     \/ ~OverBudget(steps') /\ StopRequested /\ Fails(Aborted) /\ UNCHANGED shared
     \/ /\ ~OverBudget(steps') /\ ~StopRequested
        /\ phase' = "visit"
        /\ shared' = Append(shared, next)
        /\ UNCHANGED <<next, hook, err, failed>>
  /\ UNCHANGED <<vars, settings, copies, result, reported>>

\* The node's lifecycle settles: another node follows, none does, or it failed.
VisitSettles ==
  /\ phase = "visit"
  /\ \/ phase' = "step" /\ UNCHANGED <<next, hook, err, failed>>
     \/ NextBundle /\ UNCHANGED failed
     \/ \E e \in Error : Fails(e)
  /\ UNCHANGED <<vars, settings, steps, copies, shared, result, reported>>

\* Mutant: the traversal is awaited as it is.
NotRaced == FALSE /\ UNCHANGED allVars

\* race_abort drops a traversal that is pending.
Interrupted ==
  /\ phase = "visit" /\ parent
  /\ Fails(Aborted)
  /\ UNCHANGED <<vars, settings, steps, copies, shared, result, reported>>

\* An on_error hook answers; nothing races it here.
ErrorHook ==
  /\ phase = "on_error"
  /\ reported' = reported \cup {next}
  /\ \/ AskFrom(hook + 1)
     \/ NextBundle
     \/ \E e \in Error : Ends(e) /\ UNCHANGED next
  /\ UNCHANGED <<vars, settings, steps, copies, shared, result, failed>>

--------------------------------------------------------------------------------
BatchFlowReturned == phase = "returned" /\ UNCHANGED allVars

Hooks  == StartHook \/ EndHook \/ ErrorHook
Ops    == Prep \/ Merge \/ Post
Engine == Joined \/ FannedOut \/ Loop \/ Visit \/ Interrupted \/ Finish

BatchFlowNext ==
  \/ Cancel \/ Hooks \/ Ops \/ Engine \/ VisitSettles
  \/ \E w \in Worker : Drive(w) \/ BundleRuns(w) \/ BundleHook(w) \/ Dropped(w)
  \/ BatchFlowReturned

BatchFlowSpec == BatchFlowInit /\ [][BatchFlowNext]_allVars

\* The engine is polled; prep, merge, post and the hooks of run and of the
\* sequential loop settle.  The runs of the bundles, the visits and the hooks
\* of a parallel bundle may hang.
BatchFlowFair ==
  /\ WF_allVars(Engine) /\ WF_allVars(Ops) /\ WF_allVars(Hooks)
  /\ \A w \in Worker : WF_allVars(Drive(w)) /\ WF_allVars(Dropped(w))

BatchFlowSpecFair == BatchFlowSpec /\ BatchFlowFair

--------------------------------------------------------------------------------
(***************************************************************************)
(* Properties.                                                              *)
(***************************************************************************)

\* merge is given the copy of every bundle, once each, whichever finished first;
\* only a cancel leaves some out.  A bundle that failed without fail_fast is among
\* them: its copy is pushed after the hooks were asked, with what it had written
\* (batch_flow.rs 222-232).  src/tests/flow.rs 3089 says of this case that "only
\* surviving bundles [are] merged in", which is not so; the bundle that fails in
\* that test has written nothing, and the test does not tell.
MergeGetsEveryBundle ==
  phase = "merge" =>
    /\ IsInjective(pushed)
    /\ parent \/ ToSet(pushed) = 0 .. n - 1

\* In sequence the bundles write in order and within one budget: when post is
\* called each of them was visited, or failed, those that found the budget
\* used up by the ones before among them (batch_flow.rs 243-258).
BundlesShareBudget ==
  ~Parallel =>
    /\ Len(shared) <= maxSteps
    /\ \A j, k \in 1 .. Len(shared) : j < k => shared[j] <= shared[k]
    /\ phase = "post" => \A i \in 0 .. n - 1 : i \in failed \/ Contains(shared, i)

\* When post is called every bundle that failed was put to the on_error hooks,
\* in either mode, unless fail_fast is on: then none had failed.
FailedBundlesReported ==
  phase = "post" =>
    IF failFast THEN failed = {} ELSE HookCount > 0 => failed = reported

\* With fail_fast shared is left as the failed bundle left it: no other bundle
\* writes to it and nothing is merged ("true: the first bundle failure throws
\* and cancels in-flight bundles", batch_flow.rs 117).  Once the token is
\* cancelled no node is visited in sequence and no bundle is begun in parallel.
StopsAreFinal ==
  [][/\ failFast /\ failed # {} => shared' = shared
     /\ parent => /\ phase # "merge" => shared' = shared
                  /\ \A w \in Worker : pc'[w] = "busy" => pc[w] = "busy"]_allVars

\* The parallel bundles keep to what the mapper expects of its closures.
BundlesUseMapper == Spec

\* A cancelled run ends although the runs of the bundles, the visits and the
\* on_error hooks of parallel bundles may hang.
CancelEndsBundles == parent ~> phase = "returned"

(***************************************************************************)
(* What the documentation says and the code does not do.                    *)
(***************************************************************************)

\* README.md 165: "concurrency: > 1 = bounded parallel, still order-preserved",
\* said of batch nodes and BatchFlow: merge gets the copies in bundle order.
MergeInOrder ==
  phase = "merge" => \A j, k \in 1 .. Len(pushed) : j < k => pushed[j] < pushed[k]

================================================================================
