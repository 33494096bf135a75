# Verification of focket-rs

TLA+ models of the flow engine of focket-rs, the TLC runs that check them and
the TLAPS proofs about them. Paths are relative to the repository; line numbers
refer to `src/src/*.rs`.

## The system

focket-rs runs graphs of nodes. A node has a lifecycle `prep -> exec -> post`,
returns an action, and the action picks the edge to the next node. The engine is
asynchronous and single-task: everything that is concurrent within a run is a set
of futures joined in one task, so that code is overtaken only where it awaits.
What comes from outside, the cancellation token and the timers, can come between
any two steps. All of prep, exec, post and the hooks is user code: a call may hang,
succeed, or fail with any error.

| Component | Source | State | Operations |
|---|---|---|---|
| Bounded-parallel mapper | `internal.rs` 20-148 | cursor, slots, first error, linked token, workers | `run_parallel` over `race_abort`, `link_signal` |
| Retry loop | `internal.rs` 166-212, `hooks.rs` 166-187 | attempt, last error | `retrying`, `fire_on_retry`, the pause, the fallback |
| Node lifecycle | `node.rs` 137-284, `internal.rs` 47-68, `hooks.rs` 122-211 | action, thrown, skipped, race | `run_lifecycle`, `race_work`, the node hooks |
| Flow | `flow.rs` | budget, current node, path, token | `run`, `execute`, `orchestrate`, nested `run_lifecycle` |
| Batch node | `node.rs` 147-189 | results per item | `exec_with_retry` over the mapper |
| BatchFlow | `batch_flow.rs` | bundles, their shared contexts | `run`, `execute`, parallel and sequential |
| ForkJoin | `fork_join.rs` | resolved branches | `prep`, `exec_with_retry`, `post`, `Clone` |
| Subflow | `subflow.rs` | sub-context | `prep`, `exec_with_retry`, `post`, `Clone` |
| Graph cloning | `node.rs` 326-347, `clone_node` of each kind | memo | `clone_graph`, `clone_successors` |
| Node core | `core.rs` | params, own params, successors, signal | `set_params`, `inject_params`, `resolve_successor`, `set_signal` |

How they interact. A flow's traversal awaits the lifecycle of one node at a time
and passes it the run's token, hooks and the shared context. The lifecycle races
prep, exec and post against the node's timer and the token; exec is a retry loop.
Batch nodes, parallel BatchFlows and ForkJoin put the mapper under their exec,
with a child of the token for each call. A nested flow, a Subflow's flow and a
ForkJoin's branches are lifecycles inside a lifecycle. Futures that lose a race
are dropped where they stand.

What is hard, and what makes each part correct:

- *Mapper.* Workers interleave, one fails while others succeed, a cancel arrives
  at any point. Correct: every item once and in its own slot, the first failure
  is reported and not the Aborted of a sibling it cancelled, none is swallowed,
  nothing begins after it, the call returns.
- *Retry loop.* Off-by-one in attempts and announcements; cancellation is never
  retried; nothing goes on after the race is lost.
- *Node lifecycle.* Many places can decide the outcome: a gate, post, a route, a
  throwing hook, the timer, the token. Correct: one of them decides, an Aborted
  is terminal wherever it came from, no body runs late, hooks hear both ends, a
  timeout or cancel brings the visit back.
- *Flow.* Cycles through nested flows, the budget's boundary, cancels between
  nodes, errors on errors. Correct: every run ends, each flow pays with its own
  budget, a cancel is heeded at every depth and not lost on the way back, the last
  error is returned.
- *BatchFlow.* Bundles fail, end and are dropped in any order. Correct: merge is
  given every copy once, failed bundles are reported, a stop leaves nothing of
  the others behind, sequential bundles share one budget.
- *ForkJoin, Subflow.* Two lifecycles, two races, up to three tokens and a retry
  loop inside one another, and a failed branch is asked about twice. Correct: join
  hears of the last attempt and nothing else, a failed branch that is to be
  settled does not fail the fork, nothing begins its work after a stop, a
  cancelled one comes back whatever hangs in it.
- *Cloning and core.* The nodes are shared between everything that runs; params
  and signal are fields of the node. Correct: a clone has the shape of its graph
  and shares with it no more than the code says, and a visit finds the params and
  the token of its own run.

`PROJECT.json` lists each hazard at its line.

## Modules

### RunParallel, ParallelMap, RunParallelProofs

`RunParallel` is one call of `run_parallel`. A worker is a program counter that
follows the loop (`loop` 117, `claim` 120, `enter` the guard of `race_abort` 33,
`busy` the select 36); `polling` names the worker whose poll is under way, since
the workers are futures of one task. The token is two flags, the parent's and the
linked child's own. Each item's value is its index. With concurrency 0 or 1 the
single worker runs the sequential loop (`SeqNext`) and an error leaves by `?`. A
closure may hang, return a value, or fail, also with Aborted.

`ParallelMap` says what callers are promised, without workers and cursor: a set
of items in flight, at most `limit` of them, begun in order, none after a failure
or a cancel; the first error is the verdict; Ok is complete unless cancelled.
`ImplementsMap` is the refinement, with the items being polled for the first.

A worker that finds its token cancelled leaves in silence (117-119), so a
cancelled call may return Ok with empty slots. That is why completeness is
claimed for calls that were not cancelled, here and in the abstract map.

### FlowErrors, Retrying, RetryingProofs, NodeLifecycle, NodeLifecycleProofs, Visit

`FlowErrors` declares how an awaited call can end: "ok", an error of user code, or
Aborted, the one kind the engine tells apart.

`Retrying` holds the retry loop as operators on a record: `Resume` gives the
state after what the loop awaits (an attempt, a hook, the pause, the fallback) has
settled. `RetryingProofs` proves, once for its users, which stops can follow a stop
(`ResumeFollows`) and what a stop keeps of the one before (`ResumeKeeps`). `NodeLifecycle` is one visit of a plain node and drives such a record.
Its phases are what is awaited: the start hooks (`StartHook`), then the gate or
the race (`Enter`), the three bodies inside the race (`Prep`, `ExecBody` with
`RetryHook` and `WaitOver`, `Post`), the ways to lose it (`LoseRace`, timer before
token as `select!` is biased), the `match outcome` (`Conclude`), the error hooks
(`ErrorHook`, `Unrouted`) and the end hooks (`EndHook`, `Finish`). `begun`,
`heard` and `author` are history: which bodies were called, how many calls of
each hook settled, who chose the action.

`Visit` is the same visit as whoever awaits it knows it: its start hooks, its
work, its on_error hooks, its end hooks, and the error it returns. `ImplementsVisit`
says that `NodeLifecycle` is no more than that, which is what the modules that run
visits inside a visit build on: an Aborted, whoever raised it, by-passes on_error;
work does not begin on a token that was cancelled; what is returned is the error,
or what a hook made of it. `FlowSteps` is the same of a flow, which has no hooks
and no race of its own. Its traversal is `Flow`; that it takes these steps is by
reading, not a check.

The look at the token and the first poll that follows it in the same statement are
one step: a cancel from another thread that falls between the two counts as one
that came just after the body began. The same holds of the mapper's guard and of
the flow's cancel check.

### BatchNode, BatchNodeProofs

`BatchNode` is what a batch node does inside the race once prep has returned its
items: `RunParallel` with its closures filled in, and post. It extends
`RunParallel` and `Retrying` and leaves none of their steps out: `Drive` and
`EnterItem` are the mapper's own steps, and what was there an answer of any kind
(`SettleOk`, `SettleErr`) is here reached through a retry loop per worker (`loop`:
`ItemBody`, `RetryHook`, `WaitOver`), the error policy (`Propagated`) and the
on_error hooks (`hook`: `AskOnError`, `ErrorHook`), at whose end stands the null
slot (`NullSlot`). `Dropped` is the mapper dropping a closure, wherever it stands;
`LoseRace` the lifecycle dropping all of it. `lost`, `reported`, `refused`,
`attempts` and `announced` are history, as `raised` is. `UsesMapper` says that
this is a mapper still: what holds of `RunParallel` holds of a batch node.

An on_retry hook that fails ends the retry loop of its item with its error, so
that item counts as failed like one whose fallback failed; the policy an on_error
hook returns ends the fan-out and is not followed.

### BatchFlow, BatchFlowProofs

`BatchFlow` is one `run`: the on_start hooks (`StartHook`), prep, the bundles in
one of two modes, post, the on_end hooks, and what is returned (`HookFails`,
`Finish`). It extends `RunParallel`: the parallel bundles are closures of the
mapper, as the items of a batch node are, and `BundlesUseMapper` says so again.
`BundleRuns` is the lifecycle of the bundle's own Flow, one awaited call with a
budget of its own; `BundleHook` asks the on_error hooks about one that failed;
`BundleEnds` pushes its copy of shared and `Dropped` loses it; `FannedOut` and
`Merge` follow. The sequential bundles (`Loop`) are traversals by `orchestrate`
with the one budget (`Visit`, `VisitSettles`, `Interrupted`), in which any graph
is a visit that leads to another or does not, and `ErrorHook` asks the hooks
outside the race. Of shared the model keeps which bundles wrote to it: the
content and the cloner are left out; the params of a bundle are in `Instances`. `failed` and
`reported` are history. A BatchFlow inside a flow is a visit of that flow; what
differs from `run` is that it fires neither on_start nor on_end.

### Flow, MCFlow, FlowProofs

`Flow` is one `run` with the calls of `execute` in progress as a stack of frames,
one per nesting level: the flow, where it stands, the token it was passed (`signal`),
and `curr`, `last` and `steps`, the locals of `orchestrate`. Init chooses the graph, the budgets and the start
nodes and leaves them alone. A visit of a plain node is one awaited call, which
may hang, fail, or return any action; a nested flow pushes a frame with a budget
of its own (`Push`) and pops it when its post has settled (`Pop`). An error unwinds the whole stack, because a nested flow has no
lifecycle hooks that could catch it. `MCFlow` is the instance TLC checks: a root
with one node and one nested flow with one node, and every wiring of them.

A flow's budget counts its own steps: `Terminates` holds because every flow visit
is bounded and flows are nested to a finite depth. A flow that contains itself is
excluded by the constant `Home`; the code does not exclude it and such a flow
recurses without bound (listed among the hazards). `Cycle` is the error that the
flows of this run raise; one that a visit brings along, of a flow inside a ForkJoin
or a Subflow, is among `Failures`, since a flow does not tell the two apart.

### Delegation, DelegationProofs

`Delegation` is a ForkJoin or a Subflow from prep to post. It extends `RunParallel`
and `Retrying`: exec is one retry loop (`loop`, moved by `LoopGoesOn`); an attempt
(`Attempt`) of a Subflow is one visit (`SubflowVisit`), one of a ForkJoin a call of
the mapper (`NewMap`) whose closures are visits (`EnterBranch`, `BranchVisit`), the
second asking of the on_error hooks (`ForkHook`) and a null slot (`NullSlot`) or an
error (`BranchFails`). What is visited is a node or a flow (`flows`), by the steps
of `Visit`; its token is the run's or, in a fork, the mapper's linked one. `Dropped`
is the mapper dropping a branch, `LoseRace` the outer lifecycle dropping all of it,
and `Pending` when it can: user code or the pause is polled last.

`resolved` is a field of the node: `PrepFork` writes it, `OtherPrep` is the prep of
another run of the same instance in another task, `Exec` reads it. After that the
run has branches of its own and the field is of no concern to it. Of a context the
model keeps which attempts wrote to it (`wrote`) and whether the branch left it null
(`blank`), which join sees as None like a branch that failed (`GivenNone`); that prep
derives no null context is assumed. `lost`, `reported`, `refused` and `cut` are history.

### Instances, MCInstances, InstancesProofs

`Instances` is the heap of node instances under a parallel BatchFlow. `Begin` is the
closure of a bundle, which clones the graph. `clone_node` of every kind of node is
recursive and the graph may have cycles; here it goes step by step, with the calls in
progress in `calls`, one stack for each bundle. `Copies` is a call for a node that is
not in the memo: the copy (`NodeCoreClone`), its entry in the memo, and the edges to
go through. `CloneSuccessor` is one turn of the loop in `clone_successors`, over the
edges in the order of a HashMap, which is any: it leads the edge to the copy, or calls
for it first. `CloneStartNode` and `CloneReturns` are the end of it, with the start
node of a Flow and a BatchFlow (`ClonesInner`); the first call returns to the closure,
which gives the copy to a runner with the bundle's params.
From there a bundle is a stack of traversals, as
in `Flow`, each with its own step count: `ReadOwn` and `WriteParams` are the loop
head and the two halves of `inject_params`, `EnterVisit` sets the signal, `Descend`
is where a nested flow, a BatchFlow, a ForkJoin or a Subflow has others run, and
with what params and token; `Settles` goes on or back.

All bundles are futures of one task, so one overtakes another only where that one
awaits user code (`Polled`). `SetOwn` and `SetParams` are the two writes of a
`set_params` call on another thread, on a node whose visit has handed it out; they
come between any two steps, those of an injection and of another bundle's cloning
included.

`InstancesAssumption` says that the user's graph stays among its nodes and that no
node runs itself. A graph in which one does recurses without bound (it is among the
hazards), and a visit there is overwritten by the one inside it.

Left out: a ForkJoin has one branch and a nested BatchFlow one bundle; a visit that
fails, hangs or is cancelled takes no further step, so retries are not followed.
`MCInstances` wires every graph of three nodes with a node of each kind.

## Runs

| Run | Safety | Liveness | Bounds |
|---|---|---|---|
| `run_parallel` | type, `CompleteUnlessCancelled`, `ExclusiveClaim`, `ErrorHasCause`, `StopAfterFailure`, `ImplementsMap` | `Returns` | 3 items, concurrency 0 to 3, one failure besides Aborted |
| `node_lifecycle` | type, `ActionHasOneAuthor`, `HooksHearBothEnds`, `NothingLate`, `ImplementsVisit` | `LostRaceReturns` | 2 hook sets, 0 to 2 retries with and without a pause, with and without a timeout |
| `batch_node` | type, `OkAccountsForEveryItem`, `RetryBudgetPerItem`, `SettledStopsOnlyForHooks`, `UsesMapper` | `FailFastReturns` | 3 items, concurrency 0 to 2, 0 or 1 retries with and without a pause, 2 hook sets, both policies |
| `flow` | type, `BudgetPerFlow`, `ResultIsLastError`, `CancelIsHeeded` | `Terminates`, `CancelReturns` | every graph of `MCFlow`, budgets 0 to 2, 2 hook sets |
| `batch_flow` | type, `MergeGetsEveryBundle`, `BundlesShareBudget`, `FailedBundlesReported`, `StopsAreFinal`, `BundlesUseMapper` | `CancelEndsBundles` | 3 bundles, concurrency 1 and 2, budgets 0 to 3, 2 hook sets, with and without fail_fast and a start node |
| `delegation` | type, `JoinHearsLastAttempt`, `SettledForkIsNotRetried`, `NoWorkAfterStop` | `CancelEndsDelegation` | fork with 0 to 2 branches, or subflow; nodes or flows; 0 or 1 retries with and without a pause, 1 hook set, both policies, every limit |
| `instances` | type, `ClonesAreIsomorphic`, `VisitSeesItsRun` | | 2 bundles, every graph of `MCInstances`, 2 steps per flow, one set_params |
| `batch_node_cancel`, `batch_flow_order`, `delegation_end`, `fork_branches`, `instances_params` | a sentence of the documentation each, violated | | small instances |

In `flow` user code fails with Aborted only (`Failures` is empty): a flow does not
tell errors apart, and Cycle and NoStart are the others to confuse it with.

Why the bounds are enough. In the mapper up to three workers on up to three items make one
worker idle, overtaken and cancelled while another fails, and leave an item that
was never claimed; the proofs cover all other sizes. In a visit two hook sets make
"the hook before" and "the hook after" differ, and two retries have a first, a
middle and a last attempt. In a batch two workers and three items have an item
that fails while another is retried and a third has not begun; two hooks make a
fan-out that is cut half way. In a BatchFlow a budget of 3 is used up by the first,
the second or the third of three bundles, or by none; two workers and three bundles
have one that fails while another runs and a third has not begun. In a flow, budgets up to 2 have a cycle cut before,
at and after its second round, and one level of nesting has an inner and an outer
budget and error. In a fork two branches have one that fails, is asked about or has
begun while the other runs, and one retry has an attempt before and one after; the
mapper's larger sizes are `run_parallel`'s matter. Three nodes have a cycle over the
edges, a start node with a successor, a ForkJoin inside a flow and a flow inside a
ForkJoin, and a node that is reached in two ways; two bundles and one more thread
are enough for every order of two accesses to one instance.

### Fairness

The engine's own steps are weakly fair: the executor polls a task that was woken,
and timers fire. User code owes nothing by itself; each liveness property names
what it needs. `Returns` (mapper) needs nothing when the call is stopped: closures may hang;
otherwise the closures have to settle, which is its premise (`ClosureFair`).
`FailFastReturns` (batch node) needs the pause timer only: attempts and hooks may
hang.
`LostRaceReturns` of a visit needs the hooks to answer, because
hooks outside the race are awaited; bodies may hang. `CancelReturns` of a flow
takes the visits of a cancelled run to return, which is `LostRaceReturns` of
the visit, and the flow's prep, post and hooks to settle. `CancelEndsBundles` needs
prep, merge, post and the hooks of `run` and of the sequential loop to settle;
the bundles, and the on_error hooks of parallel ones, may hang. `Terminates` of a flow takes,
as its premise, that visits settle. `CancelEndsDelegation` needs no user code at
all: the lifecycle let the node in with a live token, so all it awaits is inside
the race; the hooks around it, of its own visit, are `LostRaceReturns`'s.

## Proofs

`RunParallelProofs` proves for every number of items and workers, from
`RunParallelAssumption` alone:

- `Invariance`, `TypeCorrectness`: `IInv` and `TypeOK` are invariants;
- `Completeness`, `Exclusion`, `ErrorsAreTrue`: `CompleteUnlessCancelled`,
  `ExclusiveClaim`, `ErrorHasCause`;
- `FailureStops`: the action property `StopAfterFailure`;
- `Refinement`: `ImplementsMap`, every step maps to a step of `ParallelMap` or to
  a stutter.

The argument. Completeness is not inductive: that an Ok result has every slot
filled rests on where each item handed out went. `NoneLost` says that an item
below the cursor has its value, is held by a worker, or some item has failed;
`ExitHasReason` says that a worker leaves its loop only for an error, a cancel or
because the items are used up; so when all have left without an error or a
cancel the cursor has passed n and no item is held. Exclusion needs `ClaimsValid`:
what workers hold is below the cursor, and a claim is entered in the poll that
made it (`PollIsExclusive`), so a cursor that only grows hands each index out
once. `ErrorStops` ties the linked token to the first error, which is what makes
a sibling's Aborted come second. In the refinement the step that needs most is
`RaceEnter`, an item that begins: that fewer than `limit` are in flight
(`RoomToBegin`) counts the workers other than the one that enters.

`BatchNodeProofs` proves, for every number of items, workers, retries and hook
sets, from the named assumptions of the modules alone:

- `BatchInvariance`: `BatchInv`, type included, with the mapper's `IInv`;
- `Composition`: `UsesMapper`, a batch node's behaviours are the mapper's, so
  that the theorems of `RunParallelProofs` hold of it;
- `EveryItemAccounted`, `RetryBudget`, `SettledRunsOn`: the three
  safety properties of the run.

The argument. A settled closure must have been busy on an item that is its own
and not in its slot (`BusyHolds`, from the mapper's exclusion), which is why the
history of one item is not touched by the step of another worker. `LoopStands`
says how far attempts and announcements are at each stop of the loop; that it
holds at the next stop follows from `ResumeFollows`. `ItemsMatch` and
`LostMatches` say where an item that was attempted, or lost, can be: in its slot,
in a closure, or behind an error that ends the call; when the call returns Ok
there is neither closure nor error. Each way a closure can end is an instance of
one lemma (`SettleKeeps`), and every step of the engine that touches no closure
one of another (`QuietKeeps`). `BatchInv` does not repeat the mapper's invariant,
which comes by `Composition`. Both inductive invariants are defined beside their
proofs, which check more of them than a run could.

`NodeLifecycleProofs` proves, for every number of hook sets and retries and any
actions and errors, from the named assumptions of the modules alone, what the run
of a visit checks, its liveness excepted:

- `LifecycleInvariance`, `LifecycleTyped`: `LInv`, which includes `TypeOK`;
- `OneAuthor`, `BothEndsHeard`, `LateNever`: `ActionHasOneAuthor`,
  `HooksHearBothEnds` and the action property `NothingLate`;
- `VisitImplemented`: `ImplementsVisit`, on which `Delegation` builds.

The argument. `StageHolds` says what is known at each stage: nothing is decided
before the race is over, a racing visit has called a body, an error put to the
on_error hooks is not Aborted, and a visit about to end without an error has an
author of its action; without the part about on_error an Aborted could be routed,
without the one about undecided stages a step could overwrite an author. `HookCounts`
says that in a fan-out the hooks before the one awaited have been told once and the
others not; that no step between the two fan-outs disturbs it is one lemma
(`CountsStand`), and that the loop inside exec stays where a step can start from is
`ResumeFollows` again. In the refinement every way the race or a start hook can end
is one lemma (`ConcludesAs`): what `Conclude` writes is what a caller sees.

`FlowProofs` proves, for every graph, nesting, budget and number of hook sets, from
the named assumptions of the modules alone, every safety property of the run `flow`:

- `FlowInvariance`, `FlowTyped`: `FlowInv`, which includes `TypeOK`;
- `BudgetsKept`, `LastErrorReturned`: `BudgetPerFlow`, `ResultIsLastError`;
- `CancelHeeded`: `CancelIsHeeded`, an action property and a stable fact.

The argument. The stack of traversals is what makes it hard: a step at the top must
leave everything below it as it stands, and a return must find the traversal below
at the very flow that returns. `StackStands` says that each traversal but the last
waits at the flow of the one above it and that each keeps to its own budget
(`FrameStands`); three lemmas say that it survives a change of the top
(`SetTopKeeps`), a nested flow that begins (`PushKeeps`) and one that returns
(`PopKeeps`), and no step looks into the sequence but through them. `WiredWithin`, that
edges stay in the graph of their flow, is why what is pushed belongs where it is
pushed. `HooksTold` counts the ends told on either side of the hook that is awaited,
and `ErrorsStand` ties the error that will be returned to the last one that arose,
through the on_end hooks too, whose own error takes its place. That a cancel is heeded
rests on the frames again: each stands under the run's token (`FrameStands`), since a
nested flow is given that of the flow that visits it. A run that has a node left when it
is cancelled is an error later, so `CancelIsHeeded` is no invariant; `Heeded` is what
follows it through every step: the run stands before that node, is on its way out with
an error, or has returned one (`HeededStays`).

`BatchFlowProofs` proves, for every number of bundles, workers and hook sets and any
budget, every safety property of the run `batch_flow`:

- `BatchFlowInvariance`, `BundlesTyped`: `BundleInv`, which includes `BundleTypeOK`,
  with the mapper's `IInv`;
- `BundleComposition`: `BundlesUseMapper`, as `Composition` for batch nodes;
- `MergeIsComplete`, `BudgetShared`, `FailuresReported`: `MergeGetsEveryBundle`,
  `BundlesShareBudget`, `FailedBundlesReported`;
- `StopsFinal`: the action property `StopsAreFinal`.

The argument. Merge reads a list that grows in the order in which bundles end, the
mapper's completeness speaks of slots. `CopiesMatch` says that a bundle has its slot
exactly when its copy is in the list, and is there once; a bundle that is about to
end has no slot yet (`BusyHolds`), so its copy is new, and when the mapper returns Ok
`CompleteUnlessCancelled` gives every slot. `FailuresMatch` says where a failed
bundle can be: reported, asked about, or behind an error that ends the run, which a
run that reaches post has not. In sequence `SharedInOrder` bounds what is in shared
by the steps taken, and says of each bundle that is over that it wrote or failed.
The two modes share the state, so `PhasesStand` says which phase is of which mode.

`DelegationProofs` proves, for every number of branches, workers, retries and hook
sets, every safety property of the run `delegation`:

- `DelegationInvariance`, `DelegationTyped`: `DelegationInv`, which includes
  `DelegationTypeOK`, with the mapper's `IInv`;
- `JoinTruth`, `SettledNotRetried`: `JoinHearsLastAttempt`,
  `SettledForkIsNotRetried`;
- `NoLateWork`: the action property `NoWorkAfterStop`.

The argument. A fork calls the mapper once for each attempt, so its behaviour is not
one of `RunParallel` and there is no theorem of composition; but a call that begins is
in an initial state of it (`NewMapEstablishes`) and every step until the next is one
of its steps, so that `IInv` holds throughout and completeness, exclusion and the
cause of an error with it. `LoopStands` says that between two attempts the mapper has
returned an error and no worker is left, which is what makes it safe to start afresh
(`AttemptKeeps`). `WroteStands` says that a context in a branch's hands or in a slot
was written in this attempt; it holds of a new attempt because there is neither, and
is claimed only until the mapper returns an error, after which the slots are of no
concern; and that a context which is null was made so by its branch, in the attempt.
`LostStands` and `ClosuresStand` say where a branch that failed can be: in a None
slot, in a closure that asks the hooks, or behind an error; that a branch which begins
is none of them rests on the mapper's exclusion and on `ErrorStops`.
`RefusedStand` says that without fail_fast the mapper hears of no error but the
hooks' own and Aborted, and Aborted is never retried; a failed attempt's error is
therefore a hook's (`ErrorHasCause`).

`InstancesProofs` proves, for every graph in which no node runs itself, any number of
bundles and any budget, from `InstancesAssumption` alone, every property of the run
`instances`:

- `InstancesTypeCorrect`: `InstancesTypeOK`;
- `ClonesIsomorphic`: `ClonesAreIsomorphic`, what `clone_node` builds for each bundle
  is a copy of the graph, whatever the order of the edges;
- `VisitsSeeTheirRun`: `VisitSeesItsRun`.

The argument, for the copies. That the recursion reaches every node, and none besides,
would be an induction over the graph; `Reached`, the least set closed under edges and
start nodes, takes its place. What is copied is within it (`MemoStands`), since a copy is
called for only where an edge of one that is reached leads; and when no call is left,
what is copied is closed, so that it is all of it (`ReachedLeast`). That it is closed
follows from `CopiesStand`, which says edge by edge what a copy has: an edge that a call
in progress has still to go through is the original's, any other leads to the copy of
what the original's leads to. So the invariant has to know whose call is in progress
(`CallsStand`, no node has two), and no edge is wired twice. `MemoStands` also says that
copies are of one node and one bundle, and above the templates, so that a write to one
copy is a write to no other (`CopiesApart`).

For the visits. `FrameStands` says where a traversal is, at a copy of its own bundle or
among the branches, and what it has read and written there (`VisitStands`). Copies lead
to copies of the same bundle, branches to branches (`LeadsTo`), so that no other bundle
writes to what a visit outside of the branches reads. Its own bundle could: a visit in
progress is below those it has run, and one of these on the same instance would
overwrite params and signal. `NestStands` says that each traversal is within the node
that any one below it visits, and no node is within itself; that is where the assumption
is needed. `RacedStands` is about the other thread: a visit that a set_params overtakes
is marked from its first write to its last.

The tokens have an invariant of their own on top of that one (`SignalsInv`), as it
speaks of the branches too. Every token begins with the bundle that made it, or is the
one that all bundles were given; a bundle writes no other where it enters. So what a
visit finds on its node it has written itself, or another bundle has: not a traversal of
its own bundle, which is at another node (`BelowApart`, from `NestStands`), and not an
earlier visit, whose token its own write has replaced.

Each inductive invariant was checked by TLC on the instance of its run before it was
proved. It is defined beside its proof and is no property of a run: the theorems say
more of it than a run could.

Every safety property of every passing run is thus a theorem. Only model-checked is
liveness (`Returns`, `LostRaceReturns`, `FailFastReturns`, `Terminates`,
`CancelReturns`, `CancelEndsBundles`, `CancelEndsDelegation`), which is beyond the
prover. That `FlowSteps` is what a flow does is neither checked nor proved: it is the
reading described above.

## What the checks say of the code

Six sentences of the documentation are not what the code does. Five are a run each
that TLC finds violated; of the last, the opposite is a property that holds.

- *on_node_end fires always* (`hooks.rs` 85, `node.rs` 267). A visit inside a
  ForkJoin or a Subflow is dropped with what is around it, by a failing sibling, a
  cancel or the outer timeout; its start hooks have answered and its end hooks are
  not called. (A failing on_node_end keeps the hook sets after it from hearing,
  too: `HooksHearBothEnds` claims it of visits that succeed.)
- *make_branches builds the branches for THIS shared* (`fork_join.rs` 23). The
  branches are kept in the node between prep and exec: another run of the same
  instance exchanges them.
- *Concurrent bundles do not race on node params* (`README.md` 168-170). Cloning a
  ForkJoin or a Subflow leaves its branches or its flow shared, so the bundles
  inject into the same nodes there. `VisitSeesItsRun` shows that this is the only
  place.
- *Cancelling fails the run* (`README.md` 186; `node.rs` 171 "cancel always
  propagates"). A parallel batch whose workers find the token cancelled between
  two items leaves them silently (`internal.rs` 117): exec returns nulls for the
  items it did not attempt, and when post does not wait the node succeeds. The
  sequential mode returns Aborted.
- *Parallel is still order-preserved* (`README.md` 165, of batch nodes and
  BatchFlow). The slots of a batch node are; the copies that merge is given are in
  the order in which the bundles ended (`batch_flow.rs` 232).
- *Only surviving bundles are merged* (`tests/flow.rs` 3089, of a parallel BatchFlow
  without fail_fast). The copy of a bundle that failed is pushed like the others once
  the hooks were asked about it (`batch_flow.rs` 229-232), with what it wrote before it
  failed. The bundle that fails in that test has written nothing, so the test passes
  either way. `MergeGetsEveryBundle` and the theorem `MergeIsComplete` say what the
  code does: every copy is merged.

## Not modelled

- Configuration while a run is under way: `start`, `use_hooks` and `set_successor`
  take `&self` and could be called then. The models choose the configuration in
  Init; builders (`with_*`, `NodeOpts`) come before a run by their types.
- The content of shared, params values, the text of errors and logs, the path that
  hooks are given, wall-clock `duration_ms`, JSON values, `to_params` of what is no
  object.
- A flow that is reachable from its own graph: it recurses without bound.
- `lib.rs`, which re-exports, and the examples.

## Plan

1. Done: the mapper with its abstract specification and proofs, the retry loop,
   the node lifecycle with the abstract visit and its proofs, the flow.
2. Done: `BatchNode`, with its proofs, and `BatchFlow`.
3. Done: `Delegation` (ForkJoin and Subflow) and `Instances` (cloning, params,
   signals).
4. Done: proofs of every safety property of `BatchFlow`, `Flow` and `Delegation`.
5. Done: `Instances` without recursion, and the proofs about its copies and visits.
6. What could follow: `Delegation` as a refinement of one awaited call, so that `Flow`
   over it is composed and not read; a BatchFlow as a node of `Flow`; liveness, with a
   prover that knows of fairness.
