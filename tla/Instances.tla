-------------------------------- MODULE Instances --------------------------------
(***************************************************************************)
(* The node instances under the parallel bundles of a BatchFlow: how the    *)
(* graph is cloned for a bundle (`clone_node`, `clone_graph`,               *)
(* `clone_successors`, the Clone of NodeCore, ForkJoin and Subflow), and    *)
(* what the visits then write to and read from an instance, its params and  *)
(* its run signal (src/core.rs).                                            *)
(*                                                                          *)
(* Instances are numbered as NEXT_ID does: `heap` holds the node of each    *)
(* id, the templates the user wired first.  All bundles run in ONE task: a  *)
(* bundle is overtaken by another only where it awaits user code.  Another  *)
(* thread may call set_params on a node at any time; its two writes, and    *)
(* the read and the write of an injection, are steps of their own.          *)
(*                                                                          *)
(* A bundle is the stack of its traversals, as in Flow; a ForkJoin is given *)
(* one branch, a sequential BatchFlow one bundle of its own.  A visit that  *)
(* hangs, or that an error or a cancel ends and its bundle with it, is one  *)
(* that takes no further step.  Params are dicts of three keys: "unit",     *)
(* which the bundles give, "part", which those of an inner BatchFlow give,  *)
(* and "mode".                                                              *)
(***************************************************************************)
EXTENDS Naturals, Sequences, SequencesExt, Functions

CONSTANTS
  Templates,  \* the number of nodes the user wired; the first is the start
  Wirings,    \* the heaps of these nodes
  Actions,    \* the actions of edges
  Bundles,    \* the parallel bundles, numbers from 1
  MaxSteps    \* the step budget of each flow

VARIABLES
  heap,    \* the node of each id
  calls,   \* the calls of clone_node in progress for each bundle, the innermost last
  memo,    \* the CloneMemo of each bundle
  frames,  \* the traversals of each bundle, the innermost last
  setter   \* the other thread: the node it sets, and between which writes

ivars == <<heap, calls, memo, frames, setter>>

Template == 1 .. Templates

Empty  == <<>>          \* a dict without keys
NoOwn  == [none |-> 0]  \* own_params is None, which no dict of a user is
Linked == <<0>>         \* the token that all bundles are given

Kind == {"plain", "flow", "batch", "fork", "sub"}

\* The dicts: a user's own values are 0, and a bundle gives its number.
Key     == {"unit", "part", "mode"}
Dict    == UNION {[keys -> Bundles \cup {0}] : keys \in SUBSET Key}
OwnDict == {NoOwn} \cup UNION {[keys -> {0}] : keys \in SUBSET Key}

\* A dict on top of another: merge_params, and the extend of inject_params.
Over(over, base) ==
  [k \in DOMAIN over \cup DOMAIN base |-> IF k \in DOMAIN over THEN over[k] ELSE base[k]]

\* Mutant: the flow's params win.
InjectedWins(given, own) == IF own = NoOwn THEN given ELSE Over(given, own)

\* inject_params: the node's own params win.
Injected(given, own) == IF own = NoOwn THEN given ELSE Over(own, given)

Node(kind, succ, inner, own) ==
  [kind |-> kind, succ |-> succ, inner |-> inner, own |-> own,
   params |-> IF own = NoOwn THEN Empty ELSE own, signal |-> <<>>]

NodeRecord ==
  [kind : Kind, succ : [Actions -> Nat], inner : Nat, own : OwnDict,
   params : Dict, signal : Seq(Nat)]

\* The nodes wired in h that can be reached from those in xs over edges, and
\* from nodes of some kinds to what they have others run: the least set that
\* is closed under both.
Reached(h, xs, kinds) ==
  LET Closed(S) ==
        /\ xs \subseteq S \cup {0}
        /\ \A x \in S :
             /\ \A a \in Actions : h[x].succ[a] \in S \cup {0}
             /\ h[x].kind \in kinds => h[x].inner \in S \cup {0}
  IN  {x \in Template : \A S \in SUBSET Template : Closed(S) => x \in S}

\* No node runs itself; a graph in which one does recurses without a bound.
ASSUME InstancesAssumption ==
  /\ Templates \in Nat \ {0}
  /\ Bundles \subseteq Nat \ {0} /\ 1 \in Bundles
  /\ MaxSteps \in Nat
  /\ \A wiring \in Wirings :
       /\ wiring \in [Template -> NodeRecord]
       /\ \A x \in Template :
            /\ wiring[x].inner \in 0 .. Templates
            /\ \A a \in Actions : wiring[x].succ[a] \in 0 .. Templates
            /\ x \notin Reached(wiring, {wiring[x].inner}, Kind)

InstancesInit ==
  /\ heap \in Wirings
  /\ calls = [b \in Bundles |-> <<>>]
  /\ memo = [b \in Bundles |-> <<>>]
  /\ frames = [b \in Bundles |-> <<>>]
  /\ setter = [at |-> "idle", node |-> 0]

Top(b) == Last(frames[b])

\* Every other bundle is pending in user code, and not on its way to the next.
Polled(b) ==
  \A c \in Bundles \ {b} :
    calls[c] = <<>> /\ (frames[c] # <<>> => Top(c).at \in {"prep", "body"})

\* A visit of x by a traversal that has taken some steps and gives its nodes
\* params and a token; own is what inject_params has read.  A branch is visited
\* alone and not injected.
Frame(x, given, token, steps, branch) ==
  [curr |-> x, given |-> given, token |-> token, steps |-> steps, branch |-> branch,
   at |-> IF branch THEN "enter" ELSE "inject", own |-> NoOwn, raced |-> FALSE]

--------------------------------------------------------------------------------
(***************************************************************************)
(* Graph cloning, in the closure's first poll.                              *)
(***************************************************************************)

\* NodeCore::clone copies params and edges; the clone has no run signal.
NodeCoreClone(node) == [node EXCEPT !.signal = <<>>]

\* Mutant: the start node of a nested flow stays shared.
EdgesOnly(node) == FALSE

\* The nodes that clone_node enters by more than the edges: Flow and BatchFlow
\* clone their start node; the macro's clone_graph leaves branches shared.
ClonesInner(node) == node.kind \in {"flow", "batch"}

\* A call for x that has made its copy: the successor_entries to go through, in
\* the order of a HashMap, and those that may be next.
CloneCall(x) ==
  LET entries == {a \in Actions : heap[x].succ[a] # 0}
  IN  [node |-> x, todo |-> entries, next |-> entries]

\* A call for a node that is not in the memo: the copy, which is in the memo
\* before its successors are looked at.
Copies(b, x, callers) ==
  /\ heap' = Append(heap, NodeCoreClone(heap[x]))
  /\ memo' = [memo EXCEPT ![b] = Over([y \in {x} |-> Len(heap) + 1], @)]
  /\ calls' = [calls EXCEPT ![b] = Append(callers, CloneCall(x))]

\* The next bundle gets a fresh graph.
Begin(b) ==
  /\ Polled(b) /\ memo[b] = <<>> /\ \A c \in Bundles : c < b => memo[c] # <<>>
  /\ Copies(b, 1, <<>>)
  /\ UNCHANGED <<frames, setter>>

Call(b)   == Last(calls[b])
CopyOf(b) == memo[b][Call(b).node]

SetCall(b, call) == Append(Front(calls[b]), call)

\* clone_successors: an edge of the copy, which leads to the copy of its node
\* as soon as there is one.
CloneSuccessor(b) ==
  /\ calls[b] # <<>>
  /\ \E a \in Call(b).next :
       LET y == heap[CopyOf(b)].succ[a]
       IN  \/ /\ y \notin DOMAIN memo[b]
              /\ Copies(b, y, SetCall(b, [Call(b) EXCEPT !.next = {a}]))
           \/ /\ y \in DOMAIN memo[b]
              /\ heap' = [heap EXCEPT ![CopyOf(b)].succ[a] = memo[b][y]]
              /\ calls' = [calls EXCEPT ![b] =
                            SetCall(b, [Call(b) EXCEPT !.todo = @ \ {a}, !.next = Call(b).todo \ {a}])]
              /\ UNCHANGED memo
  /\ UNCHANGED <<frames, setter>>

\* The start node of a copy whose edges are done, if it has one.
StartNode(b) ==
  IF ClonesInner(heap[Call(b).node]) THEN heap[Call(b).node].inner ELSE 0

CloneStartNode(b) ==
  /\ calls[b] # <<>> /\ Call(b).todo = {}
  /\ StartNode(b) # 0 /\ StartNode(b) \notin DOMAIN memo[b]
  /\ Copies(b, StartNode(b), calls[b])
  /\ UNCHANGED <<frames, setter>>

\* clone_node returns; the first call to the closure, which goes on with a runner
\* with the bundle.
CloneReturns(b) ==
  /\ calls[b] # <<>> /\ Call(b).todo = {}
  /\ \/ StartNode(b) = 0 /\ UNCHANGED heap
     \/ /\ StartNode(b) \in DOMAIN memo[b]
        /\ heap' = [heap EXCEPT ![CopyOf(b)].inner = memo[b][StartNode(b)]]
  /\ calls' = [calls EXCEPT ![b] = Front(@)]
  /\ frames' = IF Len(calls[b]) > 1 THEN frames
               ELSE [frames EXCEPT ![b] =
                      <<Frame(memo[b][1], [unit |-> b], Linked, 0, FALSE)>>]
  /\ UNCHANGED <<memo, setter>>

--------------------------------------------------------------------------------
(***************************************************************************)
(* The runs of the bundles.                                                 *)
(***************************************************************************)

Stands(b, at) == frames[b] # <<>> /\ Top(b).at = at /\ Polled(b)

\* The innermost traversal goes on, calls another one, or returns to the one below.
SetTop(b, f)    == frames' = [frames EXCEPT ![b] = Append(Front(@), f)]
Push(b, f, new) == frames' = [frames EXCEPT ![b] = Append(Append(Front(@), f), new)]
Pop(b, f)       == frames' = [frames EXCEPT ![b] = Append(Front(Front(@)), f)]

\* Mutant: one step too many.
OverBudgetLate(f) == f.steps > MaxSteps

OverBudget(f) == f.steps >= MaxSteps

\* orchestrate's loop head: the step is counted, own_params is read.
ReadOwn(b) ==
  /\ Stands(b, "inject")
  /\ IF OverBudget(Top(b))
     THEN frames' = [frames EXCEPT ![b] = <<>>]
     ELSE SetTop(b, [Top(b) EXCEPT !.at = "write", !.own = heap[Top(b).curr].own,
                                   !.steps = @ + 1,
                                   !.raced = setter.at = "between" /\ setter.node = Top(b).curr])
  /\ UNCHANGED <<heap, calls, memo, setter>>

\* The visit sets the run signal, and is pending in user code.
EnterVisit(b, params) ==
  /\ heap' = [heap EXCEPT ![Top(b).curr].params = params,
                          ![Top(b).curr].signal = Top(b).token]
  /\ SetTop(b, [Top(b) EXCEPT !.at = IF heap[Top(b).curr].kind = "plain"
                                     THEN "body" ELSE "prep"])
  /\ UNCHANGED <<calls, memo, setter>>

\* params is written, and run_lifecycle begins.
WriteParams(b) ==
  Stands(b, "write") /\ EnterVisit(b, Injected(Top(b).given, Top(b).own))

EnterBranch(b) ==
  Stands(b, "enter") /\ EnterVisit(b, heap[Top(b).curr].params)

\* What a flow gives to the nodes of its graph; a bundle comes on top.
Gives(b, node) ==
  IF node.kind = "batch" THEN Over([part |-> b], node.params) ELSE node.params

\* The linked token of the ForkJoin that bundle b stands at: no two are alike.
ForkToken(b) == <<b>> \o [i \in 1 .. Len(frames[b]) |-> frames[b][i].steps]

\* The prep of a node that has others run has settled.  A ForkJoin's branch is
\* given a token of that fork, a Subflow's flow and a nested flow the run's.
Descend(b) ==
  /\ Stands(b, "prep") /\ heap[Top(b).curr].inner # 0
  /\ LET node  == heap[Top(b).curr]
         token == IF node.kind = "fork" THEN ForkToken(b) ELSE Top(b).token
     IN  Push(b, [Top(b) EXCEPT !.at = "inside"],
              Frame(node.inner, Gives(b, node), token, 0, node.kind \in {"fork", "sub"}))
  /\ UNCHANGED <<heap, calls, memo, setter>>

\* A visit settles: the traversal goes on at a successor, or is over, and then
\* it is the post of the visit around it that is pending.
Settles(b) ==
  /\ Stands(b, "body")
  /\ \/ /\ ~Top(b).branch
        /\ \E a \in Actions :
             LET x == heap[Top(b).curr].succ[a]
             IN  /\ x # 0
                 /\ SetTop(b, Frame(x, Top(b).given, Top(b).token, Top(b).steps, FALSE))
     \/ Len(frames[b]) = 1 /\ frames' = [frames EXCEPT ![b] = <<>>]
     \/ Len(frames[b]) > 1 /\ Pop(b, [Last(Front(frames[b])) EXCEPT !.at = "body"])
  /\ UNCHANGED <<heap, calls, memo, setter>>

--------------------------------------------------------------------------------
(***************************************************************************)
(* set_params of another thread, on a node that a visit has handed out; the *)
(* bundles are alike, and it is the first of which this is modelled.        *)
(***************************************************************************)
NewOwn == [mode |-> 0]

\* The visits of x that are under way are raced from now on.
Race(x) ==
  frames' = [b \in Bundles |-> [i \in 1 .. Len(frames[b]) |->
               IF frames[b][i].curr = x /\ frames[b][i].at # "inject"
               THEN [frames[b][i] EXCEPT !.raced = TRUE] ELSE frames[b][i]]]

SetOwn ==
  /\ setter.at = "idle"
  /\ frames[1] # <<>>
  /\ heap' = [heap EXCEPT ![Top(1).curr].own = NewOwn]
  /\ setter' = [at |-> "between", node |-> Top(1).curr]
  /\ Race(Top(1).curr)
  /\ UNCHANGED <<calls, memo>>

SetParams ==
  /\ setter.at = "between"
  /\ heap' = [heap EXCEPT ![setter.node].params = NewOwn]
  /\ setter' = [at |-> "done", node |-> 0]
  /\ UNCHANGED <<frames, calls, memo>>

--------------------------------------------------------------------------------
Ended ==
  /\ \A b \in Bundles : memo[b] # <<>> /\ calls[b] = <<>> /\ frames[b] = <<>>
  /\ UNCHANGED ivars

InstancesNext ==
  \/ \E b \in Bundles :
       Begin(b) \/ CloneSuccessor(b) \/ CloneStartNode(b) \/ CloneReturns(b)
       \/ ReadOwn(b) \/ WriteParams(b) \/ EnterBranch(b) \/ Descend(b)
       \/ Settles(b)
  \/ SetOwn \/ SetParams
  \/ Ended

InstancesSpec == InstancesInit /\ [][InstancesNext]_ivars

--------------------------------------------------------------------------------
(***************************************************************************)
(* Properties.                                                              *)
(***************************************************************************)

CallRecord == [node : Template, todo : SUBSET Actions, next : SUBSET Actions]

Traversal ==
  [curr : Nat, given : Dict, token : Seq(Nat), steps : 0 .. MaxSteps, branch : BOOLEAN,
   at : {"inject", "write", "enter", "prep", "inside", "body"}, own : OwnDict,
   raced : BOOLEAN]

InstancesTypeOK ==
  /\ heap \in Seq(NodeRecord)
  /\ \A x \in 1 .. Len(heap) :
       /\ heap[x].inner \in 0 .. Len(heap)
       /\ \A a \in Actions : heap[x].succ[a] \in 0 .. Len(heap)
  /\ calls \in [Bundles -> Seq(CallRecord)]
  /\ DOMAIN memo = Bundles
  /\ \A b \in Bundles : \E xs \in SUBSET Template : memo[b] \in [xs -> 1 .. Len(heap)]
  /\ frames \in [Bundles -> Seq(Traversal)]
  /\ \A b \in Bundles : \A i \in 1 .. Len(frames[b]) : frames[b][i].curr \in 1 .. Len(heap)
  /\ setter \in [at : {"idle", "between", "done"}, node : 0 .. Len(heap)]

\* What the bundles still have in common: branches, and all that they run.
Branches ==
  Reached(heap, {heap[x].inner : x \in {y \in Template : heap[y].kind \in {"fork", "sub"}}},
          Kind)

\* The copy of what an edge leads to.
Copied(m, y) == IF y = 0 THEN 0 ELSE m[y]

\* Every bundle has a graph of its own, of the shape of the one the user wired:
\* one new node for each that can be reached over edges and start nodes, cycles
\* closed within the copy, own params copied; only branches are still the
\* user's nodes (node.rs 326-347, flow.rs 238-251, batch_flow.rs 322-335).
ClonesAreIsomorphic ==
  \A b \in Bundles : memo[b] # <<>> /\ calls[b] = <<>> =>
    LET m == memo[b]
    IN  /\ DOMAIN m = Reached(heap, {1}, {"flow", "batch"})
        /\ IsInjective(m)
        /\ \A c \in Bundles \ {b} : Range(m) \cap (Range(memo[c]) \cup Template) = {}
        /\ \A x \in DOMAIN m :
             LET old == heap[x]  new == heap[m[x]]
             IN  /\ new.kind = old.kind
                 /\ \A a \in Actions : new.succ[a] = Copied(m, old.succ[a])
                 /\ new.inner = IF old.kind \in {"flow", "batch"}
                                THEN Copied(m, old.inner) ELSE old.inner
                 /\ setter.at = "idle" => new.own = old.own

InVisit(f) == f.at \in {"prep", "inside", "body"}

\* The node's own params where it has any, what it is given elsewhere.
Expected(given, own) ==
  LET mine == IF own = NoOwn THEN {} ELSE DOMAIN own
  IN  [k \in DOMAIN given \cup mine |-> IF k \in mine THEN own[k] ELSE given[k]]

\* A token that a run of another bundle has set, or one that all share.
NotOwnFork(b, token) == token # <<>> /\ Head(token) # b

\* While a node is visited its signal is the token of its run, and on a branch,
\* which other bundles may enter meanwhile, at worst what one of them has set:
\* never what an earlier fork of this bundle left, nor none.  Its params are
\* those its traversal gives it, none of them another bundle's, under its own,
\* whatever the other bundles do; the branches that bundles share apart.
\* A set_params of another thread during the visit may replace what was given,
\* or come late, but mixes in nothing of another bundle; once it has returned
\* every later visit heeds it.
VisitSeesItsRun ==
  \A b \in Bundles : \A i \in 1 .. Len(frames[b]) :
    LET f == frames[b][i]
        node == heap[f.curr]
    IN  InVisit(f) =>
          /\ \/ node.signal = f.token
             \/ f.curr \in Branches /\ NotOwnFork(b, node.signal)
          /\ f.curr \notin Branches =>
               /\ Range(f.given) \subseteq {b, 0}
               /\ node.params \in {Expected(f.given, node.own)} \cup
                    IF f.raced THEN {Expected(f.given, f.own), NewOwn} ELSE {}

(***************************************************************************)
(* What the documentation says and the code does not do.                    *)
(***************************************************************************)

\* README.md 168-170: each bundle runs on a fresh clone of the graph, so that
\* "concurrent bundles neither stomp each other's shared nor race on node
\* params".
BundlesDoNotRace ==
  \A b \in Bundles : \A i \in 1 .. Len(frames[b]) :
    LET f == frames[b][i]
    IN  InVisit(f) /\ ~f.branch /\ ~f.raced =>
          heap[f.curr].params = Expected(f.given, heap[f.curr].own)

================================================================================
