---------------------------- MODULE InstancesProofs ----------------------------
(***************************************************************************)
(* The node instances under the bundles, for any graph, any number of       *)
(* bundles and any budget: what clone_node builds is a copy of the graph of *)
(* its own for each bundle, and what a visit reads on its node is of its    *)
(* own bundle.                                                              *)
(***************************************************************************)
EXTENDS Instances, SequenceTheorems, TLAPS

(***************************************************************************)
(* The inductive invariant.                                                 *)
(***************************************************************************)

Starts == {"flow", "batch"}

\* The user's graph: within the templates, and no node runs itself.
WiringStands ==
  /\ Templates <= Len(heap)
  /\ \A x \in Template :
       /\ heap[x].inner \in 0 .. Templates
       /\ \A a \in Actions : heap[x].succ[a] \in 0 .. Templates
       /\ x \notin Reached(heap, {heap[x].inner}, Kind)

\* The copies: fresh, of one node and one bundle, and of nothing else.
MemoStands ==
  /\ \A b \in Bundles :
       /\ memo[b] # <<>> => 1 \in DOMAIN memo[b]
       /\ DOMAIN memo[b] \subseteq Reached(heap, {1}, Starts)
       /\ \A x \in DOMAIN memo[b] : memo[b][x] > Templates
  /\ \A b, c \in Bundles : \A x \in DOMAIN memo[b], y \in DOMAIN memo[c] :
       memo[b][x] = memo[c][y] => b = c /\ x = y

\* The calls in progress are for different nodes, all of them copied; a bundle
\* runs when none is left.
CallsStand ==
  \A b \in Bundles :
    /\ calls[b] # <<>> => frames[b] = <<>>
    /\ frames[b] # <<>> => memo[b] # <<>>
    /\ \A i \in 1 .. Len(calls[b]) :
         /\ calls[b][i].node \in DOMAIN memo[b]
         /\ calls[b][i].next \subseteq calls[b][i].todo
    /\ \A i, j \in 1 .. Len(calls[b]) : calls[b][i].node = calls[b][j].node => i = j

\* A call for x has not returned, or has an edge left to wire.
InCall(b, x)     == \E i \in 1 .. Len(calls[b]) : calls[b][i].node = x
Pending(b, x, a) == \E i \in 1 .. Len(calls[b]) : calls[b][i].node = x /\ a \in calls[b][i].todo

\* What a copy has of its node, and what of the other copies.
CopyStands(b, x) ==
  LET m == memo[b]  old == heap[x]  new == heap[m[x]]
  IN  /\ new.kind = old.kind
      /\ setter.at = "idle" => new.own = old.own
      /\ \A a \in Actions :
           IF Pending(b, x, a)
           THEN old.succ[a] # 0 /\ new.succ[a] = old.succ[a]
           ELSE old.succ[a] \in DOMAIN m \cup {0} /\ new.succ[a] = Copied(m, old.succ[a])
      /\ IF old.kind \in Starts /\ ~InCall(b, x)
         THEN old.inner \in DOMAIN m \cup {0} /\ new.inner = Copied(m, old.inner)
         ELSE new.inner = old.inner

CopiesStand == \A b \in Bundles : \A x \in DOMAIN memo[b] : CopyStands(b, x)

CloningInv == WiringStands /\ MemoStands /\ CallsStand /\ CopiesStand

\* Where a traversal is: at a copy of its bundle, or among the branches.
Located(b, f) == f.curr \in Range(memo[b]) \/ f.curr \in Branches

\* What another thread has done to the node that is visited.
RacedStands(f) ==
  /\ setter.at = "idle" => ~f.raced
  /\ setter.at = "between" /\ setter.node = f.curr /\ f.at # "inject" => f.raced

\* What the visit of a copy has read, and what is to be read of the copy.
VisitStands(b, f) ==
  LET node == heap[f.curr]
  IN  /\ ~f.branch
      /\ RacedStands(f)
      /\ Range(f.given) \subseteq {b, 0}
      /\ f.at # "inject" /\ ~f.raced => f.own = node.own
      /\ InVisit(f) =>
           /\ node.signal = f.token
           /\ node.params \in {Expected(f.given, node.own)} \cup
                IF f.raced THEN {Expected(f.given, f.own), NewOwn} ELSE {}

FrameStands(b, f) ==
  /\ Located(b, f)
  /\ f.at = "enter" => f.branch
  /\ f.at = "prep" => heap[f.curr].kind # "plain"
  /\ f.curr \notin Branches => VisitStands(b, f)

\* y is an instance for bundle b of the node x that the user wired.
IsOf(b, y, x) == y = x \/ (x \in DOMAIN memo[b] /\ y = memo[b][x])

\* What a node has others run, and all that this runs.
Within(x) == Reached(heap, {heap[x].inner}, Kind)

\* The traversals of a bundle, each within the node that the one below visits.
NestStands(b) ==
  \A i, j \in 1 .. Len(frames[b]) : i < j =>
    \A x, z \in Template :
      IsOf(b, frames[b][i].curr, x) /\ IsOf(b, frames[b][j].curr, z) => z \in Within(x)

StackStands(b) ==
  /\ \A i \in 1 .. Len(frames[b]) :
       /\ FrameStands(b, frames[b][i])
       /\ i < Len(frames[b]) => frames[b][i].at = "inside"
  /\ NestStands(b)

SetterStands == setter.at = "between" => setter.node \in 1 .. Len(heap)

VisitsInv == SetterStands /\ \A b \in Bundles : StackStands(b)

InstancesInv == InstancesTypeOK /\ CloningInv /\ VisitsInv

--------------------------------------------------------------------------------
(***************************************************************************)
(* Reachability in a graph h of templates.                                  *)
(***************************************************************************)

\* Edges and contents stay among the templates.
Wired(h) ==
  \A x \in Template :
    /\ h[x].inner \in 0 .. Templates
    /\ \A a \in Actions : h[x].succ[a] \in 0 .. Templates

\* A set of templates that no edge leaves.
ClosedIn(h, kinds, S) ==
  \A x \in S :
    /\ \A a \in Actions : h[x].succ[a] \in S \cup {0}
    /\ h[x].kind \in kinds => h[x].inner \in S \cup {0}

LEMMA ReachedLeast ==
  ASSUME NEW h, NEW kinds, NEW xs, NEW S \in SUBSET Template,
         xs \subseteq S \cup {0}, ClosedIn(h, kinds, S)
  PROVE  Reached(h, xs, kinds) \subseteq S
BY DEF Reached, ClosedIn

LEMMA ReachedIsClosed ==
  ASSUME NEW h, NEW kinds, NEW xs, Wired(h), xs \subseteq 0 .. Templates
  PROVE  /\ Reached(h, xs, kinds) \subseteq Template
         /\ xs \subseteq Reached(h, xs, kinds) \cup {0}
         /\ ClosedIn(h, kinds, Reached(h, xs, kinds))
<1>0. Templates \in Nat
  BY InstancesAssumption
<1> DEFINE R == Reached(h, xs, kinds)
           Closed(S) == xs \subseteq S \cup {0} /\ ClosedIn(h, kinds, S)
<1>1. R = {x \in Template : \A S \in SUBSET Template : Closed(S) => x \in S}
  BY DEF Reached, ClosedIn
<1>2. 0 .. Templates \subseteq Template \cup {0}
  BY <1>0 DEF Template
<1>3. xs \subseteq R \cup {0}
  BY <1>1, <1>2
<1>4. ASSUME NEW x \in R, NEW y \in 0 .. Templates, y # 0,
             \A S \in SUBSET Template : Closed(S) /\ x \in S => y \in S \cup {0}
      PROVE  y \in R
  BY <1>1, <1>2, <1>4
<1>5. ASSUME NEW x \in R
      PROVE  /\ \A a \in Actions : h[x].succ[a] \in R \cup {0}
             /\ h[x].kind \in kinds => h[x].inner \in R \cup {0}
  <2>1. x \in Template
    BY <1>1
  <2>2. ASSUME NEW a \in Actions PROVE h[x].succ[a] \in R \cup {0}
    <3> DEFINE y == h[x].succ[a]
    <3>1. y \in 0 .. Templates
      BY <2>1 DEF Wired
    <3>2. \A S \in SUBSET Template : Closed(S) /\ x \in S => y \in S \cup {0}
      BY DEF ClosedIn
    <3> HIDE DEF y, R, Closed
    <3> QED
      BY <1>4, <3>1, <3>2 DEF y
  <2>3. ASSUME h[x].kind \in kinds PROVE h[x].inner \in R \cup {0}
    <3> DEFINE y == h[x].inner
    <3>1. y \in 0 .. Templates
      BY <2>1 DEF Wired
    <3>2. \A S \in SUBSET Template : Closed(S) /\ x \in S => y \in S \cup {0}
      BY <2>3 DEF ClosedIn
    <3> HIDE DEF y, R, Closed
    <3> QED
      BY <1>4, <3>1, <3>2 DEF y
  <2> QED
    BY <2>2, <2>3
<1> QED
  BY <1>1, <1>3, <1>5 DEF ClosedIn

\* What is reached from nodes that are reached is reached.
LEMMA ReachedOn ==
  ASSUME NEW h, NEW kinds, NEW xs, NEW ys, Wired(h), xs \subseteq 0 .. Templates,
         ys \subseteq Reached(h, xs, kinds) \cup {0}
  PROVE  Reached(h, ys, kinds) \subseteq Reached(h, xs, kinds)
BY ReachedIsClosed, ReachedLeast

\* Two graphs of the same shape.
SameShape(g, h) ==
  \A x \in Template : /\ g[x].kind = h[x].kind /\ g[x].inner = h[x].inner
                      /\ g[x].succ = h[x].succ

LEMMA ReachedSame ==
  ASSUME NEW g, NEW h, NEW kinds, NEW xs, SameShape(g, h)
  PROVE  Reached(g, xs, kinds) = Reached(h, xs, kinds)
BY DEF Reached, SameShape

\* A step that leaves the user's graph as it is.
LEMMA WiringKeeps ==
  ASSUME WiringStands, SameShape(heap', heap), Templates <= Len(heap')
  PROVE  /\ WiringStands' /\ Branches' = Branches
         /\ Reached(heap, {1}, Starts)' = Reached(heap, {1}, Starts)
         /\ \A x \in Template : Within(x)' = Within(x)
<1>1. \A xs, kinds : Reached(heap', xs, kinds) = Reached(heap, xs, kinds)
  BY ReachedSame
<1>2. WiringStands'
  BY <1>1 DEF WiringStands, SameShape
<1>3. Branches' = Branches
  <2> DEFINE Roots(h) == {h[x].inner : x \in {y \in Template : h[y].kind \in {"fork", "sub"}}}
  <2>1. Roots(heap') = Roots(heap)
    <3>1. {y \in Template : heap'[y].kind \in {"fork", "sub"}}
            = {y \in Template : heap[y].kind \in {"fork", "sub"}}
      BY DEF SameShape
    <3> QED
      BY <3>1 DEF SameShape
  <2>2. Branches = Reached(heap, Roots(heap), Kind) /\ Branches' = Reached(heap', Roots(heap'), Kind)
    BY DEF Branches
  <2> HIDE DEF Roots
  <2> QED
    BY <1>1, <2>1, <2>2
<1>4. \A x \in Template : Within(x)' = Within(x)
  BY <1>1 DEF Within, SameShape
<1> QED
  BY <1>1, <1>2, <1>3, <1>4

--------------------------------------------------------------------------------
(***************************************************************************)
(* Sequences and dicts.                                                     *)
(***************************************************************************)

\* The front of a stack is all of it but the innermost.
LEMMA FrontOfStack ==
  ASSUME NEW S, NEW s \in Seq(S), s # <<>>
  PROVE  /\ Len(s) \in Nat /\ Len(s) > 0 /\ Last(s) = s[Len(s)] /\ Last(s) \in S
         /\ Front(s) \in Seq(S) /\ Len(Front(s)) = Len(s) - 1
         /\ \A i \in 1 .. Len(s) - 1 : Front(s)[i] = s[i]
<1>1. Len(s) \in Nat /\ Len(s) > 0
  BY EmptySeq
<1> DEFINE k == Len(s) - 1
<1>2. k \in Nat /\ Len(s) = k + 1
  BY <1>1
<1>3. Last(s) = s[Len(s)] /\ Last(s) \in S
  BY <1>1 DEF Last
<1>4. Front(s) = SubSeq(s, 1, k)
  BY DEF Front
<1> HIDE DEF k
<1>5. SubSeq(s, 1, k) \in Seq(S) /\ Len(SubSeq(s, 1, k)) = k
  BY <1>2
<1>6. \A i \in 1 .. k : SubSeq(s, 1, k)[i] = s[i]
  BY <1>2
<1>7. Len(s) - 1 = k
  BY DEF k
<1> QED
  BY <1>1, <1>3, <1>4, <1>5, <1>6, <1>7

\* The innermost is replaced.
LEMMA TopReplaced ==
  ASSUME NEW S, NEW s \in Seq(S), s # <<>>, NEW e \in S
  PROVE  LET t == Append(Front(s), e)
         IN  /\ t \in Seq(S) /\ Len(t) = Len(s) /\ t # <<>>
             /\ \A i \in 1 .. Len(s) : t[i] = IF i = Len(s) THEN e ELSE s[i]
<1> DEFINE r == Front(s)
           t == Append(r, e)
<1>1. /\ Len(s) \in Nat /\ Len(s) > 0
      /\ r \in Seq(S) /\ Len(r) = Len(s) - 1 /\ \A i \in 1 .. Len(s) - 1 : r[i] = s[i]
  BY FrontOfStack
<1> HIDE DEF r
<1>2. /\ t \in Seq(S) /\ Len(t) = Len(r) + 1
      /\ \A i \in 1 .. Len(r) : t[i] = r[i]
      /\ t[Len(r) + 1] = e
  BY <1>1, AppendProperties
<1>3. Len(t) = Len(s) /\ t # <<>>
  BY <1>1, <1>2, EmptySeq
<1>4. \A i \in 1 .. Len(s) : t[i] = IF i = Len(s) THEN e ELSE s[i]
  BY <1>1, <1>2
<1> QED
  BY <1>2, <1>3, <1>4 DEF r

\* The dict without keys.
LEMMA EmptyDict ==
  /\ DOMAIN <<>> = {}
  /\ \A xs, T : \A m \in [xs -> T] : xs = {} => m = <<>>
OBVIOUS

--------------------------------------------------------------------------------
(***************************************************************************)
(* Cloning.                                                                 *)
(***************************************************************************)

\* The state's types, in the form the steps use them.
LEMMA Typed ==
  ASSUME InstancesTypeOK
  PROVE  /\ heap \in Seq(NodeRecord) /\ Len(heap) \in Nat
         /\ \A x \in 1 .. Len(heap) : heap[x] \in NodeRecord
         /\ \A b \in Bundles : /\ calls[b] \in Seq(CallRecord)
                               /\ frames[b] \in Seq(Traversal)
                               /\ memo[b] \in [DOMAIN memo[b] -> 1 .. Len(heap)]
                               /\ DOMAIN memo[b] \subseteq Template
                               /\ memo[b] = <<>> <=> DOMAIN memo[b] = {}
<1>1. heap \in Seq(NodeRecord)
  BY DEF InstancesTypeOK
<1>2. Len(heap) \in Nat /\ \A x \in 1 .. Len(heap) : heap[x] \in NodeRecord
  BY <1>1
<1>3. ASSUME NEW b \in Bundles
      PROVE  /\ calls[b] \in Seq(CallRecord)
             /\ frames[b] \in Seq(Traversal)
             /\ memo[b] \in [DOMAIN memo[b] -> 1 .. Len(heap)]
             /\ DOMAIN memo[b] \subseteq Template
             /\ memo[b] = <<>> <=> DOMAIN memo[b] = {}
  <2>1. PICK xs \in SUBSET Template : memo[b] \in [xs -> 1 .. Len(heap)]
    BY DEF InstancesTypeOK
  <2>2. memo[b] = <<>> <=> DOMAIN memo[b] = {}
    BY <2>1, EmptyDict
  <2> QED
    BY <2>1, <2>2 DEF InstancesTypeOK
<1> QED
  BY <1>1, <1>2, <1>3

\* The copy of a node is alike but for the signal.
LEMMA CloneIsAlike ==
  ASSUME NEW node \in NodeRecord
  PROVE  /\ NodeCoreClone(node) \in NodeRecord
         /\ NodeCoreClone(node).kind = node.kind /\ NodeCoreClone(node).succ = node.succ
         /\ NodeCoreClone(node).inner = node.inner /\ NodeCoreClone(node).own = node.own
<1>1. <<>> \in Seq(Nat)
  OBVIOUS
<1> QED
  BY <1>1 DEF NodeCoreClone, NodeRecord

\* What a new copy adds.
LEMMA CopiesAdd ==
  ASSUME InstancesTypeOK, WiringStands,
         NEW b \in Bundles, NEW x \in Template, NEW callers \in Seq(CallRecord),
         x \notin DOMAIN memo[b], Copies(b, x, callers)
  PROVE  /\ heap' \in Seq(NodeRecord) /\ Len(heap') = Len(heap) + 1
         /\ \A y \in 1 .. Len(heap) : heap'[y] = heap[y]
         /\ LET new == heap'[Len(heap) + 1]  old == heap[x]
            IN  /\ new.kind = old.kind /\ new.succ = old.succ
                /\ new.inner = old.inner /\ new.own = old.own
         /\ SameShape(heap', heap)
         /\ DOMAIN memo' = Bundles /\ \A c \in Bundles : c # b => memo'[c] = memo[c]
         /\ DOMAIN memo'[b] = DOMAIN memo[b] \cup {x}
         /\ memo'[b][x] = Len(heap) + 1
         /\ \A y \in DOMAIN memo[b] : memo'[b][y] = memo[b][y]
         /\ memo'[b] \in [DOMAIN memo[b] \cup {x} -> 1 .. Len(heap')]
         /\ DOMAIN calls' = Bundles /\ \A c \in Bundles : c # b => calls'[c] = calls[c]
         /\ calls'[b] \in Seq(CallRecord) /\ Len(calls'[b]) = Len(callers) + 1
         /\ \A i \in 1 .. Len(callers) : calls'[b][i] = callers[i]
         /\ calls'[b][Len(callers) + 1] = CloneCall(x)
<1> DEFINE n == Len(heap)
           new == NodeCoreClone(heap[x])
<1>1. /\ heap \in Seq(NodeRecord) /\ n \in Nat /\ memo[b] \in [DOMAIN memo[b] -> 1 .. n]
      /\ \A y \in 1 .. n : heap[y] \in NodeRecord
  BY Typed
<1>2. x \in 1 .. n /\ Template \subseteq 1 .. n
  BY <1>1, InstancesAssumption DEF WiringStands, Template
<1>3. heap[x] \in NodeRecord
  BY <1>1, <1>2
<1>4. /\ new \in NodeRecord /\ new.kind = heap[x].kind /\ new.succ = heap[x].succ
      /\ new.inner = heap[x].inner /\ new.own = heap[x].own
  BY <1>3, CloneIsAlike
<1>5. heap' = Append(heap, new)
  BY DEF Copies
<1> HIDE DEF new
<1>6. /\ heap' \in Seq(NodeRecord) /\ Len(heap') = n + 1 /\ heap'[n + 1] = new
      /\ \A y \in 1 .. n : heap'[y] = heap[y]
  BY <1>1, <1>4, <1>5, AppendProperties
<1>7. SameShape(heap', heap)
  BY <1>2, <1>6 DEF SameShape
<1> DEFINE o == Over([y \in {x} |-> n + 1], memo[b])
<1>8. /\ DOMAIN o = DOMAIN memo[b] \cup {x} /\ o[x] = n + 1
      /\ \A y \in DOMAIN memo[b] : y # x => o[y] = memo[b][y]
      /\ o = [y \in DOMAIN memo[b] \cup {x} |-> o[y]]
  BY DEF Over
<1>9. \A y \in DOMAIN memo[b] \cup {x} : o[y] \in 1 .. n + 1
  BY <1>1, <1>8
<1>10. o \in [DOMAIN memo[b] \cup {x} -> 1 .. n + 1]
  BY <1>8, <1>9
<1>11. DOMAIN memo = Bundles /\ memo' = [memo EXCEPT ![b] = o]
  BY DEF InstancesTypeOK, Copies
<1> HIDE DEF o
<1>12. /\ DOMAIN memo' = Bundles /\ memo'[b] = o
       /\ \A c \in Bundles : c # b => memo'[c] = memo[c]
  BY <1>11
<1> DEFINE s == Append(callers, CloneCall(x))
<1>13. CloneCall(x) \in CallRecord
  BY DEF CloneCall, CallRecord
<1>14. /\ s \in Seq(CallRecord) /\ Len(s) = Len(callers) + 1
       /\ \A i \in 1 .. Len(callers) : s[i] = callers[i]
       /\ s[Len(callers) + 1] = CloneCall(x)
  BY <1>13, AppendProperties
<1>15. DOMAIN calls = Bundles /\ calls' = [calls EXCEPT ![b] = s]
  BY DEF InstancesTypeOK, Copies
<1> HIDE DEF s
<1>16. /\ DOMAIN calls' = Bundles /\ calls'[b] = s
       /\ \A c \in Bundles : c # b => calls'[c] = calls[c]
  BY <1>15
<1> HIDE DEF n
<1>17. \A y \in DOMAIN memo[b] : o[y] = memo[b][y]
  BY <1>8
<1> QED
  BY <1>4, <1>6, <1>7, <1>8, <1>10, <1>12, <1>14, <1>16, <1>17 DEF n

LEMMA CopiesTyped ==
  ASSUME InstancesTypeOK, WiringStands,
         NEW b \in Bundles, NEW x \in Template, NEW callers \in Seq(CallRecord),
         x \notin DOMAIN memo[b], Copies(b, x, callers), UNCHANGED <<frames, setter>>
  PROVE  InstancesTypeOK'
<1>1. /\ heap' \in Seq(NodeRecord) /\ Len(heap') = Len(heap) + 1
      /\ \A y \in 1 .. Len(heap) : heap'[y] = heap[y]
      /\ heap'[Len(heap) + 1].succ = heap[x].succ
      /\ heap'[Len(heap) + 1].inner = heap[x].inner
      /\ DOMAIN memo' = Bundles /\ \A c \in Bundles : c # b => memo'[c] = memo[c]
      /\ memo'[b] \in [DOMAIN memo[b] \cup {x} -> 1 .. Len(heap')]
      /\ DOMAIN calls' = Bundles /\ \A c \in Bundles : c # b => calls'[c] = calls[c]
      /\ calls'[b] \in Seq(CallRecord)
  BY CopiesAdd
<1>2. Len(heap) \in Nat /\ Templates <= Len(heap) /\ Templates \in Nat
  BY Typed, InstancesAssumption DEF WiringStands
<1>3. 0 .. Len(heap) \subseteq 0 .. Len(heap') /\ 1 .. Len(heap) \subseteq 1 .. Len(heap')
  BY <1>1, <1>2
<1>4. ASSUME NEW y \in 1 .. Len(heap')
      PROVE  /\ heap'[y].inner \in 0 .. Len(heap')
             /\ \A a \in Actions : heap'[y].succ[a] \in 0 .. Len(heap')
  <2>1. CASE y \in 1 .. Len(heap)
    BY <1>1, <1>3, <2>1 DEF InstancesTypeOK
  <2>2. CASE y = Len(heap) + 1
    <3>1. x \in 1 .. Len(heap)
      BY <1>2 DEF Template
    <3> QED
      BY <1>1, <1>3, <2>2, <3>1 DEF InstancesTypeOK
  <2>3. y \in 1 .. Len(heap) \/ y = Len(heap) + 1
    BY <1>1, <1>2
  <2> QED
    BY <2>1, <2>2, <2>3
<1>5. calls' \in [Bundles -> Seq(CallRecord)]
  <2>1. \A c \in Bundles : calls'[c] \in Seq(CallRecord)
    BY <1>1, Typed
  <2>2. calls \in [Bundles -> Seq(CallRecord)]
    BY DEF InstancesTypeOK
  <2>3. calls' = [c \in Bundles |-> calls'[c]]
    BY <2>2 DEF Copies
  <2> QED
    BY <2>1, <2>3
<1>6. ASSUME NEW c \in Bundles
      PROVE  \E xs \in SUBSET Template : memo'[c] \in [xs -> 1 .. Len(heap')]
  <2>1. CASE c = b
    <3>1. DOMAIN memo[b] \cup {x} \in SUBSET Template
      BY Typed
    <3> QED
      BY <1>1, <2>1, <3>1
  <2>2. CASE c # b
    <3>1. memo'[c] \in [DOMAIN memo[c] -> 1 .. Len(heap)] /\ DOMAIN memo[c] \in SUBSET Template
      BY <1>1, <2>2, Typed
    <3> QED
      BY <1>3, <3>1
  <2> QED
    BY <2>1, <2>2
<1>7. frames' = frames /\ setter' = setter
  OBVIOUS
<1>8. /\ frames' \in [Bundles -> Seq(Traversal)]
      /\ \A c \in Bundles : \A i \in 1 .. Len(frames'[c]) : frames'[c][i].curr \in 1 .. Len(heap')
      /\ setter' \in [at : {"idle", "between", "done"}, node : 0 .. Len(heap')]
  BY <1>3, <1>7 DEF InstancesTypeOK
<1> QED
  BY <1>1, <1>4, <1>5, <1>6, <1>8 DEF InstancesTypeOK

\* The callers go on where they were while a new node is copied.
CallersStand(b, callers) ==
  /\ Len(callers) = Len(calls[b])
  /\ \A i \in 1 .. Len(callers) :
       /\ callers[i].node = calls[b][i].node
       /\ callers[i].todo = calls[b][i].todo
       /\ callers[i].next \subseteq callers[i].todo

\* Which calls are in progress after a new copy.
LEMMA CopiesCall ==
  ASSUME InstancesTypeOK, CloningInv,
         NEW b \in Bundles, NEW x \in Template, NEW callers \in Seq(CallRecord),
         x \notin DOMAIN memo[b], Copies(b, x, callers), CallersStand(b, callers)
  PROVE  /\ \A y : InCall(b, y)' <=> InCall(b, y) \/ y = x
         /\ \A y : \A a \in Actions :
              Pending(b, y, a)' <=> Pending(b, y, a) \/ (y = x /\ heap[x].succ[a] # 0)
         /\ \A i \in 1 .. Len(calls'[b]) :
              /\ calls'[b][i].node \in DOMAIN memo'[b]
              /\ calls'[b][i].next \subseteq calls'[b][i].todo
         /\ \A i, j \in 1 .. Len(calls'[b]) : calls'[b][i].node = calls'[b][j].node => i = j
         /\ ~InCall(b, x) /\ \A a : ~Pending(b, x, a)
<1> DEFINE k == Len(calls[b])
<1>0. WiringStands /\ CallsStand
  BY DEF CloningInv
<1>1. /\ Len(callers) = k /\ k \in Nat
      /\ \A i \in 1 .. k : /\ callers[i].node = calls[b][i].node
                           /\ callers[i].todo = calls[b][i].todo
                           /\ callers[i].next \subseteq callers[i].todo
  BY Typed DEF CallersStand
<1>2. /\ Len(calls'[b]) = k + 1
      /\ \A i \in 1 .. k : calls'[b][i] = callers[i]
      /\ calls'[b][k + 1] = CloneCall(x)
      /\ DOMAIN memo'[b] = DOMAIN memo[b] \cup {x}
  <2>1. /\ Len(calls'[b]) = Len(callers) + 1
        /\ \A i \in 1 .. Len(callers) : calls'[b][i] = callers[i]
        /\ calls'[b][Len(callers) + 1] = CloneCall(x)
        /\ DOMAIN memo'[b] = DOMAIN memo[b] \cup {x}
    BY <1>0, CopiesAdd
  <2> HIDE DEF k
  <2> QED
    BY <1>1, <2>1
<1>3. /\ CloneCall(x).node = x /\ CloneCall(x).next \subseteq CloneCall(x).todo
      /\ CloneCall(x).todo = {a \in Actions : heap[x].succ[a] # 0}
  BY DEF CloneCall
<1>4. /\ \A i \in 1 .. k : calls[b][i].node \in DOMAIN memo[b]
      /\ \A i, j \in 1 .. k : calls[b][i].node = calls[b][j].node => i = j
  BY <1>0 DEF CallsStand
<1>5. ~InCall(b, x) /\ \A a : ~Pending(b, x, a)
  BY <1>4 DEF InCall, Pending
<1>6. \A i : i \in 1 .. k + 1 <=> i \in 1 .. k \/ i = k + 1
  BY <1>1
<1>7. \A y : InCall(b, y)' <=> InCall(b, y) \/ y = x
  <2>1. ASSUME NEW y PROVE InCall(b, y)' <=> \E i \in 1 .. k + 1 : calls'[b][i].node = y
    BY <1>2 DEF InCall
  <2>2. ASSUME NEW y PROVE InCall(b, y) <=> \E i \in 1 .. k : calls[b][i].node = y
    BY DEF InCall
  <2> HIDE DEF k
  <2> QED
    BY <1>1, <1>2, <1>3, <1>6, <2>1, <2>2
<1>8. ASSUME NEW y, NEW a \in Actions
      PROVE  Pending(b, y, a)' <=> Pending(b, y, a) \/ (y = x /\ heap[x].succ[a] # 0)
  <2>1. Pending(b, y, a)' <=>
          \E i \in 1 .. k + 1 : calls'[b][i].node = y /\ a \in calls'[b][i].todo
    BY <1>2 DEF Pending
  <2>2. Pending(b, y, a) <=> \E i \in 1 .. k : calls[b][i].node = y /\ a \in calls[b][i].todo
    BY DEF Pending
  <2> HIDE DEF k
  <2>3. \A i \in 1 .. k : /\ calls'[b][i].node = calls[b][i].node
                          /\ calls'[b][i].todo = calls[b][i].todo
    BY <1>1, <1>2
  <2>4. calls'[b][k + 1].node = x /\ (a \in calls'[b][k + 1].todo <=> heap[x].succ[a] # 0)
    BY <1>2, <1>3, <1>8
  <2> QED
    BY <1>6, <2>1, <2>2, <2>3, <2>4
<1>9. \A i \in 1 .. k + 1 : /\ calls'[b][i].node \in DOMAIN memo'[b]
                            /\ calls'[b][i].next \subseteq calls'[b][i].todo
  <2>1. /\ calls'[b][k + 1].node \in DOMAIN memo'[b]
        /\ calls'[b][k + 1].next \subseteq calls'[b][k + 1].todo
    BY <1>2, <1>3
  <2>2. \A i \in 1 .. k : /\ calls'[b][i].node \in DOMAIN memo'[b]
                          /\ calls'[b][i].next \subseteq calls'[b][i].todo
    BY <1>1, <1>2, <1>4
  <2> HIDE DEF k
  <2> QED
    BY <1>6, <2>1, <2>2
<1>10. ASSUME NEW i \in 1 .. k + 1, NEW j \in 1 .. k + 1,
              calls'[b][i].node = calls'[b][j].node
       PROVE  i = j
  <2>1. ASSUME NEW l \in 1 .. k
        PROVE  calls'[b][l].node = calls[b][l].node /\ calls'[b][l].node # x
    BY <1>1, <1>2, <1>4
  <2>2. calls'[b][k + 1].node = x
    BY <1>2, <1>3
  <2> HIDE DEF k
  <2> QED
    BY <1>4, <1>6, <1>10, <2>1, <2>2 DEF k
<1> QED
  BY <1>2, <1>5, <1>7, <1>8, <1>9, <1>10

\* The calls of the other bundles are not touched.
LEMMA OtherCalls ==
  ASSUME NEW c \in Bundles, calls'[c] = calls[c]
  PROVE  /\ \A y : InCall(c, y)' <=> InCall(c, y)
         /\ \A y, a : Pending(c, y, a)' <=> Pending(c, y, a)
BY DEF InCall, Pending

\* A copy that a step leaves as it is.
LEMMA CopySame ==
  ASSUME NEW c \in Bundles, NEW y \in DOMAIN memo[c], CopyStands(c, y),
         DOMAIN memo[c] \subseteq DOMAIN memo'[c],
         \A z \in DOMAIN memo[c] : memo'[c][z] = memo[c][z],
         heap'[y].kind = heap[y].kind, heap'[y].succ = heap[y].succ,
         heap'[y].inner = heap[y].inner,
         heap'[memo[c][y]].kind = heap[memo[c][y]].kind,
         heap'[memo[c][y]].succ = heap[memo[c][y]].succ,
         heap'[memo[c][y]].inner = heap[memo[c][y]].inner,
         setter'.at = "idle" =>
           /\ setter.at = "idle"
           /\ heap'[y].own = heap[y].own
           /\ heap'[memo[c][y]].own = heap[memo[c][y]].own,
         InCall(c, y)' <=> InCall(c, y),
         \A a \in Actions : Pending(c, y, a)' <=> Pending(c, y, a)
  PROVE  CopyStands(c, y)'
<1>1. memo'[c][y] = memo[c][y]
  OBVIOUS
<1>2. \A z \in DOMAIN memo[c] \cup {0} : Copied(memo'[c], z) = Copied(memo[c], z)
  BY DEF Copied
<1> DEFINE Edge(a) ==
             IF Pending(c, y, a)'
             THEN heap'[y].succ[a] # 0 /\ heap'[memo'[c][y]].succ[a] = heap'[y].succ[a]
             ELSE /\ heap'[y].succ[a] \in DOMAIN memo'[c] \cup {0}
                  /\ heap'[memo'[c][y]].succ[a] = Copied(memo'[c], heap'[y].succ[a])
<1>3. \A a \in Actions : Edge(a)
  BY <1>1, <1>2 DEF CopyStands
<1>4. IF heap'[y].kind \in Starts /\ ~InCall(c, y)'
      THEN /\ heap'[y].inner \in DOMAIN memo'[c] \cup {0}
           /\ heap'[memo'[c][y]].inner = Copied(memo'[c], heap'[y].inner)
      ELSE heap'[memo'[c][y]].inner = heap'[y].inner
  BY <1>1, <1>2 DEF CopyStands
<1>5. /\ heap'[memo'[c][y]].kind = heap'[y].kind
      /\ setter'.at = "idle" => heap'[memo'[c][y]].own = heap'[y].own
  BY <1>1 DEF CopyStands
<1> QED
  BY <1>3, <1>4, <1>5, Zenon DEF CopyStands

LEMMA CopiesClones ==
  ASSUME InstancesTypeOK, CloningInv,
         NEW b \in Bundles, NEW x \in Template, NEW callers \in Seq(CallRecord),
         x \notin DOMAIN memo[b], Copies(b, x, callers), CallersStand(b, callers),
         x \in Reached(heap, {1}, Starts), memo[b] = <<>> => x = 1,
         frames[b] = <<>>, UNCHANGED <<frames, setter>>
  PROVE  CloningInv'
<1> DEFINE n == Len(heap)
<1>1. WiringStands /\ MemoStands /\ CallsStand /\ CopiesStand
  BY DEF CloningInv
<1>2. /\ Len(heap') = n + 1 /\ \A y \in 1 .. n : heap'[y] = heap[y]
      /\ LET new == heap'[n + 1]  old == heap[x]
         IN  /\ new.kind = old.kind /\ new.succ = old.succ
             /\ new.inner = old.inner /\ new.own = old.own
      /\ SameShape(heap', heap)
      /\ \A c \in Bundles : c # b => memo'[c] = memo[c] /\ calls'[c] = calls[c]
      /\ DOMAIN memo'[b] = DOMAIN memo[b] \cup {x} /\ memo'[b][x] = n + 1
      /\ \A y \in DOMAIN memo[b] : memo'[b][y] = memo[b][y]
  BY <1>1, CopiesAdd
<1>3. /\ n \in Nat /\ Templates \in Nat /\ Templates <= n /\ Template \subseteq 1 .. n
      /\ \A c \in Bundles : /\ DOMAIN memo[c] \subseteq Template
                            /\ \A y \in DOMAIN memo[c] : memo[c][y] \in 1 .. n
                            /\ memo[c] = <<>> <=> DOMAIN memo[c] = {}
  <2>1. n \in Nat /\ Templates \in Nat /\ Templates <= n
    BY <1>1, Typed, InstancesAssumption DEF WiringStands
  <2>2. Template \subseteq 1 .. n
    BY <2>1 DEF Template
  <2>3. \A c \in Bundles : /\ DOMAIN memo[c] \subseteq Template
                           /\ \A y \in DOMAIN memo[c] : memo[c][y] \in 1 .. n
                           /\ memo[c] = <<>> <=> DOMAIN memo[c] = {}
    BY Typed
  <2> QED
    BY <2>1, <2>2, <2>3
<1> HIDE DEF n
<1>4. WiringStands' /\ Reached(heap, {1}, Starts)' = Reached(heap, {1}, Starts)
  BY <1>1, <1>2, <1>3, WiringKeeps DEF n
<1>5. MemoStands'
  <2>1. ASSUME NEW c \in Bundles
        PROVE  /\ memo'[c] # <<>> => 1 \in DOMAIN memo'[c]
               /\ DOMAIN memo'[c] \subseteq Reached(heap, {1}, Starts)'
               /\ \A y \in DOMAIN memo'[c] : memo'[c][y] > Templates
    <3>1. CASE c = b
      <4>1. 1 \in DOMAIN memo'[b]
        BY <1>1, <1>2, <1>3 DEF MemoStands
      <4>2. n + 1 > Templates
        BY <1>3
      <4> QED
        BY <1>1, <1>2, <1>4, <3>1, <4>1, <4>2 DEF MemoStands
    <3>2. CASE c # b
      BY <1>1, <1>2, <1>4, <3>2 DEF MemoStands
    <3> QED
      BY <3>1, <3>2
  <2>2. ASSUME NEW c \in Bundles, NEW d \in Bundles,
               NEW y \in DOMAIN memo'[c], NEW z \in DOMAIN memo'[d],
               memo'[c][y] = memo'[d][z]
        PROVE  c = d /\ y = z
    <3>1. \A e \in Bundles : \A u \in DOMAIN memo'[e] :
            \/ e = b /\ u = x /\ memo'[e][u] = n + 1
            \/ u \in DOMAIN memo[e] /\ memo'[e][u] = memo[e][u] /\ memo[e][u] # n + 1
      BY <1>2, <1>3
    <3> QED
      BY <1>1, <2>2, <3>1 DEF MemoStands
  <2> QED
    BY <2>1, <2>2 DEF MemoStands
<1>6. CallsStand'
  <2>1. /\ \A i \in 1 .. Len(calls'[b]) :
              /\ calls'[b][i].node \in DOMAIN memo'[b]
              /\ calls'[b][i].next \subseteq calls'[b][i].todo
        /\ \A i, j \in 1 .. Len(calls'[b]) : calls'[b][i].node = calls'[b][j].node => i = j
    BY CopiesCall
  <2>2. frames' = frames
    OBVIOUS
  <2>3. ASSUME NEW c \in Bundles
        PROVE  /\ calls'[c] # <<>> => frames'[c] = <<>>
               /\ frames'[c] # <<>> => memo'[c] # <<>>
               /\ \A i \in 1 .. Len(calls'[c]) :
                    /\ calls'[c][i].node \in DOMAIN memo'[c]
                    /\ calls'[c][i].next \subseteq calls'[c][i].todo
               /\ \A i, j \in 1 .. Len(calls'[c]) :
                    calls'[c][i].node = calls'[c][j].node => i = j
    <3>1. CASE c = b
      BY <2>1, <2>2, <3>1
    <3>2. CASE c # b
      <4>1. calls'[c] = calls[c] /\ memo'[c] = memo[c]
        BY <1>2, <3>2
      <4> QED
        BY <1>1, <2>2, <4>1 DEF CallsStand
    <3> QED
      BY <3>1, <3>2
  <2> QED
    BY <2>3 DEF CallsStand
<1>7. ASSUME NEW c \in Bundles, NEW y \in DOMAIN memo'[c] PROVE CopyStands(c, y)'
  <2>1. CASE c = b /\ y = x
    <3>1. /\ InCall(b, x)'
          /\ \A a \in Actions : Pending(b, x, a)' <=> heap[x].succ[a] # 0
      BY CopiesCall
    <3>2. heap'[x] = heap[x]
      BY <1>2, <1>3
    <3>3. \A m : Copied(m, 0) = 0
      BY DEF Copied
    <3> QED
      BY <1>2, <2>1, <3>1, <3>2, <3>3 DEF CopyStands
  <2>2. CASE ~(c = b /\ y = x)
    <3>1. /\ y \in DOMAIN memo[c] /\ DOMAIN memo[c] \subseteq DOMAIN memo'[c]
          /\ \A z \in DOMAIN memo[c] : memo'[c][z] = memo[c][z]
      BY <1>2, <2>2
    <3>2. heap'[y] = heap[y] /\ heap'[memo[c][y]] = heap[memo[c][y]]
      BY <1>2, <1>3, <3>1
    <3>3. /\ InCall(c, y)' <=> InCall(c, y)
          /\ \A a \in Actions : Pending(c, y, a)' <=> Pending(c, y, a)
      BY <1>2, <2>2, CopiesCall, OtherCalls
    <3>4. CopyStands(c, y) /\ setter' = setter
      BY <1>1, <3>1 DEF CopiesStand
    <3> QED
      BY <3>1, <3>2, <3>3, <3>4, CopySame
  <2> QED
    BY <2>1, <2>2
<1> QED
  BY <1>4, <1>5, <1>6, <1>7 DEF CloningInv, CopiesStand

\* The innermost call of a bundle that is being cloned.
LEMMA CallStands ==
  ASSUME InstancesTypeOK, CloningInv, NEW b \in Bundles, calls[b] # <<>>
  PROVE  /\ Call(b) \in CallRecord /\ Call(b) = calls[b][Len(calls[b])]
         /\ Len(calls[b]) \in Nat /\ Len(calls[b]) > 0
         /\ Call(b).node \in DOMAIN memo[b] /\ Call(b).node \in Template
         /\ Call(b).next \subseteq Call(b).todo
         /\ InCall(b, Call(b).node)
         /\ \A a : Pending(b, Call(b).node, a) <=> a \in Call(b).todo
         /\ CopyOf(b) = memo[b][Call(b).node] /\ CopyOf(b) \in 1 .. Len(heap)
         /\ CopyOf(b) > Templates
         /\ CopyStands(b, Call(b).node)
         /\ frames[b] = <<>>
<1>1. calls[b] \in Seq(CallRecord)
  BY Typed
<1>2. /\ Call(b) \in CallRecord /\ Call(b) = calls[b][Len(calls[b])]
      /\ Len(calls[b]) \in Nat /\ Len(calls[b]) > 0
  BY <1>1, FrontOfStack DEF Call
<1>3. Len(calls[b]) \in 1 .. Len(calls[b])
  BY <1>2
<1>4. /\ \A i \in 1 .. Len(calls[b]) : /\ calls[b][i].node \in DOMAIN memo[b]
                                       /\ calls[b][i].next \subseteq calls[b][i].todo
      /\ \A i, j \in 1 .. Len(calls[b]) : calls[b][i].node = calls[b][j].node => i = j
      /\ frames[b] = <<>>
  BY DEF CloningInv, CallsStand
<1>5. /\ Call(b).node \in DOMAIN memo[b] /\ Call(b).next \subseteq Call(b).todo
      /\ InCall(b, Call(b).node)
      /\ \A a : Pending(b, Call(b).node, a) <=> a \in Call(b).todo
  BY <1>2, <1>3, <1>4 DEF InCall, Pending
<1>6. /\ CopyOf(b) = memo[b][Call(b).node] /\ CopyOf(b) \in 1 .. Len(heap)
      /\ Call(b).node \in Template
  BY <1>5, Typed DEF CopyOf
<1>7. CopyOf(b) > Templates /\ CopyStands(b, Call(b).node)
  BY <1>5, <1>6 DEF CloningInv, MemoStands, CopiesStand
<1> QED
  BY <1>2, <1>4, <1>5, <1>6, <1>7

\* One node of the heap is written.
LEMMA HeapWritten ==
  ASSUME NEW h \in Seq(NodeRecord), NEW i \in 1 .. Len(h), NEW node \in NodeRecord,
         NEW g, g = [h EXCEPT ![i] = node]
  PROVE  /\ g \in Seq(NodeRecord) /\ Len(g) = Len(h)
         /\ g[i] = node /\ \A y \in 1 .. Len(h) : y # i => g[y] = h[y]
BY ExceptSeq

\* A step that writes to one node, and leaves what is not copies its shape.
LEMMA WriteTyped ==
  ASSUME InstancesTypeOK, NEW i \in 1 .. Len(heap), NEW node \in NodeRecord,
         node.inner \in 0 .. Len(heap), \A a \in Actions : node.succ[a] \in 0 .. Len(heap),
         heap' = [heap EXCEPT ![i] = node],
         calls' \in [Bundles -> Seq(CallRecord)], UNCHANGED memo,
         frames' \in [Bundles -> Seq(Traversal)],
         \A c \in Bundles : \A k \in 1 .. Len(frames'[c]) : frames'[c][k].curr \in 1 .. Len(heap),
         setter' \in [at : {"idle", "between", "done"}, node : 0 .. Len(heap)]
  PROVE  InstancesTypeOK'
<1>1. heap \in Seq(NodeRecord)
  BY Typed
<1>2. /\ heap' \in Seq(NodeRecord) /\ Len(heap') = Len(heap)
      /\ heap'[i] = node /\ \A y \in 1 .. Len(heap) : y # i => heap'[y] = heap[y]
  BY <1>1, HeapWritten
<1>3. \A y \in 1 .. Len(heap') : /\ heap'[y].inner \in 0 .. Len(heap')
                                 /\ \A a \in Actions : heap'[y].succ[a] \in 0 .. Len(heap')
  BY <1>2 DEF InstancesTypeOK
<1> QED
  BY <1>2, <1>3 DEF InstancesTypeOK

\* Neither the graph that the user wired nor the memo is touched by a step that
\* writes to a copy or wires nothing.
LEMMA WriteKeeps ==
  ASSUME InstancesTypeOK, WiringStands, MemoStands,
         NEW i \in 1 .. Len(heap), NEW node \in NodeRecord,
         heap' = [heap EXCEPT ![i] = node], UNCHANGED memo,
         i > Templates \/ (/\ node.kind = heap[i].kind /\ node.succ = heap[i].succ
                           /\ node.inner = heap[i].inner)
  PROVE  /\ SameShape(heap', heap) /\ WiringStands' /\ MemoStands'
         /\ Branches' = Branches /\ \A x \in Template : Within(x)' = Within(x)
<1>1. heap \in Seq(NodeRecord)
  BY Typed
<1>2. /\ Len(heap') = Len(heap) /\ Len(heap) \in Nat
      /\ heap'[i] = node /\ \A y \in 1 .. Len(heap) : y # i => heap'[y] = heap[y]
  BY <1>1, Typed, HeapWritten
<1>3. Templates \in Nat /\ Templates <= Len(heap) /\ \A x \in Template : x \in 1 .. Len(heap)
  BY <1>2, InstancesAssumption DEF WiringStands, Template
<1>4. \A x \in Template : x <= Templates /\ x \in Nat
  BY <1>3 DEF Template
<1>5. SameShape(heap', heap)
  <2>1. CASE i > Templates
    <3>1. \A x \in Template : x # i
      BY <1>3, <1>4, <2>1
    <3> QED
      BY <1>2, <1>3, <3>1 DEF SameShape
  <2>2. CASE /\ node.kind = heap[i].kind /\ node.succ = heap[i].succ
             /\ node.inner = heap[i].inner
    BY <1>2, <1>3, <2>2 DEF SameShape
  <2> QED
    BY <2>1, <2>2
<1>6. /\ WiringStands' /\ Reached(heap, {1}, Starts)' = Reached(heap, {1}, Starts)
      /\ Branches' = Branches /\ \A x \in Template : Within(x)' = Within(x)
  BY <1>2, <1>3, <1>5, WiringKeeps
<1>7. MemoStands'
  BY <1>6 DEF MemoStands
<1> QED
  BY <1>5, <1>6, <1>7

\* An edge of the copy is wired to the copy of the node it leads to.
WiresEdge(b, a) ==
  /\ heap' = [heap EXCEPT ![CopyOf(b)].succ[a] = memo[b][heap[CopyOf(b)].succ[a]]]
  /\ calls' = [calls EXCEPT ![b] =
                SetCall(b, [Call(b) EXCEPT !.todo = @ \ {a}, !.next = Call(b).todo \ {a}])]
  /\ UNCHANGED <<memo, frames, setter>>

\* What that changes.
LEMMA EdgeWired ==
  ASSUME InstancesTypeOK, CloningInv, NEW b \in Bundles, calls[b] # <<>>,
         NEW a \in Call(b).next, heap[CopyOf(b)].succ[a] \in DOMAIN memo[b], WiresEdge(b, a)
  PROVE  LET i == CopyOf(b)
             y == heap[i].succ[a]
             node == [heap[i] EXCEPT !.succ = [@ EXCEPT ![a] = memo[b][y]]]
         IN  /\ a \in Actions /\ y = heap[Call(b).node].succ[a]
             /\ node \in NodeRecord /\ heap' = [heap EXCEPT ![i] = node]
             /\ heap' \in Seq(NodeRecord) /\ Len(heap') = Len(heap)
             /\ heap'[i] = node
             /\ node.kind = heap[i].kind /\ node.inner = heap[i].inner
             /\ node.own = heap[i].own
             /\ node.succ = [heap[i].succ EXCEPT ![a] = memo[b][y]]
             /\ heap[i].succ \in [Actions -> Nat]
             /\ memo[b][y] \in 0 .. Len(heap)
             /\ \A j \in 1 .. Len(heap) : j # i => heap'[j] = heap[j]
<1> DEFINE i == CopyOf(b)
           y == heap[i].succ[a]
           n == heap[i]
           node == [n EXCEPT !.succ = [@ EXCEPT ![a] = memo[b][y]]]
<1>1. /\ Call(b) \in CallRecord /\ i \in 1 .. Len(heap)
      /\ Call(b).next \subseteq Call(b).todo
      /\ \A e : Pending(b, Call(b).node, e) <=> e \in Call(b).todo
      /\ i = memo[b][Call(b).node] /\ CopyStands(b, Call(b).node)
  BY CallStands
<1>2. a \in Actions /\ Pending(b, Call(b).node, a)
  BY <1>1 DEF CallRecord
<1>3. y = heap[Call(b).node].succ[a]
  BY <1>1, <1>2 DEF CopyStands
<1>4. memo[b][y] \in 1 .. Len(heap) /\ Len(heap) \in Nat
  BY Typed
<1>5. memo[b][y] \in Nat /\ memo[b][y] \in 0 .. Len(heap)
  BY <1>4
<1>6. n \in NodeRecord
  BY <1>1, Typed
<1> HIDE DEF y
<1>7. /\ node \in NodeRecord /\ node.kind = n.kind /\ node.inner = n.inner
      /\ node.own = n.own /\ node.succ = [n.succ EXCEPT ![a] = memo[b][y]]
      /\ n.succ \in [Actions -> Nat]
  <2> DEFINE s == [n.succ EXCEPT ![a] = memo[b][y]]
  <2>1. n.succ \in [Actions -> Nat]
    BY <1>6 DEF NodeRecord
  <2>2. s \in [Actions -> Nat] /\ node = [n EXCEPT !.succ = s]
    BY <1>5, <2>1
  <2> HIDE DEF s, n
  <2>3. [n EXCEPT !.succ = s] \in NodeRecord
    BY <1>6, <2>2 DEF NodeRecord
  <2>4. PICK r : r = [n EXCEPT !.succ = s]
    OBVIOUS
  <2>5. r.kind = n.kind /\ r.inner = n.inner /\ r.own = n.own /\ r.succ = s
    BY <1>6, <2>4 DEF NodeRecord
  <2> HIDE DEF node
  <2> QED
    BY <2>1, <2>2, <2>3, <2>4, <2>5 DEF s
<1>8. heap' = [heap EXCEPT ![i] = node]
  BY DEF WiresEdge, y
<1> HIDE DEF node
<1>9. /\ heap' \in Seq(NodeRecord) /\ Len(heap') = Len(heap)
      /\ heap'[i] = node /\ \A j \in 1 .. Len(heap) : j # i => heap'[j] = heap[j]
  <2>1. heap \in Seq(NodeRecord) /\ i \in 1 .. Len(heap) /\ node \in NodeRecord
    BY <1>1, <1>7, Typed
  <2> HIDE DEF i
  <2>2. PICK h : h = heap'
    OBVIOUS
  <2>3. h = [heap EXCEPT ![i] = node]
    BY <1>8, <2>2
  <2>4. /\ h \in Seq(NodeRecord) /\ Len(h) = Len(heap)
        /\ h[i] = node /\ \A j \in 1 .. Len(heap) : j # i => h[j] = heap[j]
    BY <2>1, <2>3, HeapWritten
  <2> QED
    BY <2>2, <2>4
<1> QED
  BY <1>2, <1>3, <1>5, <1>7, <1>8, <1>9 DEF node, y

\* Which calls are in progress then.
LEMMA EdgeCall ==
  ASSUME InstancesTypeOK, CloningInv, NEW b \in Bundles, calls[b] # <<>>,
         NEW a \in Call(b).next, WiresEdge(b, a)
  PROVE  /\ calls' \in [Bundles -> Seq(CallRecord)]
         /\ \A c \in Bundles : c # b => calls'[c] = calls[c]
         /\ \A y : InCall(b, y)' <=> InCall(b, y)
         /\ \A y, e : Pending(b, y, e)' <=> Pending(b, y, e) /\ ~(y = Call(b).node /\ e = a)
         /\ \A i \in 1 .. Len(calls'[b]) :
              /\ calls'[b][i].node \in DOMAIN memo[b]
              /\ calls'[b][i].next \subseteq calls'[b][i].todo
         /\ \A i, j \in 1 .. Len(calls'[b]) : calls'[b][i].node = calls'[b][j].node => i = j
<1> DEFINE s == calls[b]
           k == Len(s)
           call == [Call(b) EXCEPT !.todo = @ \ {a}, !.next = Call(b).todo \ {a}]
           t == Append(Front(s), call)
<1>1. /\ Call(b) \in CallRecord /\ Call(b) = s[k] /\ k \in Nat /\ k > 0
      /\ s \in Seq(CallRecord) /\ s # <<>>
  BY CallStands, Typed
<1>2. /\ call \in CallRecord /\ call.node = Call(b).node
      /\ call.todo = Call(b).todo \ {a} /\ call.next = Call(b).todo \ {a}
  BY <1>1 DEF CallRecord
<1>3. calls' = [calls EXCEPT ![b] = t] /\ calls \in [Bundles -> Seq(CallRecord)]
  BY DEF WiresEdge, SetCall, InstancesTypeOK
<1> HIDE DEF call
<1>4. /\ t \in Seq(CallRecord) /\ Len(t) = k
      /\ \A i \in 1 .. k : t[i] = IF i = k THEN call ELSE s[i]
  BY <1>1, <1>2, TopReplaced
<1> HIDE DEF t
<1>5. /\ calls' \in [Bundles -> Seq(CallRecord)] /\ calls'[b] = t
      /\ \A c \in Bundles : c # b => calls'[c] = calls[c]
  BY <1>3, <1>4
<1>6. /\ \A i \in 1 .. k : s[i].node \in DOMAIN memo[b] /\ s[i].next \subseteq s[i].todo
      /\ \A i, j \in 1 .. k : s[i].node = s[j].node => i = j
  BY DEF CloningInv, CallsStand
<1>7. /\ \A y : InCall(b, y) <=> \E i \in 1 .. k : s[i].node = y
      /\ \A y, e : Pending(b, y, e) <=> \E i \in 1 .. k : s[i].node = y /\ e \in s[i].todo
      /\ \A y : InCall(b, y)' <=> \E i \in 1 .. k : t[i].node = y
      /\ \A y, e : Pending(b, y, e)' <=> \E i \in 1 .. k : t[i].node = y /\ e \in t[i].todo
  BY <1>4, <1>5 DEF InCall, Pending
<1> HIDE DEF k, s
<1>8. \A i \in 1 .. k : /\ t[i].node = s[i].node /\ t[i].next \subseteq t[i].todo
                        /\ t[i].todo = IF i = k THEN s[i].todo \ {a} ELSE s[i].todo
  BY <1>1, <1>2, <1>4, <1>6
<1>9. ASSUME NEW y PROVE InCall(b, y)' <=> InCall(b, y)
  <2>1. (\E i \in 1 .. k : s[i].node = y) <=> (\E i \in 1 .. k : t[i].node = y)
    BY <1>8
  <2> QED
    BY <1>7, <2>1
<1>10. k \in 1 .. k
  BY <1>1
<1>11. ASSUME NEW y, NEW e
       PROVE  Pending(b, y, e)' <=> Pending(b, y, e) /\ ~(y = Call(b).node /\ e = a)
  <2>1. \A i \in 1 .. k : s[i].node = Call(b).node <=> i = k
    BY <1>1, <1>6, <1>10
  <2>2. (\E i \in 1 .. k : t[i].node = y /\ e \in t[i].todo) <=>
          \E i \in 1 .. k : s[i].node = y /\ e \in s[i].todo /\ ~(i = k /\ e = a)
    BY <1>8
  <2>3. (\E i \in 1 .. k : s[i].node = y /\ e \in s[i].todo /\ ~(i = k /\ e = a)) <=>
          (\E i \in 1 .. k : s[i].node = y /\ e \in s[i].todo) /\ ~(y = Call(b).node /\ e = a)
    BY <1>10, <2>1
  <2> QED
    BY <1>7, <2>2, <2>3
<1>12. /\ \A i \in 1 .. k : t[i].node \in DOMAIN memo[b] /\ t[i].next \subseteq t[i].todo
       /\ \A i, j \in 1 .. k : t[i].node = t[j].node => i = j
  BY <1>6, <1>8
<1>13. /\ \A i \in 1 .. Len(calls'[b]) :
            calls'[b][i].node \in DOMAIN memo[b] /\ calls'[b][i].next \subseteq calls'[b][i].todo
       /\ \A i, j \in 1 .. Len(calls'[b]) : calls'[b][i].node = calls'[b][j].node => i = j
  BY <1>4, <1>5, <1>12
<1> QED
  BY <1>5, <1>9, <1>11, <1>13

LEMMA EdgeClones ==
  ASSUME InstancesTypeOK, CloningInv, NEW b \in Bundles, calls[b] # <<>>,
         NEW a \in Call(b).next, heap[CopyOf(b)].succ[a] \in DOMAIN memo[b], WiresEdge(b, a)
  PROVE  InstancesTypeOK' /\ CloningInv'
<1> DEFINE i == CopyOf(b)
           y == heap[i].succ[a]
           node == [heap[i] EXCEPT !.succ = [@ EXCEPT ![a] = memo[b][y]]]
<1>0. PICK x : x = Call(b).node
  OBVIOUS
<1>1. WiringStands /\ MemoStands /\ CallsStand /\ CopiesStand
  BY DEF CloningInv
<1>2. /\ x \in DOMAIN memo[b] /\ x \in Template /\ i = memo[b][x] /\ i \in 1 .. Len(heap)
      /\ i > Templates /\ CopyStands(b, x) /\ frames[b] = <<>> /\ InCall(b, x)
  BY <1>0, CallStands
<1>3. /\ a \in Actions /\ y = heap[x].succ[a]
      /\ node \in NodeRecord /\ heap' = [heap EXCEPT ![i] = node]
      /\ Len(heap') = Len(heap) /\ heap'[i] = node
      /\ node.kind = heap[i].kind /\ node.inner = heap[i].inner /\ node.own = heap[i].own
      /\ node.succ = [heap[i].succ EXCEPT ![a] = memo[b][y]]
      /\ heap[i].succ \in [Actions -> Nat] /\ memo[b][y] \in 0 .. Len(heap)
      /\ \A j \in 1 .. Len(heap) : j # i => heap'[j] = heap[j]
  BY <1>0, EdgeWired
<1>4. y \in DOMAIN memo[b] /\ UNCHANGED <<memo, frames, setter>>
  BY DEF WiresEdge
<1>5. /\ calls' \in [Bundles -> Seq(CallRecord)]
      /\ \A c \in Bundles : c # b => calls'[c] = calls[c]
      /\ \A z : InCall(b, z)' <=> InCall(b, z)
      /\ \A z, e : Pending(b, z, e)' <=> Pending(b, z, e) /\ ~(z = x /\ e = a)
      /\ \A k \in 1 .. Len(calls'[b]) :
           /\ calls'[b][k].node \in DOMAIN memo[b]
           /\ calls'[b][k].next \subseteq calls'[b][k].todo
      /\ \A k, l \in 1 .. Len(calls'[b]) : calls'[b][k].node = calls'[b][l].node => k = l
  BY <1>0, EdgeCall
<1>6. heap[i].succ \in [Actions -> 0 .. Len(heap)] /\ heap[i].inner \in 0 .. Len(heap)
  BY <1>2, <1>3 DEF InstancesTypeOK
<1> HIDE DEF node, i, y
<1>7. /\ \A e \in Actions : node.succ[e] \in 0 .. Len(heap)
      /\ node.inner \in 0 .. Len(heap)
  BY <1>3, <1>6
<1>8. InstancesTypeOK'
  <2>1. /\ frames' \in [Bundles -> Seq(Traversal)]
        /\ \A c \in Bundles : \A k \in 1 .. Len(frames'[c]) :
             frames'[c][k].curr \in 1 .. Len(heap)
        /\ setter' \in [at : {"idle", "between", "done"}, node : 0 .. Len(heap)]
    BY <1>4 DEF InstancesTypeOK
  <2> QED
    BY <1>2, <1>3, <1>4, <1>5, <1>7, <2>1, WriteTyped
<1>9. SameShape(heap', heap) /\ WiringStands' /\ MemoStands'
  BY <1>1, <1>2, <1>3, <1>4, WriteKeeps
<1>10. CallsStand'
  BY <1>1, <1>2, <1>4, <1>5 DEF CallsStand
<1>11. ASSUME NEW c \in Bundles, NEW z \in DOMAIN memo'[c] PROVE CopyStands(c, z)'
  <2>1. z \in DOMAIN memo[c] /\ z \in Template /\ CopyStands(c, z) /\ memo[c][z] \in 1 .. Len(heap)
    BY <1>1, <1>4, Typed DEF CopiesStand
  <2>2. heap'[z].kind = heap[z].kind /\ heap'[z].succ = heap[z].succ
        /\ heap'[z].inner = heap[z].inner
    BY <1>9, <2>1 DEF SameShape
  <2>3. heap'[z] = heap[z]
    <3>1. Template \subseteq 1 .. Len(heap) /\ \A u \in Template : u <= Templates /\ u \in Nat
      BY <1>1, Typed, InstancesAssumption DEF WiringStands, Template
    <3>2. z # i
      BY <1>2, <2>1, <3>1, InstancesAssumption
    <3> QED
      BY <1>3, <2>1, <3>1, <3>2
  <2>4. CASE c = b /\ z = x
    <3>1. ASSUME NEW e \in Actions
          PROVE  IF Pending(b, x, e)'
                 THEN heap'[x].succ[e] # 0 /\ heap'[i].succ[e] = heap'[x].succ[e]
                 ELSE /\ heap'[x].succ[e] \in DOMAIN memo[b] \cup {0}
                      /\ heap'[i].succ[e] = Copied(memo[b], heap'[x].succ[e])
      <4>1. CASE e = a
        <5>1. y # 0
          <6>1. 0 \notin DOMAIN memo[b]
            BY Typed, InstancesAssumption DEF Template
          <6> QED
            BY <1>4, <6>1
        <5>2. ~Pending(b, x, e)'
          BY <1>5, <4>1
        <5>3. heap'[x].succ[e] = y /\ heap'[i].succ[e] = memo[b][y]
          BY <1>3, <2>3, <2>4, <4>1
        <5>4. memo[b][y] = Copied(memo[b], y)
          BY <5>1 DEF Copied
        <5> QED
          BY <1>4, <5>2, <5>3, <5>4
      <4>2. CASE e # a
        <5>1. Pending(b, x, e)' <=> Pending(b, x, e)
          BY <1>5, <4>2
        <5>2. heap'[x].succ[e] = heap[x].succ[e] /\ heap'[i].succ[e] = heap[i].succ[e]
          BY <1>3, <2>3, <2>4, <4>2
        <5>3. IF Pending(b, x, e)
              THEN heap[x].succ[e] # 0 /\ heap[i].succ[e] = heap[x].succ[e]
              ELSE /\ heap[x].succ[e] \in DOMAIN memo[b] \cup {0}
                   /\ heap[i].succ[e] = Copied(memo[b], heap[x].succ[e])
          BY <1>2 DEF CopyStands
        <5> QED
          BY <5>1, <5>2, <5>3
      <4> QED
        BY <4>1, <4>2
    <3>2. memo'[b][x] = i /\ memo'[b] = memo[b] /\ setter' = setter /\ heap'[x] = heap[x]
      BY <1>2, <1>4, <2>3, <2>4
    <3>3. /\ heap[i].kind = heap[x].kind /\ heap[i].inner = heap[x].inner
          /\ setter.at = "idle" => heap[i].own = heap[x].own
      BY <1>2 DEF CopyStands
    <3>4. /\ heap'[i].kind = heap'[x].kind /\ heap'[i].inner = heap'[x].inner
          /\ setter'.at = "idle" => heap'[i].own = heap'[x].own
      BY <1>3, <3>2, <3>3
    <3>5. InCall(b, x)'
      BY <1>2, <1>5
    <3>6. CopyStands(b, x)'
      BY <3>1, <3>2, <3>4, <3>5 DEF CopyStands
    <3> QED
      BY <2>4, <3>6
  <2>5. CASE ~(c = b /\ z = x)
    <3>1. memo[c][z] # i
      BY <1>1, <1>2, <2>1, <2>5 DEF MemoStands
    <3>2. heap'[memo[c][z]] = heap[memo[c][z]]
      BY <1>3, <2>1, <3>1
    <3>3. /\ InCall(c, z)' <=> InCall(c, z)
          /\ \A e \in Actions : Pending(c, z, e)' <=> Pending(c, z, e)
      BY <1>5, <2>5, OtherCalls
    <3> QED
      BY <1>4, <2>1, <2>3, <3>2, <3>3, CopySame
  <2> QED
    BY <2>4, <2>5
<1> QED
  BY <1>8, <1>9, <1>10, <1>11 DEF CloningInv, CopiesStand

\* A new traversal of a bundle.
LEMMA FrameTyped ==
  ASSUME NEW x \in Nat, NEW given \in Dict, NEW token \in Seq(Nat),
         NEW steps \in 0 .. MaxSteps, NEW branch \in BOOLEAN,
         NEW f, f = Frame(x, given, token, steps, branch)
  PROVE  /\ f \in Traversal /\ f.curr = x /\ f.given = given /\ f.branch = branch
         /\ ~f.raced /\ ~InVisit(f)
         /\ f.at = IF branch THEN "enter" ELSE "inject"
BY DEF Frame, Traversal, OwnDict, InVisit

LEMMA UnitDict ==
  \A b \in Bundles : [unit |-> b] \in Dict /\ Range([unit |-> b]) = {b}
<1> SUFFICES ASSUME NEW b \in Bundles
             PROVE  [unit |-> b] \in Dict /\ Range([unit |-> b]) = {b}
  OBVIOUS
<1>1. Range([unit |-> b]) = {b}
  BY DEF Range
<1>2. [unit |-> b] \in [{"unit"} -> Bundles \cup {0}]
  OBVIOUS
<1>3. {"unit"} \in SUBSET Key
  BY DEF Key
<1> QED
  BY <1>1, <1>2, <1>3 DEF Dict

\* The innermost call of clone_node is over.
LEMMA ReturnCall ==
  ASSUME InstancesTypeOK, CloningInv, NEW b \in Bundles, CloneReturns(b)
  PROVE  /\ calls' \in [Bundles -> Seq(CallRecord)]
         /\ \A c \in Bundles : c # b => calls'[c] = calls[c]
         /\ Len(calls[b]) > 1 <=> calls'[b] # <<>>
         /\ \A y : InCall(b, y)' <=> InCall(b, y) /\ y # Call(b).node
         /\ \A y, e : Pending(b, y, e)' <=> Pending(b, y, e)
         /\ \A i \in 1 .. Len(calls'[b]) :
              /\ calls'[b][i].node \in DOMAIN memo[b]
              /\ calls'[b][i].next \subseteq calls'[b][i].todo
         /\ \A i, j \in 1 .. Len(calls'[b]) : calls'[b][i].node = calls'[b][j].node => i = j
<1> DEFINE s == calls[b]
           k == Len(s)
           t == Front(s)
<1>1. /\ Call(b) = s[k] /\ k \in Nat /\ k > 0 /\ Call(b).todo = {}
      /\ s \in Seq(CallRecord) /\ s # <<>>
  BY CallStands, Typed DEF CloneReturns
<1>2. t \in Seq(CallRecord) /\ Len(t) = k - 1 /\ \A i \in 1 .. k - 1 : t[i] = s[i]
  BY <1>1, FrontOfStack
<1>3. calls' = [calls EXCEPT ![b] = t] /\ calls \in [Bundles -> Seq(CallRecord)]
  BY DEF CloneReturns, InstancesTypeOK
<1> HIDE DEF t
<1>4. /\ calls' \in [Bundles -> Seq(CallRecord)] /\ calls'[b] = t
      /\ \A c \in Bundles : c # b => calls'[c] = calls[c]
  BY <1>2, <1>3
<1>5. k > 1 <=> t # <<>>
  BY <1>1, <1>2, EmptySeq
<1>6. /\ \A i \in 1 .. k : s[i].node \in DOMAIN memo[b] /\ s[i].next \subseteq s[i].todo
      /\ \A i, j \in 1 .. k : s[i].node = s[j].node => i = j
  BY DEF CloningInv, CallsStand
<1>7. /\ \A y : InCall(b, y) <=> \E i \in 1 .. k : s[i].node = y
      /\ \A y, e : Pending(b, y, e) <=> \E i \in 1 .. k : s[i].node = y /\ e \in s[i].todo
      /\ \A y : InCall(b, y)' <=> \E i \in 1 .. k - 1 : t[i].node = y
      /\ \A y, e : Pending(b, y, e)' <=> \E i \in 1 .. k - 1 : t[i].node = y /\ e \in t[i].todo
  BY <1>2, <1>4 DEF InCall, Pending
<1> HIDE DEF k, s
<1>8. /\ \A i : i \in 1 .. k <=> i \in 1 .. k - 1 \/ i = k
      /\ k \notin 1 .. k - 1
  BY <1>1
<1>9. \A i \in 1 .. k : s[i].node = Call(b).node <=> i = k
  BY <1>1, <1>6, <1>8
<1>10. ASSUME NEW y PROVE InCall(b, y)' <=> InCall(b, y) /\ y # Call(b).node
  <2>1. (\E i \in 1 .. k - 1 : t[i].node = y) <=>
          (\E i \in 1 .. k : s[i].node = y) /\ y # Call(b).node
    BY <1>2, <1>8, <1>9
  <2> QED
    BY <1>7, <2>1
<1>11. ASSUME NEW y, NEW e PROVE Pending(b, y, e)' <=> Pending(b, y, e)
  <2>1. (\E i \in 1 .. k - 1 : t[i].node = y /\ e \in t[i].todo) <=>
          (\E i \in 1 .. k : s[i].node = y /\ e \in s[i].todo)
    BY <1>1, <1>2, <1>8
  <2> QED
    BY <1>7, <2>1
<1>12. \A i \in 1 .. k - 1 : t[i].node \in DOMAIN memo[b] /\ t[i].next \subseteq t[i].todo
  BY <1>2, <1>6, <1>8
<1>13. \A i, j \in 1 .. k - 1 : t[i].node = t[j].node => i = j
  BY <1>2, <1>6, <1>8
<1> QED
  BY <1>2, <1>4, <1>5, <1>10, <1>11, <1>12, <1>13 DEF k, s

\* What is left of the copy then: its start node.
LEMMA StartNodeWired ==
  ASSUME InstancesTypeOK, CloningInv, NEW b \in Bundles, CloneReturns(b)
  PROVE  LET i == CopyOf(b)
             old == heap[Call(b).node]
         IN  \E node \in NodeRecord :
               /\ heap' = [heap EXCEPT ![i] = node]
               /\ node.kind = heap[i].kind /\ node.succ = heap[i].succ
               /\ node.own = heap[i].own /\ node.inner \in 0 .. Len(heap)
               /\ IF old.kind \in Starts
                  THEN /\ old.inner \in DOMAIN memo[b] \cup {0}
                       /\ node.inner = Copied(memo[b], old.inner)
                  ELSE node.inner = old.inner
<1> DEFINE i == CopyOf(b)
           old == heap[Call(b).node]
           n == heap[i]
<1>1. /\ i \in 1 .. Len(heap) /\ calls[b] # <<>>
      /\ n.kind = old.kind /\ n.inner = old.inner
  BY CallStands DEF CloneReturns, CopyStands
<1>2. n \in NodeRecord /\ heap \in Seq(NodeRecord) /\ n.inner \in 0 .. Len(heap)
  BY <1>1, Typed DEF InstancesTypeOK
<1>3. StartNode(b) = IF old.kind \in Starts THEN old.inner ELSE 0
  BY DEF StartNode, ClonesInner, Starts
<1>4. CASE StartNode(b) = 0 /\ UNCHANGED heap
  <2>1. heap' = [heap EXCEPT ![i] = n]
    BY <1>1, <1>2, <1>4
  <2>2. Copied(memo[b], 0) = 0
    BY DEF Copied
  <2> QED
    BY <1>1, <1>2, <1>3, <1>4, <2>1, <2>2
<1>5. CASE /\ StartNode(b) \in DOMAIN memo[b]
           /\ heap' = [heap EXCEPT ![i].inner = memo[b][StartNode(b)]]
  <2> DEFINE y == memo[b][StartNode(b)]
             node == [n EXCEPT !.inner = y]
  <2>1. y \in 0 .. Len(heap) /\ y \in Nat /\ StartNode(b) # 0
    BY <1>5, Typed, InstancesAssumption DEF Template
  <2>2. heap' = [heap EXCEPT ![i] = node]
    BY <1>5
  <2>3. Copied(memo[b], StartNode(b)) = y
    BY <2>1 DEF Copied
  <2> HIDE DEF y, n
  <2>4. /\ node \in NodeRecord /\ node.kind = n.kind /\ node.succ = n.succ
        /\ node.own = n.own /\ node.inner = y
    BY <1>2, <2>1 DEF NodeRecord
  <2> HIDE DEF node
  <2> QED
    BY <1>1, <1>3, <1>5, <2>1, <2>2, <2>3, <2>4 DEF n
<1> QED
  BY <1>4, <1>5 DEF CloneReturns

\* What the return does to the traversals.
LEMMA ReturnFrames ==
  ASSUME InstancesTypeOK, CloningInv, NEW b \in Bundles, CloneReturns(b)
  PROVE  /\ frames' \in [Bundles -> Seq(Traversal)]
         /\ \A c \in Bundles : c # b => frames'[c] = frames[c]
         /\ calls'[b] # <<>> => frames'[b] = <<>>
         /\ frames'[b] = <<>> \/
              LET f == Frame(memo[b][1], [unit |-> b], Linked, 0, FALSE)
              IN  /\ f \in Traversal /\ frames'[b] = <<f>>
                  /\ f.curr = memo[b][1] /\ f.given = [unit |-> b] /\ ~f.branch
                  /\ ~f.raced /\ ~InVisit(f) /\ f.at = "inject"
         /\ 1 \in DOMAIN memo[b] /\ memo[b] # <<>> /\ memo[b][1] \in 1 .. Len(heap)
         /\ \A c \in Bundles : \A k \in 1 .. Len(frames'[c]) : frames'[c][k].curr \in 1 .. Len(heap)
<1> DEFINE f == Frame(memo[b][1], [unit |-> b], Linked, 0, FALSE)
<1>1. /\ calls[b] # <<>> /\ frames[b] = <<>> /\ Call(b).node \in DOMAIN memo[b]
  BY CallStands DEF CloneReturns
<1>2. 1 \in DOMAIN memo[b] /\ memo[b] # <<>> /\ memo[b][1] \in 1 .. Len(heap)
  BY <1>1, Typed DEF CloningInv, MemoStands
<1>3. /\ f \in Traversal /\ f.curr = memo[b][1] /\ f.given = [unit |-> b] /\ ~f.branch
      /\ ~f.raced /\ ~InVisit(f) /\ f.at = "inject"
  <2>1. [unit |-> b] \in Dict
    BY UnitDict
  <2>2. Linked \in Seq(Nat)
    BY DEF Linked
  <2>3. memo[b][1] \in Nat /\ 0 \in 0 .. MaxSteps
    BY <1>2, Typed, InstancesAssumption
  <2>4. PICK given : given = [unit |-> b]
    OBVIOUS
  <2>5. PICK branch : branch = FALSE
    OBVIOUS
  <2>6. f = Frame(memo[b][1], given, Linked, 0, branch)
    BY <2>4, <2>5
  <2>7. given \in Dict /\ branch \in BOOLEAN
    BY <2>1, <2>4, <2>5
  <2> HIDE DEF f
  <2>8. /\ f \in Traversal /\ f.curr = memo[b][1] /\ f.given = given /\ f.branch = branch
        /\ ~f.raced /\ ~InVisit(f)
        /\ f.at = IF branch THEN "enter" ELSE "inject"
    BY <2>2, <2>3, <2>6, <2>7, FrameTyped
  <2> QED
    BY <2>4, <2>5, <2>8
<1>4. frames' = IF Len(calls[b]) > 1 THEN frames ELSE [frames EXCEPT ![b] = <<f>>]
  BY DEF CloneReturns
<1> HIDE DEF f
<1>5. <<f>> \in Seq(Traversal) /\ Len(<<f>>) = 1 /\ <<f>>[1] = f
  BY <1>3
<1>6. /\ frames \in [Bundles -> Seq(Traversal)]
      /\ \A c \in Bundles : \A k \in 1 .. Len(frames[c]) : frames[c][k].curr \in 1 .. Len(heap)
  BY DEF InstancesTypeOK
<1>7. Len(calls[b]) > 1 <=> calls'[b] # <<>>
  BY ReturnCall
<1>8. /\ frames' \in [Bundles -> Seq(Traversal)]
      /\ \A c \in Bundles : c # b => frames'[c] = frames[c]
      /\ calls'[b] # <<>> => frames'[b] = <<>>
      /\ frames'[b] = <<>> \/ frames'[b] = <<f>>
  BY <1>1, <1>4, <1>5, <1>6, <1>7
<1>9. ASSUME NEW c \in Bundles, NEW k \in 1 .. Len(frames'[c])
      PROVE  frames'[c][k].curr \in 1 .. Len(heap)
  <2>1. CASE c = b /\ frames'[b] = <<f>>
    <3>1. frames'[c][k] = f
      BY <1>5, <2>1
    <3> QED
      BY <1>2, <1>3, <3>1
  <2>2. CASE c # b \/ frames'[b] = <<>>
    <3>1. frames'[c] = frames[c]
      BY <1>1, <1>8, <2>2
    <3> QED
      BY <1>6, <3>1
  <2> QED
    BY <1>8, <2>1, <2>2
<1> QED
  BY <1>2, <1>3, <1>8, <1>9 DEF f

LEMMA ReturnClones ==
  ASSUME InstancesTypeOK, CloningInv, NEW b \in Bundles, CloneReturns(b)
  PROVE  /\ InstancesTypeOK' /\ CloningInv'
         /\ Branches' = Branches /\ \A x \in Template : Within(x)' = Within(x)
         /\ \A j \in 1 .. Len(heap) : j # CopyOf(b) => heap'[j] = heap[j]
<1> DEFINE i == CopyOf(b)
<1>0. PICK x : x = Call(b).node
  OBVIOUS
<1>1. WiringStands /\ MemoStands /\ CallsStand /\ CopiesStand
  BY DEF CloningInv
<1>2. /\ x \in DOMAIN memo[b] /\ x \in Template /\ i = memo[b][x] /\ i \in 1 .. Len(heap)
      /\ i > Templates /\ CopyStands(b, x) /\ frames[b] = <<>>
  BY <1>0, CallStands DEF CloneReturns
<1>3. \E node \in NodeRecord :
        /\ heap' = [heap EXCEPT ![i] = node]
        /\ node.kind = heap[i].kind /\ node.succ = heap[i].succ
        /\ node.own = heap[i].own /\ node.inner \in 0 .. Len(heap)
        /\ IF heap[x].kind \in Starts
           THEN /\ heap[x].inner \in DOMAIN memo[b] \cup {0}
                /\ node.inner = Copied(memo[b], heap[x].inner)
           ELSE node.inner = heap[x].inner
  BY <1>0, StartNodeWired
<1>4. PICK node \in NodeRecord :
        /\ heap' = [heap EXCEPT ![i] = node]
        /\ node.kind = heap[i].kind /\ node.succ = heap[i].succ
        /\ node.own = heap[i].own /\ node.inner \in 0 .. Len(heap)
        /\ IF heap[x].kind \in Starts
           THEN /\ heap[x].inner \in DOMAIN memo[b] \cup {0}
                /\ node.inner = Copied(memo[b], heap[x].inner)
           ELSE node.inner = heap[x].inner
  BY <1>3
<1>5. UNCHANGED <<memo, setter>>
  BY DEF CloneReturns
<1>6. /\ calls' \in [Bundles -> Seq(CallRecord)]
      /\ \A c \in Bundles : c # b => calls'[c] = calls[c]
      /\ \A z : InCall(b, z)' <=> InCall(b, z) /\ z # x
      /\ \A z, e : Pending(b, z, e)' <=> Pending(b, z, e)
      /\ \A k \in 1 .. Len(calls'[b]) :
           /\ calls'[b][k].node \in DOMAIN memo[b]
           /\ calls'[b][k].next \subseteq calls'[b][k].todo
      /\ \A k, l \in 1 .. Len(calls'[b]) : calls'[b][k].node = calls'[b][l].node => k = l
  BY <1>0, ReturnCall
<1>7. /\ frames' \in [Bundles -> Seq(Traversal)] /\ memo[b] # <<>>
      /\ \A c \in Bundles : c # b => frames'[c] = frames[c]
      /\ calls'[b] # <<>> => frames'[b] = <<>>
      /\ \A c \in Bundles : \A k \in 1 .. Len(frames'[c]) : frames'[c][k].curr \in 1 .. Len(heap)
  BY ReturnFrames
<1> HIDE DEF i
<1>8. /\ Len(heap') = Len(heap) /\ heap'[i] = node
      /\ \A j \in 1 .. Len(heap) : j # i => heap'[j] = heap[j]
  BY <1>2, <1>4, Typed, HeapWritten
<1>9. InstancesTypeOK'
  <2>1. \A e \in Actions : node.succ[e] \in 0 .. Len(heap)
    BY <1>2, <1>4 DEF InstancesTypeOK
  <2>2. setter' \in [at : {"idle", "between", "done"}, node : 0 .. Len(heap)]
    BY <1>5 DEF InstancesTypeOK
  <2> QED
    BY <1>2, <1>4, <1>5, <1>6, <1>7, <2>1, <2>2, WriteTyped
<1>10. /\ SameShape(heap', heap) /\ WiringStands' /\ MemoStands'
       /\ Branches' = Branches /\ \A z \in Template : Within(z)' = Within(z)
  BY <1>1, <1>2, <1>4, <1>5, WriteKeeps
<1>11. CallsStand'
  BY <1>1, <1>5, <1>6, <1>7 DEF CallsStand
<1>12. ASSUME NEW c \in Bundles, NEW z \in DOMAIN memo'[c] PROVE CopyStands(c, z)'
  <2>1. z \in DOMAIN memo[c] /\ z \in Template /\ CopyStands(c, z) /\ memo[c][z] \in 1 .. Len(heap)
    BY <1>1, <1>5, Typed DEF CopiesStand
  <2>2. heap'[z] = heap[z]
    <3>1. Template \subseteq 1 .. Len(heap) /\ \A u \in Template : u <= Templates /\ u \in Nat
      BY <1>1, Typed, InstancesAssumption DEF WiringStands, Template
    <3>2. z # i
      BY <1>2, <2>1, <3>1, InstancesAssumption
    <3> QED
      BY <1>8, <2>1, <3>1, <3>2
  <2>3. CASE c = b /\ z = x
    <3>1. memo'[b][x] = i /\ memo'[b] = memo[b] /\ setter' = setter /\ heap'[x] = heap[x]
      BY <1>2, <1>5, <2>2, <2>3
    <3>2. ASSUME NEW e \in Actions
          PROVE  IF Pending(b, x, e)'
                 THEN heap'[x].succ[e] # 0 /\ heap'[i].succ[e] = heap'[x].succ[e]
                 ELSE /\ heap'[x].succ[e] \in DOMAIN memo[b] \cup {0}
                      /\ heap'[i].succ[e] = Copied(memo[b], heap'[x].succ[e])
      <4>1. Pending(b, x, e)' <=> Pending(b, x, e)
        BY <1>6
      <4>2. IF Pending(b, x, e)
            THEN heap[x].succ[e] # 0 /\ heap[i].succ[e] = heap[x].succ[e]
            ELSE /\ heap[x].succ[e] \in DOMAIN memo[b] \cup {0}
                 /\ heap[i].succ[e] = Copied(memo[b], heap[x].succ[e])
        BY <1>2 DEF CopyStands
      <4> QED
        BY <1>4, <1>8, <3>1, <4>1, <4>2
    <3>3. /\ heap[i].kind = heap[x].kind
          /\ setter.at = "idle" => heap[i].own = heap[x].own
      BY <1>2 DEF CopyStands
    <3>4. /\ heap'[i].kind = heap'[x].kind
          /\ setter'.at = "idle" => heap'[i].own = heap'[x].own
          /\ IF heap'[x].kind \in Starts
             THEN /\ heap'[x].inner \in DOMAIN memo[b] \cup {0}
                  /\ heap'[i].inner = Copied(memo[b], heap'[x].inner)
             ELSE heap'[i].inner = heap'[x].inner
      BY <1>4, <1>8, <3>1, <3>3
    <3>5. ~InCall(b, x)'
      BY <1>6
    <3>6. CopyStands(b, x)'
      BY <3>1, <3>2, <3>4, <3>5 DEF CopyStands
    <3> QED
      BY <2>3, <3>6
  <2>4. CASE ~(c = b /\ z = x)
    <3>1. memo[c][z] # i
      BY <1>1, <1>2, <2>1, <2>4 DEF MemoStands
    <3>2. heap'[memo[c][z]] = heap[memo[c][z]]
      BY <1>8, <2>1, <3>1
    <3>3. /\ InCall(c, z)' <=> InCall(c, z)
          /\ \A e \in Actions : Pending(c, z, e)' <=> Pending(c, z, e)
      BY <1>6, <2>4, OtherCalls
    <3> QED
      BY <1>5, <2>1, <2>2, <3>2, <3>3, CopySame
  <2> QED
    BY <2>3, <2>4
<1> QED
  BY <1>8, <1>9, <1>10, <1>11, <1>12 DEF CloningInv, CopiesStand, i

--------------------------------------------------------------------------------
(***************************************************************************)
(* The traversals of the bundles while a step is taken elsewhere.           *)
(***************************************************************************)

LEMMA BranchesStand ==
  ASSUME WiringStands
  PROVE  /\ Branches \subseteq Template /\ ClosedIn(heap, Kind, Branches)
         /\ \A x \in Template : heap[x].kind \in {"fork", "sub"} => heap[x].inner \in Branches \cup {0}
         /\ \A x \in Template : /\ Within(x) \subseteq Template /\ x \notin Within(x)
                                /\ heap[x].inner \in Within(x) \cup {0}
                                /\ ClosedIn(heap, Kind, Within(x))
<1> DEFINE roots == {heap[x].inner : x \in {y \in Template : heap[y].kind \in {"fork", "sub"}}}
<1>1. Wired(heap)
  BY DEF WiringStands, Wired
<1>2. roots \subseteq 0 .. Templates
  BY <1>1 DEF Wired
<1>3. Branches = Reached(heap, roots, Kind)
  BY DEF Branches
<1>4. \A x \in Template : heap[x].kind \in {"fork", "sub"} => heap[x].inner \in roots
  OBVIOUS
<1> HIDE DEF roots
<1>5. /\ Branches \subseteq Template /\ ClosedIn(heap, Kind, Branches)
      /\ roots \subseteq Branches \cup {0}
  BY <1>1, <1>2, <1>3, ReachedIsClosed
<1>6. ASSUME NEW x \in Template
      PROVE  /\ Within(x) \subseteq Template /\ x \notin Within(x)
             /\ heap[x].inner \in Within(x) \cup {0}
             /\ ClosedIn(heap, Kind, Within(x))
  <2>1. {heap[x].inner} \subseteq 0 .. Templates
    BY <1>1 DEF Wired
  <2>2. x \notin Within(x)
    BY DEF WiringStands, Within
  <2> QED
    BY <1>1, <2>1, <2>2, ReachedIsClosed DEF Within
<1> QED
  BY <1>4, <1>5, <1>6

\* A copy is no template, and no other bundle's copy.
LEMMA CopiesApart ==
  ASSUME InstancesTypeOK, WiringStands, MemoStands
  PROVE  /\ \A b \in Bundles : /\ Range(memo[b]) \subseteq 1 .. Len(heap)
                               /\ Range(memo[b]) \cap Template = {}
                               /\ Range(memo[b]) \cap Branches = {}
                               /\ \A y \in Range(memo[b]) : y > Templates
         /\ \A b, c \in Bundles : b # c => Range(memo[b]) \cap Range(memo[c]) = {}
<1>1. ASSUME NEW b \in Bundles, NEW y \in Range(memo[b])
      PROVE  y \in 1 .. Len(heap) /\ y > Templates /\ y \notin Template
  <2>1. PICK x \in DOMAIN memo[b] : y = memo[b][x]
    BY DEF Range
  <2>2. y > Templates /\ y \in 1 .. Len(heap) /\ Len(heap) \in Nat
    BY <2>1, Typed DEF MemoStands
  <2> QED
    BY <2>2, InstancesAssumption DEF Template
<1>2. Branches \subseteq Template
  BY BranchesStand
<1>3. \A b, c \in Bundles : b # c => Range(memo[b]) \cap Range(memo[c]) = {}
  BY DEF Range, MemoStands
<1> QED
  BY <1>1, <1>2, <1>3

LEMMA FrameSame ==
  ASSUME NEW c \in Bundles, NEW f, FrameStands(c, f), memo'[c] = memo[c],
         Branches' = Branches, setter' = setter,
         heap'[f.curr].kind = heap[f.curr].kind,
         \/ f.curr \in Branches
         \/ /\ heap'[f.curr].own = heap[f.curr].own
            /\ heap'[f.curr].params = heap[f.curr].params
            /\ heap'[f.curr].signal = heap[f.curr].signal
  PROVE  FrameStands(c, f)'
<1>1. Located(c, f)'
  BY DEF FrameStands, Located
<1>2. RacedStands(f)' <=> RacedStands(f)
  BY DEF RacedStands
<1>3. f.curr \notin Branches => VisitStands(c, f)'
  BY <1>2 DEF FrameStands, VisitStands
<1> QED
  BY <1>1, <1>3 DEF FrameStands

LEMMA StackSame ==
  ASSUME NEW c \in Bundles, StackStands(c), frames'[c] = frames[c], memo'[c] = memo[c],
         Branches' = Branches, \A x \in Template : Within(x)' = Within(x), setter' = setter,
         \A i \in 1 .. Len(frames[c]) :
           LET y == frames[c][i].curr
           IN  /\ heap'[y].kind = heap[y].kind
               /\ \/ y \in Branches
                  \/ /\ heap'[y].own = heap[y].own
                     /\ heap'[y].params = heap[y].params
                     /\ heap'[y].signal = heap[y].signal
  PROVE  StackStands(c)'
<1>1. ASSUME NEW i \in 1 .. Len(frames'[c])
      PROVE  /\ FrameStands(c, frames[c][i])'
             /\ i < Len(frames'[c]) => frames'[c][i].at = "inside"
  <2>1. PICK f : f = frames[c][i]
    OBVIOUS
  <2>2. FrameStands(c, f)
    BY <2>1 DEF StackStands
  <2>3. FrameStands(c, f)'
    BY <2>1, <2>2, FrameSame
  <2>4. frames'[c][i] = f
    BY <2>1
  <2>5. i < Len(frames'[c]) => frames'[c][i].at = "inside"
    BY DEF StackStands
  <2> QED
    BY <2>3, <2>4, <2>5 DEF FrameStands, VisitStands, RacedStands, Located
<1>2. NestStands(c)'
  BY DEF StackStands, NestStands, IsOf
<1> QED
  BY <1>1, <1>2 DEF StackStands

--------------------------------------------------------------------------------
(***************************************************************************)
(* Dicts.                                                                   *)
(***************************************************************************)

LEMMA DictIs ==
  \A d : d \in Dict <=> DOMAIN d \subseteq Key /\ d \in [DOMAIN d -> Bundles \cup {0}]
<1>1. ASSUME NEW d \in Dict
      PROVE  DOMAIN d \subseteq Key /\ d \in [DOMAIN d -> Bundles \cup {0}]
  <2>1. PICK keys \in SUBSET Key : d \in [keys -> Bundles \cup {0}]
    BY DEF Dict
  <2> QED
    BY <2>1
<1>2. ASSUME NEW d, DOMAIN d \subseteq Key, d \in [DOMAIN d -> Bundles \cup {0}]
      PROVE  d \in Dict
  <2>1. DOMAIN d \in SUBSET Key
    BY <1>2
  <2> QED
    BY <1>2, <2>1 DEF Dict
<1> QED
  BY <1>1, <1>2

\* A node's own params are a dict of the user's values.
LEMMA OwnDictIs ==
  \A own \in OwnDict : own # NoOwn =>
    own \in Dict /\ own \in [DOMAIN own -> {0}] /\ Range(own) \subseteq {0}
<1> SUFFICES ASSUME NEW own \in OwnDict, own # NoOwn
             PROVE  own \in Dict /\ own \in [DOMAIN own -> {0}] /\ Range(own) \subseteq {0}
  OBVIOUS
<1>1. PICK keys \in SUBSET Key : own \in [keys -> {0}]
  BY DEF OwnDict
<1>2. own \in Dict
  BY <1>1, DictIs
<1> QED
  BY <1>1, <1>2 DEF Range

LEMMA OverDict ==
  ASSUME NEW d \in Dict, NEW e \in Dict
  PROVE  Over(d, e) \in Dict /\ Range(Over(d, e)) \subseteq Range(d) \cup Range(e)
<1> DEFINE o == Over(d, e)
<1>1. /\ DOMAIN o = DOMAIN d \cup DOMAIN e
      /\ \A k \in DOMAIN o : o[k] = IF k \in DOMAIN d THEN d[k] ELSE e[k]
      /\ o = [k \in DOMAIN o |-> o[k]]
  BY DEF Over
<1>2. /\ DOMAIN d \subseteq Key /\ d \in [DOMAIN d -> Bundles \cup {0}]
      /\ DOMAIN e \subseteq Key /\ e \in [DOMAIN e -> Bundles \cup {0}]
  BY DictIs
<1> HIDE DEF o
<1>3. \A k \in DOMAIN o : o[k] \in Bundles \cup {0}
  BY <1>1, <1>2
<1>4. o \in Dict
  BY <1>1, <1>2, <1>3, DictIs
<1>5. Range(o) \subseteq Range(d) \cup Range(e)
  BY <1>1 DEF Range
<1> QED
  BY <1>4, <1>5 DEF o

\* What inject_params writes is what the node is to read.
LEMMA InjectedIs ==
  ASSUME NEW given \in Dict, NEW own \in OwnDict
  PROVE  /\ Injected(given, own) \in Dict /\ Injected(given, own) = Expected(given, own)
         /\ Range(Expected(given, own)) \subseteq Range(given) \cup {0}
<1>1. CASE own = NoOwn
  <2>1. given = [k \in DOMAIN given |-> given[k]]
    BY DictIs
  <2>2. Expected(given, own) = given
    BY <1>1, <2>1 DEF Expected
  <2> QED
    BY <1>1, <2>2 DEF Injected
<1>2. CASE own # NoOwn
  <2>1. own \in Dict /\ Range(own) \subseteq {0}
    BY <1>2, OwnDictIs
  <2>2. Injected(given, own) = Over(own, given)
    BY <1>2 DEF Injected
  <2>3. Expected(given, own) = Over(own, given)
    <3>1. DOMAIN own \cup DOMAIN given = DOMAIN given \cup DOMAIN own
      OBVIOUS
    <3> QED
      BY <1>2, <3>1 DEF Expected, Over
  <2> QED
    BY <2>1, <2>2, <2>3, OverDict
<1> QED
  BY <1>1, <1>2

LEMMA NewOwnIs ==
  NewOwn \in Dict /\ NewOwn \in OwnDict /\ NewOwn # NoOwn /\ Range(NewOwn) \subseteq {0}
<1>1. NewOwn \in [{"mode"} -> {0}] /\ {"mode"} \in SUBSET Key
  BY DEF NewOwn, Key
<1>2. NewOwn \in OwnDict
  BY <1>1 DEF OwnDict
<1>3. NewOwn # NoOwn
  <2>1. DOMAIN NewOwn = {"mode"} /\ DOMAIN NoOwn = {"none"}
    BY DEF NewOwn, NoOwn
  <2> QED
    BY <2>1
<1> QED
  BY <1>2, <1>3, OwnDictIs

\* What a node gives to the nodes it has others run.
LEMMA GivesIs ==
  ASSUME NEW b \in Bundles, NEW node \in NodeRecord
  PROVE  /\ Gives(b, node) \in Dict
         /\ Range(node.params) \subseteq {b, 0} => Range(Gives(b, node)) \subseteq {b, 0}
<1>1. node.params \in Dict
  BY DEF NodeRecord
<1>2. PICK part : part = [part |-> b]
  OBVIOUS
<1>3. part \in Dict /\ Range(part) = {b}
  <2>1. part \in [{"part"} -> Bundles \cup {0}] /\ DOMAIN part = {"part"} /\ "part" \in Key
    BY <1>2 DEF Key
  <2>2. Range(part) = {b}
    BY <1>2 DEF Range
  <2> QED
    BY <2>1, <2>2, DictIs
<1>4. Gives(b, node) = IF node.kind = "batch" THEN Over(part, node.params) ELSE node.params
  BY <1>2 DEF Gives
<1>5. Over(part, node.params) \in Dict
      /\ Range(Over(part, node.params)) \subseteq {b} \cup Range(node.params)
  BY <1>1, <1>3, OverDict
<1> QED
  BY <1>1, <1>4, <1>5

--------------------------------------------------------------------------------
(***************************************************************************)
(* The instances that a bundle visits.                                      *)
(***************************************************************************)

\* What a bundle visits: its copies, and the branches.
Visited(b) == Range(memo[b]) \cup Branches

\* An instance is one of exactly one node that the user wired.
LEMMA Origin ==
  ASSUME InstancesTypeOK, CloningInv, NEW b \in Bundles, NEW y \in Visited(b)
  PROVE  /\ \E x \in Template : IsOf(b, y, x)
         /\ \A x, z \in Template : IsOf(b, y, x) /\ IsOf(b, y, z) => x = z
         /\ y \notin Branches <=> y \in Range(memo[b])
<1>1. WiringStands /\ MemoStands
  BY DEF CloningInv
<1>2. /\ Range(memo[b]) \cap Template = {} /\ Range(memo[b]) \cap Branches = {}
      /\ Branches \subseteq Template /\ DOMAIN memo[b] \subseteq Template
  BY <1>1, CopiesApart, BranchesStand, Typed
<1>3. CASE y \in Branches
  <2>1. \A x \in Template : x \in DOMAIN memo[b] => y # memo[b][x]
    BY <1>2, <1>3 DEF Range
  <2> QED
    BY <1>2, <1>3, <2>1 DEF IsOf
<1>4. CASE y \in Range(memo[b])
  <2>1. PICK x \in DOMAIN memo[b] : y = memo[b][x]
    BY <1>4 DEF Range
  <2>2. \A z \in DOMAIN memo[b] : y = memo[b][z] => x = z
    BY <1>1, <2>1 DEF MemoStands
  <2> QED
    BY <1>2, <1>4, <2>1, <2>2 DEF IsOf
<1> QED
  BY <1>3, <1>4 DEF Visited

\* An instance leads where its node does: a copy's edges and start node to
\* copies of the same bundle, its branch and all of a branch to branches.
LEMMA LeadsTo ==
  ASSUME InstancesTypeOK, CloningInv, NEW b \in Bundles, calls[b] = <<>>,
         NEW y \in Visited(b), NEW x \in Template, IsOf(b, y, x)
  PROVE  /\ heap[y].kind = heap[x].kind
         /\ \A a \in Actions : heap[y].succ[a] # 0 =>
              /\ heap[x].succ[a] \in Template /\ IsOf(b, heap[y].succ[a], heap[x].succ[a])
              /\ heap[y].succ[a] \in Visited(b)
              /\ y \in Branches <=> heap[y].succ[a] \in Branches
         /\ heap[y].inner # 0 /\ heap[y].kind # "plain" =>
              /\ heap[x].inner \in Template /\ IsOf(b, heap[y].inner, heap[x].inner)
              /\ heap[y].inner \in Visited(b)
              /\ heap[y].kind \in {"fork", "sub"} \/ y \in Branches
                   <=> heap[y].inner \in Branches
<1>1. WiringStands /\ MemoStands /\ CopiesStand
  BY DEF CloningInv
<1>2. /\ Range(memo[b]) \cap Template = {} /\ Range(memo[b]) \cap Branches = {}
      /\ Branches \subseteq Template /\ DOMAIN memo[b] \subseteq Template
      /\ ClosedIn(heap, Kind, Branches)
      /\ \A z \in Template : heap[z].kind \in {"fork", "sub"} => heap[z].inner \in Branches \cup {0}
      /\ 0 \notin Template
  BY <1>1, CopiesApart, BranchesStand, Typed, InstancesAssumption DEF Template
<1>3. heap[x].kind \in Kind
  <2>1. x \in 1 .. Len(heap)
    BY <1>1, Typed, InstancesAssumption DEF WiringStands, Template
  <2> QED
    BY <2>1, Typed DEF NodeRecord
<1>4. CASE y \in Branches
  <2>1. y = x
    BY <1>2, <1>4 DEF IsOf, Range
  <2>2. ASSUME NEW a \in Actions, heap[y].succ[a] # 0
        PROVE  heap[y].succ[a] \in Branches
    BY <1>2, <1>4, <2>2 DEF ClosedIn
  <2>3. heap[y].inner # 0 => heap[y].inner \in Branches
    BY <1>2, <1>3, <1>4, <2>1 DEF ClosedIn
  <2> QED
    BY <1>2, <1>4, <2>1, <2>2, <2>3 DEF IsOf, Visited
<1>5. CASE y \in Range(memo[b])
  <2>1. x \in DOMAIN memo[b] /\ y = memo[b][x] /\ y \notin Branches
    BY <1>2, <1>5 DEF IsOf
  <2>2. CopyStands(b, x)
    BY <1>1, <2>1 DEF CopiesStand
  <2>3. ~InCall(b, x) /\ \A a : ~Pending(b, x, a)
    <3>1. Len(calls[b]) = 0
      OBVIOUS
    <3> QED
      BY <3>1 DEF InCall, Pending
  <2>4. ASSUME NEW z \in DOMAIN memo[b] \cup {0}, Copied(memo[b], z) # 0
        PROVE  /\ z \in DOMAIN memo[b] /\ z \in Template
               /\ Copied(memo[b], z) = memo[b][z] /\ Copied(memo[b], z) \in Range(memo[b])
    BY <1>2, <2>4 DEF Copied, Range
  <2>5. ASSUME NEW a \in Actions, heap[y].succ[a] # 0
        PROVE  /\ heap[x].succ[a] \in Template /\ IsOf(b, heap[y].succ[a], heap[x].succ[a])
               /\ heap[y].succ[a] \in Range(memo[b])
    <3>1. /\ heap[x].succ[a] \in DOMAIN memo[b] \cup {0}
          /\ heap[y].succ[a] = Copied(memo[b], heap[x].succ[a])
      BY <2>1, <2>2, <2>3 DEF CopyStands
    <3> QED
      BY <2>4, <2>5, <3>1 DEF IsOf
  <2>6. ASSUME heap[y].inner # 0, heap[x].kind \in Starts
        PROVE  /\ heap[x].inner \in Template /\ IsOf(b, heap[y].inner, heap[x].inner)
               /\ heap[y].inner \in Range(memo[b])
    <3>1. /\ heap[x].inner \in DOMAIN memo[b] \cup {0}
          /\ heap[y].inner = Copied(memo[b], heap[x].inner)
      BY <2>1, <2>2, <2>3, <2>6 DEF CopyStands
    <3> QED
      BY <2>4, <2>6, <3>1 DEF IsOf
  <2>7. ASSUME heap[y].inner # 0, heap[x].kind \notin Starts, heap[x].kind # "plain"
        PROVE  /\ heap[x].inner \in Template /\ IsOf(b, heap[y].inner, heap[x].inner)
               /\ heap[y].inner \in Branches /\ heap[x].kind \in {"fork", "sub"}
    <3>1. heap[y].inner = heap[x].inner
      BY <2>1, <2>2, <2>3, <2>7 DEF CopyStands
    <3>2. heap[x].kind \in {"fork", "sub"}
      BY <1>3, <2>7 DEF Kind, Starts
    <3> QED
      BY <1>2, <2>7, <3>1, <3>2 DEF IsOf
  <2>8. heap[y].kind = heap[x].kind
    BY <2>1, <2>2 DEF CopyStands
  <2>9. heap[x].kind \in Starts => heap[x].kind \notin {"fork", "sub"}
    BY DEF Starts
  <2>10. \A z \in Range(memo[b]) : z \in Visited(b) /\ z \notin Branches
    BY <1>2 DEF Visited
  <2>11. Branches \subseteq Visited(b)
    BY DEF Visited
  <2> QED
    BY <2>1, <2>5, <2>6, <2>7, <2>8, <2>9, <2>10, <2>11
<1> QED
  BY <1>4, <1>5 DEF Visited

\* A step after the clones are made: no shape is touched, and own params only
\* by another thread.
LEMMA QuietClones ==
  ASSUME InstancesTypeOK, CloningInv, UNCHANGED <<calls, memo>>,
         Len(heap') = Len(heap),
         \A j \in 1 .. Len(heap) :
           /\ heap'[j].kind = heap[j].kind /\ heap'[j].succ = heap[j].succ
           /\ heap'[j].inner = heap[j].inner
           /\ setter'.at = "idle" => setter.at = "idle" /\ heap'[j].own = heap[j].own,
         \A b \in Bundles : /\ calls[b] # <<>> => frames'[b] = <<>>
                            /\ frames'[b] # <<>> => memo[b] # <<>>
  PROVE  /\ CloningInv'
         /\ Branches' = Branches /\ \A x \in Template : Within(x)' = Within(x)
<1>1. WiringStands /\ MemoStands /\ CallsStand /\ CopiesStand
  BY DEF CloningInv
<1>2. Templates <= Len(heap) /\ \A x \in Template : x \in 1 .. Len(heap)
  BY <1>1, Typed, InstancesAssumption DEF WiringStands, Template
<1>3. SameShape(heap', heap)
  BY <1>2 DEF SameShape
<1>4. /\ WiringStands' /\ Reached(heap, {1}, Starts)' = Reached(heap, {1}, Starts)
      /\ Branches' = Branches /\ \A x \in Template : Within(x)' = Within(x)
  BY <1>1, <1>2, <1>3, WiringKeeps
<1>5. MemoStands'
  BY <1>1, <1>4 DEF MemoStands
<1>6. CallsStand'
  BY <1>1 DEF CallsStand
<1>7. ASSUME NEW c \in Bundles, NEW z \in DOMAIN memo'[c] PROVE CopyStands(c, z)'
  <2>1. z \in DOMAIN memo[c] /\ z \in 1 .. Len(heap) /\ memo[c][z] \in 1 .. Len(heap)
    BY <1>2, Typed
  <2>2. CopyStands(c, z) /\ calls'[c] = calls[c] /\ memo'[c] = memo[c]
    BY <1>1, <2>1 DEF CopiesStand
  <2>3. /\ InCall(c, z)' <=> InCall(c, z)
        /\ \A e \in Actions : Pending(c, z, e)' <=> Pending(c, z, e)
    BY <2>2, OtherCalls
  <2>4. setter'.at = "idle" =>
           /\ setter.at = "idle"
           /\ heap'[z].own = heap[z].own
           /\ heap'[memo[c][z]].own = heap[memo[c][z]].own
    BY <2>1
  <2> QED
    BY <2>1, <2>2, <2>3, <2>4, CopySame
<1> QED
  BY <1>4, <1>5, <1>6, <1>7 DEF CloningInv, CopiesStand

--------------------------------------------------------------------------------
(***************************************************************************)
(* A bundle that runs.                                                      *)
(***************************************************************************)

\* The innermost traversal.
LEMMA TopStands ==
  ASSUME InstancesInv, NEW b \in Bundles, frames[b] # <<>>
  PROVE  /\ frames[b] \in Seq(Traversal) /\ Len(frames[b]) \in Nat /\ Len(frames[b]) > 0
         /\ Top(b) = frames[b][Len(frames[b])] /\ Top(b) \in Traversal
         /\ FrameStands(b, Top(b)) /\ StackStands(b)
         /\ Top(b).curr \in 1 .. Len(heap) /\ Top(b).curr \in Visited(b)
         /\ heap[Top(b).curr] \in NodeRecord
         /\ calls[b] = <<>> /\ memo[b] # <<>>
<1>1. frames[b] \in Seq(Traversal)
  BY Typed DEF InstancesInv
<1>2. /\ Len(frames[b]) \in Nat /\ Len(frames[b]) > 0
      /\ Top(b) = frames[b][Len(frames[b])] /\ Top(b) \in Traversal
  BY <1>1, FrontOfStack DEF Top
<1>3. Len(frames[b]) \in 1 .. Len(frames[b])
  BY <1>2
<1>4. StackStands(b) /\ FrameStands(b, Top(b))
  BY <1>2, <1>3 DEF InstancesInv, VisitsInv, StackStands
<1>5. Top(b).curr \in 1 .. Len(heap)
  BY <1>2, <1>3 DEF InstancesInv, InstancesTypeOK
<1>6. Top(b).curr \in Visited(b)
  BY <1>4 DEF FrameStands, Located, Visited
<1>7. calls[b] = <<>> /\ memo[b] # <<>>
  BY DEF InstancesInv, CloningInv, CallsStand
<1>8. heap[Top(b).curr] \in NodeRecord
  BY <1>5, Typed DEF InstancesInv
<1> QED
  BY <1>1, <1>2, <1>4, <1>5, <1>6, <1>7, <1>8

\* What a step of bundle b leaves as it is.
LEMMA RunKeeps ==
  ASSUME InstancesInv, NEW b \in Bundles, frames[b] # <<>>, UNCHANGED <<calls, memo, setter>>,
         NEW t \in Seq(Traversal), frames' = [frames EXCEPT ![b] = t],
         \A k \in 1 .. Len(t) : t[k].curr \in 1 .. Len(heap),
         heap' \in Seq(NodeRecord), Len(heap') = Len(heap),
         \A j \in 1 .. Len(heap) :
           /\ heap'[j].kind = heap[j].kind /\ heap'[j].succ = heap[j].succ
           /\ heap'[j].inner = heap[j].inner /\ heap'[j].own = heap[j].own
           /\ j # Top(b).curr => /\ heap'[j].params = heap[j].params
                                 /\ heap'[j].signal = heap[j].signal
  PROVE  /\ InstancesTypeOK' /\ CloningInv' /\ SetterStands'
         /\ Branches' = Branches /\ \A x \in Template : Within(x)' = Within(x)
         /\ frames'[b] = t
         /\ \A c \in Bundles : c # b => StackStands(c)'
         /\ \A i \in 1 .. Len(frames[b]) - 1 : \A f : f = frames[b][i] => FrameStands(b, f)'
<1>1. InstancesTypeOK /\ CloningInv /\ VisitsInv /\ WiringStands /\ MemoStands
  BY DEF InstancesInv, CloningInv
<1>2. frames \in [Bundles -> Seq(Traversal)]
  BY <1>1 DEF InstancesTypeOK
<1>3. /\ frames' \in [Bundles -> Seq(Traversal)] /\ frames'[b] = t
      /\ \A c \in Bundles : c # b => frames'[c] = frames[c]
  BY <1>2
<1>4. InstancesTypeOK'
  <2>1. \A c \in Bundles : \A k \in 1 .. Len(frames'[c]) : frames'[c][k].curr \in 1 .. Len(heap')
    BY <1>1, <1>3 DEF InstancesTypeOK
  <2> QED
    BY <1>1, <1>3, <2>1 DEF InstancesTypeOK
<1>5. /\ CloningInv' /\ Branches' = Branches /\ \A x \in Template : Within(x)' = Within(x)
  <2>1. \A c \in Bundles : /\ calls[c] # <<>> => frames'[c] = <<>>
                           /\ frames'[c] # <<>> => memo[c] # <<>>
    BY <1>1, <1>3, TopStands DEF CloningInv, CallsStand
  <2> QED
    BY <1>1, <2>1, QuietClones
<1>6. SetterStands'
  BY <1>1 DEF VisitsInv, SetterStands
<1>7. Top(b).curr \in Visited(b)
  BY TopStands
<1>8. ASSUME NEW c \in Bundles, c # b PROVE StackStands(c)'
  <2>1. ASSUME NEW i \in 1 .. Len(frames[c])
        PROVE  LET y == frames[c][i].curr
               IN  /\ heap'[y].kind = heap[y].kind
                   /\ \/ y \in Branches
                      \/ /\ heap'[y].own = heap[y].own
                         /\ heap'[y].params = heap[y].params
                         /\ heap'[y].signal = heap[y].signal
    <3> DEFINE y == frames[c][i].curr
    <3>1. y \in 1 .. Len(heap)
      BY <1>1 DEF InstancesTypeOK
    <3>2. y \in Range(memo[c]) \/ y \in Branches
      BY <1>1 DEF VisitsInv, StackStands, FrameStands, Located
    <3>3. y \in Range(memo[c]) => y # Top(b).curr
      BY <1>1, <1>7, <1>8, CopiesApart DEF Visited
    <3> HIDE DEF y
    <3> QED
      BY <3>1, <3>2, <3>3 DEF y
  <2>2. StackStands(c)
    BY <1>1 DEF VisitsInv
  <2> QED
    BY <1>3, <1>5, <1>8, <2>1, <2>2, StackSame
<1>9. ASSUME NEW i \in 1 .. Len(frames[b]) - 1, NEW f, f = frames[b][i]
      PROVE  FrameStands(b, f)'
  <2>1. i \in 1 .. Len(frames[b]) /\ Len(frames[b]) \in 1 .. Len(frames[b]) /\ i < Len(frames[b])
    BY TopStands
  <2>2. FrameStands(b, f) /\ f.curr \in 1 .. Len(heap)
    BY <1>1, <1>9, <2>1 DEF VisitsInv, StackStands, InstancesTypeOK
  <2>3. f.curr \in Visited(b)
    BY <2>2 DEF FrameStands, Located, Visited
  <2>4. f.curr # Top(b).curr \/ f.curr \in Branches
    <3>1. PICK x \in Template : IsOf(b, f.curr, x)
      BY <1>1, <2>3, Origin
    <3>2. f.curr = Top(b).curr => x \in Within(x)
      <4>1. NestStands(b) /\ Top(b) = frames[b][Len(frames[b])]
        BY TopStands DEF StackStands
      <4>2. f.curr = Top(b).curr => IsOf(b, frames[b][Len(frames[b])].curr, x)
        BY <3>1, <4>1
      <4> QED
        BY <1>9, <2>1, <3>1, <4>1, <4>2 DEF NestStands
    <3> QED
      BY <1>1, <3>2, BranchesStand
  <2> QED
    BY <1>5, <2>2, <2>4, FrameSame
<1> QED
  BY <1>3, <1>4, <1>5, <1>6, <1>8, <1>9

\* The stack of a bundle goes on: the first k traversals stay where they are,
\* and one at most is put on top of them.
LEMMA StackMoves ==
  ASSUME NEW b \in Bundles, StackStands(b),
         NEW t \in Seq(Traversal), frames'[b] = t, memo'[b] = memo[b],
         \A x \in Template : Within(x)' = Within(x),
         NEW k \in 0 .. Len(frames[b]), Len(t) \in {k, k + 1},
         \A i \in 1 .. k : t[i].curr = frames[b][i].curr,
         \A i \in 1 .. Len(t) : /\ FrameStands(b, t[i])'
                                /\ i < Len(t) => t[i].at = "inside",
         Len(t) = k + 1 =>
           \A i \in 1 .. k : \A x, z \in Template :
             IsOf(b, frames[b][i].curr, x) /\ IsOf(b, t[k + 1].curr, z) => z \in Within(x)
  PROVE  StackStands(b)'
<1>1. \A i \in 1 .. k : i \in 1 .. Len(frames[b])
  OBVIOUS
<1>2. ASSUME NEW i \in 1 .. Len(t), NEW j \in 1 .. Len(t), i < j,
             NEW x \in Template, NEW z \in Template, IsOf(b, t[i].curr, x), IsOf(b, t[j].curr, z)
      PROVE  z \in Within(x)
  <2>1. i \in 1 .. k
    BY <1>2
  <2>2. CASE j \in 1 .. k
    BY <1>1, <1>2, <2>1, <2>2 DEF StackStands, NestStands
  <2>3. CASE j = k + 1 /\ Len(t) = k + 1
    BY <1>2, <2>1, <2>3
  <2> QED
    BY <2>2, <2>3
<1>3. NestStands(b)'
  BY <1>2 DEF NestStands, IsOf
<1>4. ASSUME NEW i \in 1 .. Len(frames'[b])
      PROVE  /\ FrameStands(b, frames[b][i])'
             /\ i < Len(frames'[b]) => frames'[b][i].at = "inside"
  BY DEF FrameStands, VisitStands, RacedStands, Located
<1> QED
  BY <1>3, <1>4 DEF StackStands

\* The innermost traversal goes on at the node it is at.
LEMMA SameTop ==
  ASSUME InstancesInv, NEW b \in Bundles, frames[b] # <<>>,
         NEW f \in Traversal, f.curr = Top(b).curr,
         NEW t, t = Append(Front(frames[b]), f), frames'[b] = t, memo'[b] = memo[b],
         \A x \in Template : Within(x)' = Within(x), FrameStands(b, f)',
         \A i \in 1 .. Len(frames[b]) - 1 : \A g : g = frames[b][i] => FrameStands(b, g)'
  PROVE  StackStands(b)'
<1>1. /\ frames[b] \in Seq(Traversal) /\ Len(frames[b]) \in Nat /\ Len(frames[b]) > 0
      /\ StackStands(b) /\ Top(b) = frames[b][Len(frames[b])]
  BY TopStands
<1>2. /\ t \in Seq(Traversal) /\ Len(t) = Len(frames[b])
      /\ \A i \in 1 .. Len(frames[b]) : t[i] = IF i = Len(frames[b]) THEN f ELSE frames[b][i]
  BY <1>1, TopReplaced
<1>3. PICK k : k = Len(frames[b])
  OBVIOUS
<1>4. \A i \in 1 .. k : t[i].curr = frames[b][i].curr
  BY <1>1, <1>2, <1>3
<1>5. ASSUME NEW i \in 1 .. Len(t)
      PROVE  FrameStands(b, t[i])' /\ (i < Len(t) => t[i].at = "inside")
  <2>1. CASE i = k
    BY <1>2, <1>3, <2>1
  <2>2. CASE i # k
    <3>1. i \in 1 .. Len(frames[b]) - 1 /\ i < Len(frames[b]) /\ t[i] = frames[b][i]
      BY <1>1, <1>2, <1>3, <2>2
    <3> QED
      BY <1>1, <3>1 DEF StackStands
  <2> QED
    BY <2>1, <2>2
<1>6. k \in 0 .. Len(frames[b]) /\ Len(t) \in {k, k + 1} /\ Len(t) # k + 1
  BY <1>1, <1>2, <1>3
<1> QED
  BY <1>1, <1>2, <1>4, <1>5, <1>6, StackMoves

\* It is taken off the stack, and the one below goes on, if there is one.
LEMMA Below ==
  ASSUME InstancesInv, NEW b \in Bundles, frames[b] # <<>>,
         NEW t \in Seq(Traversal), frames'[b] = t, memo'[b] = memo[b],
         \A x \in Template : Within(x)' = Within(x),
         \/ t = <<>>
         \/ /\ Len(t) = Len(frames[b]) - 1
            /\ \A i \in 1 .. Len(t) : /\ t[i].curr = frames[b][i].curr /\ FrameStands(b, t[i])'
                                      /\ i < Len(t) => t[i].at = "inside"
  PROVE  StackStands(b)'
<1>1. StackStands(b) /\ Len(frames[b]) \in Nat /\ Len(frames[b]) > 0
  BY TopStands
<1>2. PICK k : k = Len(t)
  OBVIOUS
<1>3. /\ k \in 0 .. Len(frames[b]) /\ Len(t) \in {k, k + 1} /\ Len(t) # k + 1
      /\ \A i \in 1 .. k : t[i].curr = frames[b][i].curr
      /\ \A i \in 1 .. Len(t) : FrameStands(b, t[i])' /\ (i < Len(t) => t[i].at = "inside")
  BY <1>1, <1>2
<1> QED
  BY <1>1, <1>3, StackMoves

\* An invariant that a step of one bundle keeps.
LEMMA AllStand ==
  ASSUME NEW b \in Bundles, InstancesTypeOK', CloningInv', SetterStands', StackStands(b)',
         \A c \in Bundles : c # b => StackStands(c)'
  PROVE  InstancesInv'
<1>1. ASSUME NEW c \in Bundles PROVE StackStands(c)'
  <2>1. CASE c = b
    BY <2>1
  <2>2. CASE c # b
    BY <2>2
  <2> QED
    BY <2>1, <2>2
<1> QED
  BY <1>1 DEF InstancesInv, VisitsInv

LEMMA ReadOwnStep ==
  ASSUME InstancesInv, NEW b \in Bundles, ReadOwn(b)
  PROVE  InstancesInv'
<1> DEFINE top == Top(b)
           f == [top EXCEPT !.at = "write", !.own = heap[top.curr].own, !.steps = @ + 1,
                            !.raced = setter.at = "between" /\ setter.node = top.curr]
<1>1. /\ frames[b] # <<>> /\ top.at = "inject"
      /\ heap' = heap /\ UNCHANGED <<calls, memo, setter>>
  BY DEF ReadOwn, Stands
<1>2. /\ frames[b] \in Seq(Traversal) /\ Len(frames[b]) \in Nat /\ Len(frames[b]) > 0
      /\ top \in Traversal /\ FrameStands(b, top)
      /\ top.curr \in 1 .. Len(heap) /\ heap[top.curr] \in NodeRecord
      /\ heap \in Seq(NodeRecord) /\ MaxSteps \in Nat
      /\ top = frames[b][Len(frames[b])]
  BY <1>1, TopStands, Typed, InstancesAssumption DEF InstancesInv
<1>3. frames \in [Bundles -> Seq(Traversal)]
  BY DEF InstancesInv, InstancesTypeOK
<1>4. CASE OverBudget(top)
  <2>1. frames' = [frames EXCEPT ![b] = <<>>]
    BY <1>4 DEF ReadOwn
  <2>2. PICK t : t = <<>>
    OBVIOUS
  <2>3. /\ t \in Seq(Traversal) /\ Len(t) = 0
        /\ \A k \in 1 .. Len(t) : t[k].curr \in 1 .. Len(heap)
    BY <2>2
  <2>4. /\ InstancesTypeOK' /\ CloningInv' /\ SetterStands' /\ frames'[b] = t
        /\ \A x \in Template : Within(x)' = Within(x)
        /\ \A c \in Bundles : c # b => StackStands(c)'
    <3> HIDE DEF top, f
    <3> QED
      BY <1>1, <1>2, <2>1, <2>2, <2>3, RunKeeps
  <2>5. StackStands(b)'
    BY <1>1, <2>2, <2>3, <2>4, Below
  <2> QED
    BY <2>4, <2>5, AllStand
<1>5. CASE ~OverBudget(top)
  <2>1. frames' = [frames EXCEPT ![b] = Append(Front(frames[b]), f)]
    BY <1>5 DEF ReadOwn, SetTop
  <2>2. /\ f \in Traversal /\ f.curr = top.curr /\ f.at = "write" /\ f.own = heap[top.curr].own
        /\ f.raced = (setter.at = "between" /\ setter.node = top.curr)
        /\ f.branch = top.branch /\ f.given = top.given
    <3>1. top.steps + 1 \in 0 .. MaxSteps
      <4>1. PICK n : n = top.steps
        OBVIOUS
      <4>2. n \in 0 .. MaxSteps /\ MaxSteps \in Nat
        BY <1>2, <4>1 DEF Traversal
      <4>3. ~(n >= MaxSteps)
        BY <1>5, <4>1 DEF OverBudget
      <4> HIDE DEF top
      <4>4. n + 1 \in 0 .. MaxSteps
        BY <4>2, <4>3
      <4> QED
        BY <4>1, <4>4
    <3>2. PICK raced : raced = (setter.at = "between" /\ setter.node = top.curr)
      OBVIOUS
    <3>3. raced \in BOOLEAN
      BY <3>2
    <3>4. heap[top.curr].own \in OwnDict
      BY <1>2 DEF NodeRecord
    <3>5. f = [top EXCEPT !.at = "write", !.own = heap[top.curr].own, !.steps = @ + 1, !.raced = raced]
      BY <3>2
    <3> HIDE DEF f, top
    <3>6. /\ f \in Traversal /\ f.curr = top.curr /\ f.at = "write"
          /\ f.own = heap[top.curr].own /\ f.raced = raced
          /\ f.branch = top.branch /\ f.given = top.given
      BY <1>2, <3>1, <3>3, <3>4, <3>5 DEF Traversal
    <3> QED
      BY <3>2, <3>6
  <2>3. PICK g : g = f
    OBVIOUS
  <2> HIDE DEF f, top
  <2>4. PICK t : t = Append(Front(frames[b]), g)
    OBVIOUS
  <2>5. /\ t \in Seq(Traversal) /\ Len(t) = Len(frames[b])
        /\ \A i \in 1 .. Len(frames[b]) : t[i] = IF i = Len(frames[b]) THEN g ELSE frames[b][i]
    BY <1>1, <1>2, <2>2, <2>3, <2>4, TopReplaced
  <2>6. \A i \in 1 .. Len(t) : t[i].curr \in 1 .. Len(heap)
    BY <1>2, <2>2, <2>3, <2>5 DEF InstancesInv, InstancesTypeOK
  <2>7. /\ InstancesTypeOK' /\ CloningInv' /\ SetterStands' /\ frames'[b] = t
        /\ Branches' = Branches /\ \A x \in Template : Within(x)' = Within(x)
        /\ \A c \in Bundles : c # b => StackStands(c)'
        /\ \A i \in 1 .. Len(frames[b]) - 1 : \A e : e = frames[b][i] => FrameStands(b, e)'
    BY <1>1, <1>2, <2>1, <2>3, <2>4, <2>5, <2>6, RunKeeps
  <2>8. FrameStands(b, g)'
    <3>1. Located(b, g)'
      BY <1>1, <1>2, <2>2, <2>3, <2>7 DEF FrameStands, Located
    <3>2. g.curr \notin Branches => VisitStands(b, g)'
      BY <1>1, <1>2, <2>2, <2>3 DEF FrameStands, VisitStands, RacedStands, InVisit
    <3> QED
      BY <2>2, <2>3, <2>7, <3>1, <3>2 DEF FrameStands
  <2>9. StackStands(b)'
    BY <1>1, <2>2, <2>3, <2>4, <2>7, <2>8, SameTop DEF top
  <2> QED
    BY <2>7, <2>9, AllStand
<1> QED
  BY <1>4, <1>5

\* A node's params and signal are written.
LEMMA EnterWrites ==
  ASSUME InstancesInv, NEW b \in Bundles, frames[b] # <<>>, NEW params \in Dict,
         EnterVisit(b, params)
  PROVE  /\ heap' \in Seq(NodeRecord) /\ Len(heap') = Len(heap)
         /\ \A j \in 1 .. Len(heap) :
              /\ heap'[j].kind = heap[j].kind /\ heap'[j].succ = heap[j].succ
              /\ heap'[j].inner = heap[j].inner /\ heap'[j].own = heap[j].own
              /\ j # Top(b).curr => /\ heap'[j].params = heap[j].params
                                    /\ heap'[j].signal = heap[j].signal
         /\ heap'[Top(b).curr].params = params
         /\ heap'[Top(b).curr].signal = Top(b).token
<1> DEFINE y == Top(b).curr
           token == Top(b).token
           n == heap[y]
           node == [n EXCEPT !.params = params, !.signal = token]
<1>1. /\ y \in 1 .. Len(heap) /\ n \in NodeRecord /\ heap \in Seq(NodeRecord)
      /\ token \in Seq(Nat)
  BY TopStands, Typed DEF InstancesInv, Traversal
<1>2. heap' = [heap EXCEPT ![y] = node]
  BY <1>1 DEF EnterVisit
<1> HIDE DEF n, y, token
<1>3. /\ node \in NodeRecord /\ node.kind = n.kind /\ node.succ = n.succ
      /\ node.inner = n.inner /\ node.own = n.own /\ node.params = params
      /\ node.signal = token
  BY <1>1 DEF NodeRecord
<1> HIDE DEF node
<1>4. /\ heap' \in Seq(NodeRecord) /\ Len(heap') = Len(heap) /\ heap'[y] = node
      /\ \A j \in 1 .. Len(heap) : j # y => heap'[j] = heap[j]
  BY <1>1, <1>2, <1>3, HeapWritten
<1> QED
  BY <1>3, <1>4 DEF n, y, token

LEMMA EnterStep ==
  ASSUME InstancesInv, NEW b \in Bundles, frames[b] # <<>>, Top(b).at \in {"write", "enter"},
         NEW params \in Dict, EnterVisit(b, params),
         Top(b).at = "enter" \/ params = Injected(Top(b).given, Top(b).own)
  PROVE  InstancesInv'
<1> DEFINE top == Top(b)
           at == IF heap[top.curr].kind = "plain" THEN "body" ELSE "prep"
           f == [top EXCEPT !.at = at]
<1>1. UNCHANGED <<calls, memo, setter>> /\ frames' = [frames EXCEPT ![b] = Append(Front(frames[b]), f)]
  BY DEF EnterVisit, SetTop
<1>2. /\ frames[b] \in Seq(Traversal) /\ Len(frames[b]) \in Nat /\ Len(frames[b]) > 0
      /\ top \in Traversal /\ FrameStands(b, top) /\ top.curr \in 1 .. Len(heap)
  BY TopStands
<1>3. /\ f \in Traversal /\ f.curr = top.curr /\ f.at = at /\ f.own = top.own
      /\ f.raced = top.raced /\ f.branch = top.branch /\ f.given = top.given
      /\ f.token = top.token
  BY <1>2 DEF Traversal
<1>4. /\ at \in {"body", "prep"} /\ (at = "prep" => heap[top.curr].kind # "plain")
  OBVIOUS
<1>5. top.curr \notin Branches => params = Expected(top.given, top.own)
  <2>1. top.given \in Dict /\ top.own \in OwnDict
    BY <1>2 DEF Traversal
  <2>2. top.curr \notin Branches => top.at # "enter"
    BY <1>2 DEF FrameStands, VisitStands
  <2> QED
    BY <2>1, <2>2, InjectedIs
<1>6. PICK g : g = f
  OBVIOUS
<1> HIDE DEF f, at
<1>7. PICK t : t = Append(Front(frames[b]), g)
  OBVIOUS
<1>8. /\ t \in Seq(Traversal) /\ Len(t) = Len(frames[b])
      /\ \A i \in 1 .. Len(frames[b]) : t[i] = IF i = Len(frames[b]) THEN g ELSE frames[b][i]
  BY <1>2, <1>3, <1>6, <1>7, TopReplaced
<1>9. \A i \in 1 .. Len(t) : t[i].curr \in 1 .. Len(heap)
  BY <1>2, <1>3, <1>6, <1>8 DEF InstancesInv, InstancesTypeOK
<1>10. /\ heap' \in Seq(NodeRecord) /\ Len(heap') = Len(heap)
       /\ \A j \in 1 .. Len(heap) :
            /\ heap'[j].kind = heap[j].kind /\ heap'[j].succ = heap[j].succ
            /\ heap'[j].inner = heap[j].inner /\ heap'[j].own = heap[j].own
            /\ j # top.curr => /\ heap'[j].params = heap[j].params
                               /\ heap'[j].signal = heap[j].signal
       /\ heap'[top.curr].params = params
       /\ heap'[top.curr].signal = top.token
  BY EnterWrites
<1>11. /\ InstancesTypeOK' /\ CloningInv' /\ SetterStands' /\ frames'[b] = t
       /\ Branches' = Branches /\ \A x \in Template : Within(x)' = Within(x)
       /\ \A c \in Bundles : c # b => StackStands(c)'
       /\ \A i \in 1 .. Len(frames[b]) - 1 : \A e : e = frames[b][i] => FrameStands(b, e)'
  BY <1>1, <1>6, <1>7, <1>8, <1>9, <1>10, RunKeeps
<1>12. FrameStands(b, g)'
  <2>1. Located(b, g)'
    BY <1>1, <1>2, <1>3, <1>6, <1>11 DEF FrameStands, Located
  <2>2. ASSUME g.curr \notin Branches PROVE VisitStands(b, g)'
    <3>1. VisitStands(b, top) /\ top.at = "write"
      BY <1>2, <1>3, <1>6, <2>2 DEF FrameStands, VisitStands
    <3>2. /\ heap'[g.curr].signal = g.token /\ heap'[g.curr].own = heap[top.curr].own
          /\ heap'[g.curr].params = Expected(g.given, g.own)
          /\ ~g.raced => heap'[g.curr].params = Expected(g.given, heap[top.curr].own)
      BY <1>2, <1>3, <1>5, <1>6, <1>10, <2>2, <3>1 DEF VisitStands
    <3>3. /\ RacedStands(g)' /\ ~g.branch /\ Range(g.given) \subseteq {b, 0}
          /\ ~g.raced => g.own = heap'[g.curr].own
      BY <1>1, <1>3, <1>6, <3>1, <3>2 DEF VisitStands, RacedStands
    <3>4. heap'[g.curr].params \in {Expected(g.given, heap'[g.curr].own)} \cup
            IF g.raced THEN {Expected(g.given, g.own), NewOwn} ELSE {}
      BY <3>2
    <3> QED
      BY <3>2, <3>3, <3>4 DEF VisitStands
  <2>3. /\ g.at = "enter" => g.branch
        /\ g.at = "prep" => heap'[g.curr].kind # "plain"
    BY <1>2, <1>3, <1>4, <1>6, <1>10
  <2> QED
    BY <1>11, <2>1, <2>2, <2>3 DEF FrameStands
<1>13. StackStands(b)'
  BY <1>1, <1>3, <1>6, <1>7, <1>11, <1>12, SameTop
<1> QED
  BY <1>11, <1>13, AllStand

LEMMA EntersStep ==
  ASSUME InstancesInv, NEW b \in Bundles, WriteParams(b) \/ EnterBranch(b)
  PROVE  InstancesInv'
<1>1. frames[b] # <<>>
  BY DEF WriteParams, EnterBranch, Stands
<1>2. Top(b) \in Traversal /\ heap[Top(b).curr] \in NodeRecord
  BY <1>1, TopStands
<1>3. CASE WriteParams(b)
  <2>1. PICK params : params = Injected(Top(b).given, Top(b).own)
    OBVIOUS
  <2>2. params \in Dict
    BY <1>2, <2>1, InjectedIs DEF Traversal
  <2>3. EnterVisit(b, params) /\ Top(b).at = "write"
    BY <1>3, <2>1 DEF WriteParams, Stands
  <2> QED
    BY <1>1, <2>1, <2>2, <2>3, EnterStep
<1>4. CASE EnterBranch(b)
  <2>1. PICK params : params = heap[Top(b).curr].params
    OBVIOUS
  <2>2. params \in Dict
    BY <1>2, <2>1 DEF NodeRecord
  <2>3. EnterVisit(b, params) /\ Top(b).at = "enter"
    BY <1>4, <2>1 DEF EnterBranch, Stands
  <2> QED
    BY <1>1, <2>2, <2>3, EnterStep
<1> QED
  BY <1>3, <1>4

\* Where the innermost traversal goes on is within what those below it visit.
LEMMA NestOn ==
  ASSUME InstancesInv, NEW b \in Bundles, frames[b] # <<>>,
         NEW i \in 1 .. Len(frames[b]) - 1,
         NEW x \in Template, IsOf(b, frames[b][i].curr, x),
         NEW u \in Template, IsOf(b, Top(b).curr, u)
  PROVE  /\ \A a \in Actions : heap[u].succ[a] \in Within(x) \cup {0}
         /\ heap[u].inner \in Within(x) \cup {0}
<1>1. /\ Len(frames[b]) \in Nat /\ Len(frames[b]) > 0 /\ StackStands(b)
      /\ Top(b) = frames[b][Len(frames[b])]
  BY TopStands
<1>2. i \in 1 .. Len(frames[b]) /\ Len(frames[b]) \in 1 .. Len(frames[b]) /\ i < Len(frames[b])
  BY <1>1
<1>3. u \in Within(x)
  BY <1>1, <1>2 DEF StackStands, NestStands
<1>4. WiringStands /\ heap[u].kind \in Kind
  <2>1. WiringStands
    BY DEF InstancesInv, CloningInv
  <2>2. u \in 1 .. Len(heap)
    BY <2>1, Typed, InstancesAssumption DEF InstancesInv, WiringStands, Template
  <2> QED
    BY <2>1, <2>2, Typed DEF InstancesInv, NodeRecord
<1> QED
  BY <1>3, <1>4, BranchesStand DEF ClosedIn

\* A copy's params are of its bundle while it is visited.
LEMMA ParamsOfBundle ==
  ASSUME InstancesInv, NEW b \in Bundles, frames[b] # <<>>, InVisit(Top(b)),
         Top(b).curr \notin Branches
  PROVE  Range(heap[Top(b).curr].params) \subseteq {b, 0}
<1> DEFINE top == Top(b)
           node == heap[top.curr]
<1>1. top \in Traversal /\ VisitStands(b, top) /\ node \in NodeRecord
  BY TopStands DEF FrameStands
<1>2. /\ Range(top.given) \subseteq {b, 0}
      /\ node.params \in {Expected(top.given, node.own), Expected(top.given, top.own), NewOwn}
  BY <1>1 DEF VisitStands
<1>3. top.given \in Dict /\ top.own \in OwnDict /\ node.own \in OwnDict
  BY <1>1 DEF Traversal, NodeRecord
<1> HIDE DEF top, node
<1>4. /\ Range(Expected(top.given, node.own)) \subseteq {b, 0}
      /\ Range(Expected(top.given, top.own)) \subseteq {b, 0}
      /\ Range(NewOwn) \subseteq {b, 0}
  BY <1>2, <1>3, InjectedIs, NewOwnIs
<1> QED
  BY <1>2, <1>4 DEF top, node

LEMMA ForkTokenTyped ==
  ASSUME InstancesInv, NEW b \in Bundles, frames[b] # <<>>
  PROVE  ForkToken(b) \in Seq(Nat)
<1> DEFINE s == [i \in 1 .. Len(frames[b]) |-> frames[b][i].steps]
<1>1. frames[b] \in Seq(Traversal) /\ Len(frames[b]) \in Nat
  BY TopStands
<1>2. \A i \in 1 .. Len(frames[b]) : frames[b][i] \in Traversal
  BY <1>1
<1>3. \A i \in 1 .. Len(frames[b]) : frames[b][i].steps \in Nat
  BY <1>2, InstancesAssumption DEF Traversal
<1>4. s \in Seq(Nat)
  BY <1>1, <1>3
<1>5. <<b>> \in Seq(Nat)
  BY InstancesAssumption
<1> HIDE DEF s
<1>6. <<b>> \o s \in Seq(Nat)
  BY <1>4, <1>5
<1> QED
  BY <1>6 DEF ForkToken, s

LEMMA DescendStep ==
  ASSUME InstancesInv, NEW b \in Bundles, Descend(b)
  PROVE  InstancesInv'
<1>1. /\ frames[b] # <<>> /\ Top(b).at = "prep" /\ heap[Top(b).curr].inner # 0
      /\ heap' = heap /\ UNCHANGED <<calls, memo, setter>>
  BY DEF Descend, Stands
<1>2. PICK top : top = Top(b)
  OBVIOUS
<1>3. PICK node : node = heap[top.curr]
  OBVIOUS
<1>4. PICK branch : branch = (node.kind \in {"fork", "sub"})
  OBVIOUS
<1>5. PICK token : token = IF node.kind = "fork" THEN ForkToken(b) ELSE top.token
  OBVIOUS
<1>6. PICK given : given = Gives(b, node)
  OBVIOUS
<1>7. PICK low : low = [top EXCEPT !.at = "inside"]
  OBVIOUS
<1>8. PICK new : new = Frame(node.inner, given, token, 0, branch)
  OBVIOUS
<1>9. frames' = [frames EXCEPT ![b] = Append(Append(Front(frames[b]), low), new)]
  BY <1>2, <1>3, <1>4, <1>5, <1>6, <1>7, <1>8 DEF Descend, Push
<1>10. /\ frames[b] \in Seq(Traversal) /\ Len(frames[b]) \in Nat /\ Len(frames[b]) > 0
       /\ top \in Traversal /\ FrameStands(b, top) /\ top.curr \in 1 .. Len(heap)
       /\ top = frames[b][Len(frames[b])] /\ StackStands(b) /\ top.curr \in Visited(b)
       /\ node \in NodeRecord /\ heap \in Seq(NodeRecord) /\ calls[b] = <<>>
       /\ InstancesTypeOK /\ CloningInv
  BY <1>1, <1>2, <1>3, TopStands, Typed DEF InstancesInv
<1>11. node.inner \in 1 .. Len(heap) /\ node.kind # "plain" /\ node.inner \in Nat
  <2>1. node.inner \in 0 .. Len(heap) /\ node.inner # 0 /\ Len(heap) \in Nat
    BY <1>1, <1>2, <1>3, <1>10, Typed DEF InstancesTypeOK
  <2>2. node.kind # "plain"
    BY <1>1, <1>2, <1>3, <1>10 DEF FrameStands
  <2> QED
    BY <2>1, <2>2
<1>12. /\ new \in Traversal /\ new.curr = node.inner /\ new.given = given /\ new.branch = branch
       /\ ~new.raced /\ ~InVisit(new)
       /\ new.at = IF branch THEN "enter" ELSE "inject"
  <2>1. given \in Dict
    BY <1>6, <1>10, GivesIs
  <2>2. token \in Seq(Nat)
    BY <1>1, <1>5, <1>10, ForkTokenTyped DEF Traversal
  <2>3. 0 \in 0 .. MaxSteps /\ branch \in BOOLEAN
    BY <1>4, InstancesAssumption
  <2> QED
    BY <1>8, <1>11, <2>1, <2>2, <2>3, FrameTyped
<1>13. /\ low \in Traversal /\ low.curr = top.curr /\ low.at = "inside" /\ low.own = top.own
       /\ low.raced = top.raced /\ low.branch = top.branch /\ low.given = top.given
       /\ low.token = top.token
  BY <1>7, <1>10 DEF Traversal
<1>14. PICK s : s = Append(Front(frames[b]), low)
  OBVIOUS
<1>15. /\ s \in Seq(Traversal) /\ Len(s) = Len(frames[b])
       /\ \A i \in 1 .. Len(frames[b]) : s[i] = IF i = Len(frames[b]) THEN low ELSE frames[b][i]
  BY <1>1, <1>10, <1>13, <1>14, TopReplaced
<1>16. PICK k : k = Len(frames[b])
  OBVIOUS
<1>17. PICK t : t = Append(s, new)
  OBVIOUS
<1>18. /\ t \in Seq(Traversal) /\ Len(t) = k + 1 /\ t[k + 1] = new
       /\ \A i \in 1 .. k : t[i] = s[i]
  BY <1>12, <1>15, <1>16, <1>17, AppendProperties
<1>19. /\ \A i \in 1 .. k : t[i] = IF i = k THEN low ELSE frames[b][i]
       /\ \A i \in 1 .. k + 1 : i \in 1 .. k \/ i = k + 1
  BY <1>10, <1>15, <1>16, <1>18
<1>20. \A i \in 1 .. Len(t) : t[i].curr \in 1 .. Len(heap)
  <2>1. \A i \in 1 .. k : frames[b][i].curr \in 1 .. Len(heap)
    BY <1>10, <1>16 DEF InstancesTypeOK
  <2>2. \A i \in 1 .. k : t[i].curr \in 1 .. Len(heap)
    BY <1>10, <1>13, <1>19, <2>1
  <2>3. t[k + 1].curr \in 1 .. Len(heap)
    BY <1>11, <1>12, <1>18
  <2> QED
    BY <1>18, <1>19, <2>2, <2>3
<1>21. /\ InstancesTypeOK' /\ CloningInv' /\ SetterStands' /\ frames'[b] = t
       /\ Branches' = Branches /\ \A x \in Template : Within(x)' = Within(x)
       /\ \A c \in Bundles : c # b => StackStands(c)'
       /\ \A i \in 1 .. Len(frames[b]) - 1 : \A e : e = frames[b][i] => FrameStands(b, e)'
  BY <1>1, <1>9, <1>10, <1>14, <1>17, <1>18, <1>20, RunKeeps
<1>22. PICK u \in Template : IsOf(b, top.curr, u)
  BY <1>10, Origin
<1>23. /\ heap[u].inner \in Template /\ IsOf(b, new.curr, heap[u].inner)
       /\ new.curr \in Visited(b)
       /\ branch \/ top.curr \in Branches <=> new.curr \in Branches
  <2>1. branch <=> node.kind \in {"fork", "sub"}
    BY <1>4
  <2>2. heap[top.curr].inner # 0 /\ heap[top.curr].kind # "plain"
    BY <1>1, <1>2, <1>3, <1>11
  <2>3. /\ heap[u].inner \in Template /\ IsOf(b, heap[top.curr].inner, heap[u].inner)
        /\ heap[top.curr].inner \in Visited(b)
        /\ heap[top.curr].kind \in {"fork", "sub"} \/ top.curr \in Branches
             <=> heap[top.curr].inner \in Branches
    BY <1>10, <1>22, <2>2, LeadsTo
  <2> QED
    BY <1>3, <1>12, <2>1, <2>3
<1>24. FrameStands(b, low)'
  <2>1. Located(b, low)'
    BY <1>1, <1>10, <1>13, <1>21 DEF FrameStands, Located
  <2>2. low.curr \notin Branches => VisitStands(b, low)'
    BY <1>1, <1>2, <1>10, <1>13 DEF FrameStands, VisitStands, RacedStands, InVisit
  <2> QED
    BY <1>13, <1>21, <2>1, <2>2 DEF FrameStands
<1>25. FrameStands(b, new)'
  <2>1. Located(b, new)'
    BY <1>1, <1>21, <1>23 DEF Visited, Located
  <2>2. ASSUME new.curr \notin Branches PROVE VisitStands(b, new)'
    <3>1. ~branch /\ top.curr \notin Branches
      BY <1>23, <2>2
    <3>2. Range(given) \subseteq {b, 0}
      <4>1. Range(node.params) \subseteq {b, 0}
        BY <1>1, <1>2, <1>3, <3>1, ParamsOfBundle DEF InVisit
      <4> QED
        BY <1>6, <1>10, <4>1, GivesIs
    <3>3. new.at = "inject" /\ ~new.branch /\ RacedStands(new)'
      BY <1>12, <3>1 DEF RacedStands
    <3>4. ~InVisit(new)'
      BY <1>12 DEF InVisit
    <3> QED
      BY <1>12, <3>2, <3>3, <3>4 DEF VisitStands
  <2>3. (new.at = "enter" => new.branch) /\ new.at # "prep"
    BY <1>12
  <2> QED
    BY <1>21, <2>1, <2>2, <2>3 DEF FrameStands
<1>26. ASSUME NEW i \in 1 .. Len(t)
       PROVE  FrameStands(b, t[i])' /\ (i < Len(t) => t[i].at = "inside")
  <2>1. CASE i = k + 1
    BY <1>10, <1>16, <1>18, <1>25, <2>1
  <2>2. CASE i = k
    BY <1>10, <1>13, <1>16, <1>19, <1>24, <2>2
  <2>3. CASE i # k /\ i # k + 1
    <3>1. i \in 1 .. Len(frames[b]) - 1 /\ i \in 1 .. Len(frames[b]) /\ i < Len(frames[b])
      BY <1>10, <1>16, <1>18, <2>3
    <3>2. t[i] = frames[b][i]
      BY <1>16, <1>19, <2>3, <3>1
    <3> QED
      BY <1>10, <1>21, <3>1, <3>2 DEF StackStands
  <2> QED
    BY <2>1, <2>2, <2>3
<1>27. ASSUME NEW i \in 1 .. k, NEW x \in Template, NEW z \in Template,
              IsOf(b, frames[b][i].curr, x), IsOf(b, t[k + 1].curr, z)
       PROVE  z \in Within(x)
  <2>1. z = heap[u].inner
    BY <1>10, <1>18, <1>23, <1>27, Origin
  <2>2. CASE i = k
    <3>1. x = u
      BY <1>10, <1>16, <1>22, <1>27, <2>2, Origin
    <3> QED
      BY <1>10, <1>23, <2>1, <3>1, BranchesStand, InstancesAssumption DEF CloningInv, Template
  <2>3. CASE i # k
    <3>1. i \in 1 .. Len(frames[b]) - 1
      BY <1>10, <1>16, <2>3
    <3>2. heap[u].inner \in Within(x) \cup {0}
      BY <1>1, <1>2, <1>22, <1>27, <3>1, NestOn
    <3> QED
      BY <1>23, <2>1, <3>2, InstancesAssumption DEF Template
  <2> QED
    BY <2>2, <2>3
<1>28. \A i \in 1 .. k : t[i].curr = frames[b][i].curr
  BY <1>10, <1>13, <1>16, <1>19
<1>29. StackStands(b)'
  <2>1. k \in 0 .. Len(frames[b]) /\ Len(t) \in {k, k + 1}
    BY <1>10, <1>16, <1>18
  <2> QED
    BY <1>1, <1>10, <1>18, <1>21, <1>26, <1>27, <1>28, <2>1, StackMoves
<1> QED
  BY <1>21, <1>29, AllStand

LEMMA SuccessorStep ==
  ASSUME InstancesInv, NEW b \in Bundles, frames[b] # <<>>, ~Top(b).branch,
         NEW a \in Actions, heap[Top(b).curr].succ[a] # 0,
         SetTop(b, Frame(heap[Top(b).curr].succ[a], Top(b).given, Top(b).token, Top(b).steps, FALSE)),
         UNCHANGED <<heap, calls, memo, setter>>
  PROVE  InstancesInv'
<1>1. PICK top : top = Top(b)
  OBVIOUS
<1>2. PICK y : y = heap[top.curr].succ[a]
  OBVIOUS
<1>3. PICK branch : branch = FALSE
  OBVIOUS
<1>4. PICK f : f = Frame(y, top.given, top.token, top.steps, branch)
  OBVIOUS
<1>5. PICK t : t = Append(Front(frames[b]), f)
  OBVIOUS
<1>6. frames' = [frames EXCEPT ![b] = t] /\ y # 0 /\ heap' = heap
      /\ UNCHANGED <<calls, memo, setter>>
  BY <1>1, <1>2, <1>3, <1>4, <1>5 DEF SetTop
<1>7. /\ frames[b] \in Seq(Traversal) /\ Len(frames[b]) \in Nat /\ Len(frames[b]) > 0
      /\ top \in Traversal /\ FrameStands(b, top) /\ top.curr \in 1 .. Len(heap)
      /\ top = frames[b][Len(frames[b])] /\ StackStands(b) /\ top.curr \in Visited(b)
      /\ heap \in Seq(NodeRecord) /\ calls[b] = <<>>
      /\ InstancesTypeOK /\ CloningInv /\ Len(heap) \in Nat
  BY <1>1, TopStands, Typed DEF InstancesInv
<1>8. y \in 1 .. Len(heap) /\ y \in Nat
  <2>1. y \in 0 .. Len(heap)
    BY <1>2, <1>7 DEF InstancesTypeOK
  <2> QED
    BY <1>6, <1>7, <2>1
<1>9. /\ f \in Traversal /\ f.curr = y /\ f.given = top.given /\ f.branch = branch
      /\ ~f.raced /\ ~InVisit(f)
      /\ f.at = IF branch THEN "enter" ELSE "inject"
  <2>1. /\ top.given \in Dict /\ top.token \in Seq(Nat) /\ top.steps \in 0 .. MaxSteps
        /\ branch \in BOOLEAN
    BY <1>3, <1>7 DEF Traversal
  <2> QED
    BY <1>4, <1>8, <2>1, FrameTyped
<1>10. /\ t \in Seq(Traversal) /\ Len(t) = Len(frames[b])
       /\ \A i \in 1 .. Len(frames[b]) : t[i] = IF i = Len(frames[b]) THEN f ELSE frames[b][i]
  BY <1>5, <1>6, <1>7, <1>9, TopReplaced
<1>11. \A i \in 1 .. Len(t) : t[i].curr \in 1 .. Len(heap)
  BY <1>7, <1>8, <1>9, <1>10 DEF InstancesTypeOK
<1>12. /\ InstancesTypeOK' /\ CloningInv' /\ SetterStands' /\ frames'[b] = t
       /\ Branches' = Branches /\ \A x \in Template : Within(x)' = Within(x)
       /\ \A c \in Bundles : c # b => StackStands(c)'
       /\ \A i \in 1 .. Len(frames[b]) - 1 : \A e : e = frames[b][i] => FrameStands(b, e)'
  BY <1>6, <1>7, <1>10, <1>11, RunKeeps
<1>13. PICK u \in Template : IsOf(b, top.curr, u)
  BY <1>7, Origin
<1>14. /\ heap[u].succ[a] \in Template /\ IsOf(b, f.curr, heap[u].succ[a])
       /\ f.curr \in Visited(b)
       /\ top.curr \in Branches <=> f.curr \in Branches
  <2>1. \A e \in Actions : heap[top.curr].succ[e] # 0 =>
          /\ heap[u].succ[e] \in Template /\ IsOf(b, heap[top.curr].succ[e], heap[u].succ[e])
          /\ heap[top.curr].succ[e] \in Visited(b)
          /\ top.curr \in Branches <=> heap[top.curr].succ[e] \in Branches
    BY <1>7, <1>13, LeadsTo
  <2>2. heap[top.curr].succ[a] = f.curr /\ f.curr # 0
    BY <1>2, <1>6, <1>9
  <2> QED
    BY <2>1, <2>2
<1>15. FrameStands(b, f)'
  <2>1. Located(b, f)'
    BY <1>6, <1>12, <1>14 DEF Visited, Located
  <2>2. ASSUME f.curr \notin Branches PROVE VisitStands(b, f)'
    <3>1. Range(top.given) \subseteq {b, 0}
      BY <1>7, <1>14, <2>2 DEF FrameStands, VisitStands
    <3>2. f.at = "inject" /\ ~f.branch /\ RacedStands(f)'
      BY <1>3, <1>9 DEF RacedStands
    <3>3. ~InVisit(f)'
      BY <1>9 DEF InVisit
    <3> QED
      BY <1>9, <3>1, <3>2, <3>3 DEF VisitStands
  <2>3. f.at = "inject"
    BY <1>3, <1>9
  <2> QED
    BY <1>12, <2>1, <2>2, <2>3 DEF FrameStands
<1>16. PICK k : k = Len(frames[b]) - 1
  OBVIOUS
<1>17. k \in 0 .. Len(frames[b]) /\ Len(t) = k + 1 /\ k + 1 = Len(frames[b]) /\ t[k + 1] = f
  BY <1>7, <1>10, <1>16
<1>18. ASSUME NEW i \in 1 .. k
       PROVE  /\ i \in 1 .. Len(frames[b]) - 1 /\ i \in 1 .. Len(frames[b])
              /\ i < Len(frames[b]) /\ t[i] = frames[b][i]
  BY <1>7, <1>10, <1>16, <1>17
<1>19. ASSUME NEW i \in 1 .. Len(t)
       PROVE  FrameStands(b, t[i])' /\ (i < Len(t) => t[i].at = "inside")
  <2>1. CASE i = k + 1
    BY <1>7, <1>15, <1>17, <2>1
  <2>2. CASE i \in 1 .. k
    <3>1. FrameStands(b, t[i])'
      BY <1>12, <1>18, <2>2
    <3>2. t[i].at = "inside"
      BY <1>7, <1>18, <2>2 DEF StackStands
    <3> QED
      BY <3>1, <3>2
  <2>3. i \in 1 .. k \/ i = k + 1
    BY <1>7, <1>17
  <2> QED
    BY <2>1, <2>2, <2>3
<1>20. ASSUME NEW i \in 1 .. k, NEW x \in Template, NEW z \in Template,
              IsOf(b, frames[b][i].curr, x), IsOf(b, t[k + 1].curr, z)
       PROVE  z \in Within(x)
  <2>1. z = heap[u].succ[a]
    BY <1>7, <1>14, <1>17, <1>20, Origin
  <2>2. heap[u].succ[a] \in Within(x) \cup {0}
    BY <1>1, <1>6, <1>13, <1>18, <1>20, NestOn
  <2> QED
    BY <1>14, <2>1, <2>2, InstancesAssumption DEF Template
<1>21. \A i \in 1 .. k : t[i].curr = frames[b][i].curr
  BY <1>18
<1>22. StackStands(b)'
  <2>1. Len(t) \in {k, k + 1}
    BY <1>17
  <2> QED
    BY <1>6, <1>7, <1>10, <1>12, <1>17, <1>19, <1>20, <1>21, <2>1, StackMoves
<1> QED
  BY <1>12, <1>22, AllStand

LEMMA ReturnStep ==
  ASSUME InstancesInv, NEW b \in Bundles, frames[b] # <<>>,
         UNCHANGED <<heap, calls, memo, setter>>,
         \/ Len(frames[b]) = 1 /\ frames' = [frames EXCEPT ![b] = <<>>]
         \/ Len(frames[b]) > 1 /\ Pop(b, [Last(Front(frames[b])) EXCEPT !.at = "body"])
  PROVE  InstancesInv'
<1>1. /\ frames[b] \in Seq(Traversal) /\ Len(frames[b]) \in Nat /\ Len(frames[b]) > 0
      /\ StackStands(b) /\ heap \in Seq(NodeRecord)
      /\ InstancesTypeOK /\ CloningInv
  BY TopStands, Typed DEF InstancesInv
<1>2. heap' = heap /\ UNCHANGED <<calls, memo, setter>>
  OBVIOUS
<1>3. CASE frames' = [frames EXCEPT ![b] = <<>>]
  <2>1. PICK t : t = <<>>
    OBVIOUS
  <2>2. /\ t \in Seq(Traversal) /\ Len(t) = 0
        /\ \A i \in 1 .. Len(t) : t[i].curr \in 1 .. Len(heap)
    BY <2>1
  <2>3. /\ InstancesTypeOK' /\ CloningInv' /\ SetterStands' /\ frames'[b] = t
        /\ \A x \in Template : Within(x)' = Within(x)
        /\ \A c \in Bundles : c # b => StackStands(c)'
    BY <1>1, <1>2, <1>3, <2>1, <2>2, RunKeeps
  <2>4. StackStands(b)'
    BY <1>2, <2>1, <2>2, <2>3, Below
  <2> QED
    BY <2>3, <2>4, AllStand
<1>4. CASE Len(frames[b]) > 1 /\ Pop(b, [Last(Front(frames[b])) EXCEPT !.at = "body"])
  <2>1. PICK s : s = Front(frames[b])
    OBVIOUS
  <2>2. PICK k : k = Len(s)
    OBVIOUS
  <2>3. /\ s \in Seq(Traversal) /\ k = Len(frames[b]) - 1 /\ k \in Nat /\ k > 0 /\ k # 0
        /\ \A i \in 1 .. k : s[i] = frames[b][i]
    <3>1. /\ s \in Seq(Traversal) /\ Len(s) = Len(frames[b]) - 1
          /\ \A i \in 1 .. Len(frames[b]) - 1 : s[i] = frames[b][i]
      BY <1>1, <2>1, FrontOfStack
    <3>2. k = Len(frames[b]) - 1 /\ k \in Nat /\ k > 0 /\ k # 0
      BY <1>1, <1>4, <2>2, <3>1
    <3> QED
      BY <3>1, <3>2
  <2>4. s # <<>>
    <3>1. s = <<>> => Len(s) = 0
      OBVIOUS
    <3>2. Len(s) # 0
      BY <2>2, <2>3, Zenon
    <3> QED
      BY <3>1, <3>2
  <2>5. Last(s) = s[k] /\ Last(s) \in Traversal
    BY <2>2, <2>3, <2>4, FrontOfStack
  <2>6. PICK low : low = Last(s)
    OBVIOUS
  <2>7. PICK f : f = [low EXCEPT !.at = "body"]
    OBVIOUS
  <2>8. /\ f \in Traversal /\ f.curr = low.curr /\ f.at = "body" /\ f.own = low.own
        /\ f.raced = low.raced /\ f.branch = low.branch /\ f.given = low.given
        /\ f.token = low.token
    BY <2>5, <2>6, <2>7 DEF Traversal
  <2>9. PICK t : t = Append(Front(s), f)
    OBVIOUS
  <2>10. frames' = [frames EXCEPT ![b] = t]
    BY <1>4, <2>1, <2>6, <2>7, <2>9 DEF Pop
  <2>11. /\ t \in Seq(Traversal) /\ Len(t) = k
         /\ \A i \in 1 .. k : t[i] = IF i = k THEN f ELSE s[i]
    <3>1. /\ t \in Seq(Traversal) /\ Len(t) = Len(s)
          /\ \A i \in 1 .. Len(s) : t[i] = IF i = Len(s) THEN f ELSE s[i]
      BY <2>3, <2>4, <2>8, <2>9, TopReplaced
    <3> QED
      BY <2>2, <3>1
  <2>12. ASSUME NEW i \in 1 .. k
         PROVE  /\ i \in 1 .. Len(frames[b]) - 1 /\ i \in 1 .. Len(frames[b])
                /\ i < Len(frames[b]) /\ frames[b][i].at = "inside"
                /\ t[i] = IF i = k THEN f ELSE frames[b][i]
                /\ t[i].curr = frames[b][i].curr
    <3>1. i \in 1 .. Len(frames[b]) - 1 /\ i \in 1 .. Len(frames[b]) /\ i < Len(frames[b])
      BY <1>1, <2>3
    <3>2. frames[b][i].at = "inside"
      BY <1>1, <3>1 DEF StackStands
    <3>3. t[i] = IF i = k THEN f ELSE frames[b][i]
      BY <2>3, <2>11
    <3> QED
      BY <2>3, <2>5, <2>6, <2>8, <3>1, <3>2, <3>3
  <2>13. \A i \in 1 .. Len(t) : t[i].curr \in 1 .. Len(heap)
    BY <1>1, <2>11, <2>12 DEF InstancesTypeOK
  <2>14. /\ InstancesTypeOK' /\ CloningInv' /\ SetterStands' /\ frames'[b] = t
         /\ Branches' = Branches /\ \A x \in Template : Within(x)' = Within(x)
         /\ \A c \in Bundles : c # b => StackStands(c)'
         /\ \A i \in 1 .. Len(frames[b]) - 1 : \A e : e = frames[b][i] => FrameStands(b, e)'
    BY <1>1, <1>2, <2>10, <2>11, <2>13, RunKeeps
  <2>15. k \in 1 .. k
    BY <2>3
  <2>16. low = frames[b][k] /\ low.at = "inside" /\ FrameStands(b, low)'
    BY <2>3, <2>5, <2>6, <2>12, <2>14, <2>15
  <2>17. FrameStands(b, f)'
    <3>1. Located(b, f)'
      BY <2>8, <2>16 DEF FrameStands, Located
    <3>2. ASSUME f.curr \notin Branches' PROVE VisitStands(b, f)'
      <4>1. VisitStands(b, low)'
        BY <2>8, <2>16, <3>2 DEF FrameStands
      <4>2. RacedStands(f)'
        BY <2>8, <2>16, <4>1 DEF VisitStands, RacedStands
      <4> QED
        BY <2>8, <2>16, <4>1, <4>2 DEF VisitStands, InVisit
    <3> QED
      BY <2>8, <3>1, <3>2 DEF FrameStands
  <2>18. ASSUME NEW i \in 1 .. Len(t)
         PROVE  /\ t[i].curr = frames[b][i].curr /\ FrameStands(b, t[i])'
                /\ i < Len(t) => t[i].at = "inside"
    <3>1. CASE i = k
      BY <2>11, <2>12, <2>15, <2>17, <3>1
    <3>2. CASE i # k
      BY <2>11, <2>12, <2>14, <3>2
    <3> QED
      BY <3>1, <3>2
  <2>19. StackStands(b)'
    BY <1>2, <2>3, <2>11, <2>14, <2>18, Below
  <2> QED
    BY <2>14, <2>19, AllStand
<1> QED
  BY <1>3, <1>4

LEMMA SettlesStep ==
  ASSUME InstancesInv, NEW b \in Bundles, Settles(b)
  PROVE  InstancesInv'
<1>1. frames[b] # <<>> /\ UNCHANGED <<heap, calls, memo, setter>>
  BY DEF Settles, Stands
<1>2. CASE /\ ~Top(b).branch
           /\ \E a \in Actions :
                LET x == heap[Top(b).curr].succ[a]
                IN  /\ x # 0
                    /\ SetTop(b, Frame(x, Top(b).given, Top(b).token, Top(b).steps, FALSE))
  BY <1>1, <1>2, SuccessorStep
<1>3. CASE \/ Len(frames[b]) = 1 /\ frames' = [frames EXCEPT ![b] = <<>>]
           \/ Len(frames[b]) > 1 /\ Pop(b, [Last(Front(frames[b])) EXCEPT !.at = "body"])
  BY <1>1, <1>3, ReturnStep
<1> QED
  BY <1>2, <1>3 DEF Settles

--------------------------------------------------------------------------------
(***************************************************************************)
(* The other thread.                                                        *)
(***************************************************************************)

LEMMA SetParamsStep ==
  ASSUME InstancesInv, SetParams
  PROVE  InstancesInv'
<1>1. /\ setter.at = "between" /\ UNCHANGED <<frames, calls, memo>>
      /\ setter' = [at |-> "done", node |-> 0]
      /\ heap' = [heap EXCEPT ![setter.node].params = NewOwn]
  BY DEF SetParams
<1>2. /\ InstancesTypeOK /\ CloningInv /\ WiringStands /\ CallsStand
      /\ \A b \in Bundles : StackStands(b)
  BY DEF InstancesInv, CloningInv, VisitsInv
<1>3. PICK y : y = setter.node
  OBVIOUS
<1>4. y \in 1 .. Len(heap) /\ heap \in Seq(NodeRecord) /\ heap[y] \in NodeRecord
      /\ Len(heap) \in Nat
  BY <1>1, <1>2, <1>3, Typed DEF InstancesInv, VisitsInv, SetterStands
<1>5. PICK n : n = heap[y]
  OBVIOUS
<1>6. PICK node : node = [n EXCEPT !.params = NewOwn]
  OBVIOUS
<1>7. /\ node \in NodeRecord /\ node.kind = n.kind /\ node.succ = n.succ
      /\ node.inner = n.inner /\ node.own = n.own /\ node.params = NewOwn
      /\ node.signal = n.signal
  BY <1>4, <1>5, <1>6, NewOwnIs DEF NodeRecord
<1>8. heap' = [heap EXCEPT ![y] = node]
  BY <1>1, <1>3, <1>5, <1>6
<1>9. /\ heap' \in Seq(NodeRecord) /\ Len(heap') = Len(heap) /\ heap'[y] = node
      /\ \A j \in 1 .. Len(heap) : j # y => heap'[j] = heap[j]
  BY <1>4, <1>7, <1>8, HeapWritten
<1>10. InstancesTypeOK'
  <2>1. /\ node.inner \in 0 .. Len(heap)
        /\ \A a \in Actions : node.succ[a] \in 0 .. Len(heap)
    BY <1>2, <1>4, <1>5, <1>7 DEF InstancesTypeOK
  <2>2. /\ calls' \in [Bundles -> Seq(CallRecord)] /\ frames' \in [Bundles -> Seq(Traversal)]
        /\ \A c \in Bundles : \A k \in 1 .. Len(frames'[c]) : frames'[c][k].curr \in 1 .. Len(heap)
    BY <1>1, <1>2 DEF InstancesTypeOK
  <2>3. setter' \in [at : {"idle", "between", "done"}, node : 0 .. Len(heap)]
    BY <1>1, <1>4
  <2> QED
    BY <1>1, <1>2, <1>4, <1>7, <1>8, <2>1, <2>2, <2>3, WriteTyped
<1>11. /\ setter'.at = "done"
       /\ \A j \in 1 .. Len(heap) :
            /\ heap'[j].kind = heap[j].kind /\ heap'[j].succ = heap[j].succ
            /\ heap'[j].inner = heap[j].inner /\ heap'[j].own = heap[j].own
            /\ heap'[j].signal = heap[j].signal
            /\ heap'[j].params = IF j = y THEN NewOwn ELSE heap[j].params
  <2>1. setter'.at = "done"
    BY <1>1
  <2>2. ASSUME NEW j \in 1 .. Len(heap)
        PROVE  /\ heap'[j].kind = heap[j].kind /\ heap'[j].succ = heap[j].succ
               /\ heap'[j].inner = heap[j].inner /\ heap'[j].own = heap[j].own
               /\ heap'[j].signal = heap[j].signal
               /\ heap'[j].params = IF j = y THEN NewOwn ELSE heap[j].params
    <3>1. CASE j = y
      BY <1>5, <1>7, <1>9, <3>1
    <3>2. CASE j # y
      BY <1>9, <3>2
    <3> QED
      BY <3>1, <3>2
  <2> QED
    BY <2>1, <2>2
<1>12. /\ CloningInv' /\ Branches' = Branches /\ \A x \in Template : Within(x)' = Within(x)
  <2>1. \A b \in Bundles : /\ calls[b] # <<>> => frames'[b] = <<>>
                           /\ frames'[b] # <<>> => memo[b] # <<>>
    BY <1>1, <1>2 DEF CallsStand
  <2> QED
    BY <1>1, <1>2, <1>9, <1>11, <2>1, QuietClones
<1>13. ASSUME NEW b \in Bundles, NEW i \in 1 .. Len(frames[b]), NEW f, f = frames[b][i]
       PROVE  FrameStands(b, f)'
  <2>1. FrameStands(b, f) /\ f.curr \in 1 .. Len(heap)
    BY <1>2, <1>13 DEF StackStands, InstancesTypeOK
  <2>2. Located(b, f)'
    BY <1>1, <1>12, <2>1 DEF FrameStands, Located
  <2>3. ASSUME f.curr \notin Branches PROVE VisitStands(b, f)'
    <3>1. VisitStands(b, f)
      BY <2>1, <2>3 DEF FrameStands
    <3>2. RacedStands(f)'
      BY <1>11 DEF RacedStands
    <3>3. InVisit(f) /\ f.curr = y => f.raced
      BY <1>1, <1>3, <3>1 DEF VisitStands, RacedStands, InVisit
    <3>4. InVisit(f) => heap'[f.curr].params \in {Expected(f.given, heap'[f.curr].own)} \cup
            IF f.raced THEN {Expected(f.given, f.own), NewOwn} ELSE {}
      BY <1>11, <2>1, <3>1, <3>3 DEF VisitStands
    <3>5. InVisit(f)' <=> InVisit(f)
      BY DEF InVisit
    <3> QED
      BY <1>11, <2>1, <3>1, <3>2, <3>4, <3>5 DEF VisitStands
  <2> QED
    BY <1>11, <1>12, <2>1, <2>2, <2>3 DEF FrameStands
<1>14. ASSUME NEW b \in Bundles PROVE StackStands(b)'
  <2>1. frames'[b] = frames[b] /\ memo'[b] = memo[b]
    BY <1>1
  <2>2. NestStands(b)'
    BY <1>2, <1>12, <2>1 DEF StackStands, NestStands, IsOf
  <2>3. ASSUME NEW i \in 1 .. Len(frames'[b])
        PROVE  /\ FrameStands(b, frames[b][i])'
               /\ i < Len(frames'[b]) => frames'[b][i].at = "inside"
    <3>1. PICK f : f = frames[b][i]
      OBVIOUS
    <3>2. FrameStands(b, f)' /\ frames'[b][i] = f
      BY <1>13, <2>1, <2>3, <3>1
    <3>3. i < Len(frames'[b]) => frames'[b][i].at = "inside"
      BY <1>2, <2>1 DEF StackStands
    <3> QED
      BY <3>2, <3>3 DEF FrameStands, VisitStands, RacedStands, Located
  <2> QED
    BY <2>2, <2>3 DEF StackStands
<1>15. SetterStands'
  BY <1>11 DEF SetterStands
<1> QED
  BY <1>10, <1>12, <1>14, <1>15 DEF InstancesInv, VisitsInv

\* A traversal that is raced from now on, or was not there to be.
RacedFrame(f, g, x) ==
  /\ g.curr = f.curr /\ g.given = f.given /\ g.token = f.token /\ g.branch = f.branch
  /\ g.at = f.at /\ g.own = f.own
  /\ g.raced = IF f.curr = x /\ f.at # "inject" THEN TRUE ELSE f.raced

LEMMA RaceFrames ==
  ASSUME InstancesTypeOK, NEW x, Race(x)
  PROVE  /\ frames' \in [Bundles -> Seq(Traversal)]
         /\ \A b \in Bundles :
              /\ Len(frames'[b]) = Len(frames[b])
              /\ \A i \in 1 .. Len(frames[b]) : RacedFrame(frames[b][i], frames'[b][i], x)
<1>1. ASSUME NEW b \in Bundles
      PROVE  /\ frames'[b] \in Seq(Traversal) /\ Len(frames'[b]) = Len(frames[b])
             /\ \A i \in 1 .. Len(frames[b]) : RacedFrame(frames[b][i], frames'[b][i], x)
  <2>1. frames[b] \in Seq(Traversal) /\ Len(frames[b]) \in Nat
    BY Typed
  <2>2. PICK s : s = frames[b]
    OBVIOUS
  <2>3. frames'[b] = [i \in 1 .. Len(s) |->
          IF s[i].curr = x /\ s[i].at # "inject" THEN [s[i] EXCEPT !.raced = TRUE] ELSE s[i]]
    BY <2>2 DEF Race
  <2>4. ASSUME NEW i \in 1 .. Len(s), NEW g, g = frames'[b][i]
        PROVE  g \in Traversal /\ RacedFrame(s[i], g, x)
    <3>1. PICK f : f = s[i]
      OBVIOUS
    <3>2. f \in Traversal
      BY <2>1, <2>2, <3>1
    <3>3. g = IF f.curr = x /\ f.at # "inject" THEN [f EXCEPT !.raced = TRUE] ELSE f
      BY <2>3, <2>4, <3>1
    <3>4. g \in Traversal
      BY <3>2, <3>3 DEF Traversal
    <3>5. RacedFrame(f, g, x)
      BY <3>2, <3>3 DEF Traversal, RacedFrame
    <3> QED
      BY <3>1, <3>4, <3>5
  <2>5. \A i \in 1 .. Len(s) : frames'[b][i] \in Traversal /\ RacedFrame(s[i], frames'[b][i], x)
    BY <2>4
  <2>6. PICK t : t = frames'[b]
    OBVIOUS
  <2>7. t = [i \in 1 .. Len(s) |-> t[i]]
    BY <2>3, <2>6
  <2>8. t \in Seq(Traversal) /\ Len(t) = Len(s)
    BY <2>1, <2>2, <2>5, <2>6, <2>7
  <2> QED
    BY <2>2, <2>5, <2>6, <2>8
<1>2. frames' = [b \in Bundles |-> frames'[b]]
  BY DEF Race
<1> QED
  BY <1>1, <1>2

LEMMA SetOwnStep ==
  ASSUME InstancesInv, SetOwn
  PROVE  InstancesInv'
<1>1. /\ setter.at = "idle" /\ UNCHANGED <<calls, memo>> /\ frames[1] # <<>> /\ 1 \in Bundles
      /\ setter' = [at |-> "between", node |-> Top(1).curr]
      /\ heap' = [heap EXCEPT ![Top(1).curr].own = NewOwn]
  BY InstancesAssumption DEF SetOwn
<1>2. /\ InstancesTypeOK /\ CloningInv /\ WiringStands /\ CallsStand
      /\ \A b \in Bundles : StackStands(b)
  BY DEF InstancesInv, CloningInv, VisitsInv
<1>3. PICK y : y = Top(1).curr
  OBVIOUS
<1>4. y \in 1 .. Len(heap) /\ heap \in Seq(NodeRecord) /\ heap[y] \in NodeRecord
      /\ Len(heap) \in Nat
  BY <1>1, <1>2, <1>3, Typed, TopStands
<1>5. PICK n : n = heap[y]
  OBVIOUS
<1>6. PICK node : node = [n EXCEPT !.own = NewOwn]
  OBVIOUS
<1>7. /\ node \in NodeRecord /\ node.kind = n.kind /\ node.succ = n.succ
      /\ node.inner = n.inner /\ node.own = NewOwn /\ node.params = n.params
      /\ node.signal = n.signal
  BY <1>4, <1>5, <1>6, NewOwnIs DEF NodeRecord
<1>8. heap' = [heap EXCEPT ![y] = node]
  BY <1>1, <1>3, <1>5, <1>6
<1>9. /\ heap' \in Seq(NodeRecord) /\ Len(heap') = Len(heap) /\ heap'[y] = node
      /\ \A j \in 1 .. Len(heap) : j # y => heap'[j] = heap[j]
  BY <1>4, <1>7, <1>8, HeapWritten
<1>10. /\ frames' \in [Bundles -> Seq(Traversal)]
       /\ \A b \in Bundles :
            /\ Len(frames'[b]) = Len(frames[b])
            /\ \A i \in 1 .. Len(frames[b]) : RacedFrame(frames[b][i], frames'[b][i], y)
  <2>1. Race(y)
    BY <1>3 DEF SetOwn
  <2> QED
    BY <1>2, <2>1, RaceFrames
<1>11. InstancesTypeOK'
  <2>1. /\ node.inner \in 0 .. Len(heap)
        /\ \A a \in Actions : node.succ[a] \in 0 .. Len(heap)
    BY <1>2, <1>4, <1>5, <1>7 DEF InstancesTypeOK
  <2>2. ASSUME NEW c \in Bundles, NEW k \in 1 .. Len(frames'[c])
        PROVE  frames'[c][k].curr \in 1 .. Len(heap)
    <3>1. k \in 1 .. Len(frames[c]) /\ frames'[c][k].curr = frames[c][k].curr
      BY <1>10 DEF RacedFrame
    <3> QED
      BY <1>2, <3>1 DEF InstancesTypeOK
  <2>3. setter' \in [at : {"idle", "between", "done"}, node : 0 .. Len(heap)]
    BY <1>1, <1>3, <1>4
  <2>4. calls' \in [Bundles -> Seq(CallRecord)]
    BY <1>1, <1>2 DEF InstancesTypeOK
  <2> QED
    BY <1>1, <1>2, <1>4, <1>7, <1>8, <1>10, <2>1, <2>2, <2>3, <2>4, WriteTyped
<1>12. setter'.at = "between" /\ setter'.node = y
  BY <1>1, <1>3
<1>13. \A j \in 1 .. Len(heap) :
         /\ heap'[j].kind = heap[j].kind /\ heap'[j].succ = heap[j].succ
         /\ heap'[j].inner = heap[j].inner /\ heap'[j].params = heap[j].params
         /\ heap'[j].signal = heap[j].signal
         /\ j # y => heap'[j].own = heap[j].own
  <2>1. ASSUME NEW j \in 1 .. Len(heap)
        PROVE  /\ heap'[j].kind = heap[j].kind /\ heap'[j].succ = heap[j].succ
               /\ heap'[j].inner = heap[j].inner /\ heap'[j].params = heap[j].params
               /\ heap'[j].signal = heap[j].signal
               /\ j # y => heap'[j].own = heap[j].own
    <3>1. CASE j = y
      BY <1>5, <1>7, <1>9, <3>1
    <3>2. CASE j # y
      BY <1>9, <3>2
    <3> QED
      BY <3>1, <3>2
  <2> QED
    BY <2>1
<1>14. /\ CloningInv' /\ Branches' = Branches /\ \A x \in Template : Within(x)' = Within(x)
  <2>1. ASSUME NEW b \in Bundles
        PROVE  /\ calls[b] # <<>> => frames'[b] = <<>>
               /\ frames'[b] # <<>> => memo[b] # <<>>
    <3>1. frames'[b] # <<>> => frames[b] # <<>>
      <4>1. frames'[b] \in Seq(Traversal) /\ frames[b] \in Seq(Traversal)
        BY <1>2, <1>10, Typed
      <4>2. frames[b] = <<>> => Len(frames[b]) = 0
        OBVIOUS
      <4>3. Len(frames'[b]) = 0 => frames'[b] = <<>>
        BY <4>1, EmptySeq
      <4> QED
        BY <1>10, <4>2, <4>3
    <3> QED
      BY <1>2, <3>1 DEF CallsStand
  <2> QED
    BY <1>1, <1>2, <1>9, <1>12, <1>13, <2>1, QuietClones
<1>15. ASSUME NEW b \in Bundles, NEW i \in 1 .. Len(frames[b]),
              NEW f, f = frames[b][i], NEW g, g = frames'[b][i]
       PROVE  FrameStands(b, g)'
  <2>1. FrameStands(b, f) /\ f.curr \in 1 .. Len(heap) /\ RacedFrame(f, g, y)
    BY <1>2, <1>10, <1>15 DEF StackStands, InstancesTypeOK
  <2>2. Located(b, g)'
    BY <1>1, <1>14, <2>1 DEF FrameStands, Located, RacedFrame
  <2>3. ASSUME f.curr \notin Branches PROVE VisitStands(b, g)'
    <3>1. VisitStands(b, f) /\ ~f.raced
      BY <1>1, <2>1, <2>3 DEF FrameStands, VisitStands, RacedStands
    <3>2. RacedStands(g)'
      BY <1>12, <2>1 DEF RacedStands, RacedFrame
    <3>3. g.at # "inject" /\ ~g.raced => g.own = heap'[g.curr].own
      BY <1>13, <2>1, <3>1 DEF VisitStands, RacedFrame
    <3>4. InVisit(f) =>
            /\ heap[f.curr].signal = f.token /\ f.own = heap[f.curr].own
            /\ heap[f.curr].params = Expected(f.given, f.own)
      BY <3>1 DEF VisitStands, InVisit
    <3>5. InVisit(g)' <=> InVisit(f)
      BY <2>1 DEF InVisit, RacedFrame
    <3>6. InVisit(f) =>
            /\ heap'[g.curr].signal = g.token
            /\ heap'[g.curr].params = Expected(g.given, g.own)
      BY <1>13, <2>1, <3>4 DEF RacedFrame
    <3>7. InVisit(f) => heap'[g.curr].params \in {Expected(g.given, heap'[g.curr].own)} \cup
            IF g.raced THEN {Expected(g.given, g.own), NewOwn} ELSE {}
      <4>1. CASE g.raced
        BY <3>6, <4>1
      <4>2. CASE ~g.raced
        BY <3>3, <3>5, <3>6, <4>2, <2>1 DEF InVisit, RacedFrame
      <4> QED
        BY <4>1, <4>2
    <3>8. ~g.branch /\ Range(g.given) \subseteq {b, 0}
      BY <2>1, <3>1 DEF VisitStands, RacedFrame
    <3> QED
      BY <3>2, <3>3, <3>5, <3>6, <3>7, <3>8 DEF VisitStands
  <2>4. /\ g.at = "enter" => g.branch
        /\ g.at = "prep" => heap'[g.curr].kind # "plain"
        /\ g.curr = f.curr
    BY <1>13, <2>1 DEF FrameStands, RacedFrame
  <2> QED
    BY <1>14, <2>2, <2>3, <2>4 DEF FrameStands
<1>16. ASSUME NEW b \in Bundles PROVE StackStands(b)'
  <2>1. /\ memo'[b] = memo[b] /\ Len(frames'[b]) = Len(frames[b])
        /\ \A i \in 1 .. Len(frames[b]) : /\ frames'[b][i].curr = frames[b][i].curr
                                          /\ frames'[b][i].at = frames[b][i].at
    BY <1>1, <1>10 DEF RacedFrame
  <2>2. NestStands(b)'
    BY <1>2, <1>14, <2>1 DEF StackStands, NestStands, IsOf
  <2>3. ASSUME NEW i \in 1 .. Len(frames'[b])
        PROVE  /\ FrameStands(b, frames[b][i])'
               /\ i < Len(frames'[b]) => frames'[b][i].at = "inside"
    <3>1. PICK g : g = frames'[b][i]
      OBVIOUS
    <3>2. FrameStands(b, g)'
      BY <1>15, <2>1, <2>3, <3>1
    <3>3. i < Len(frames'[b]) => frames'[b][i].at = "inside"
      BY <1>2, <2>1 DEF StackStands
    <3> QED
      BY <3>1, <3>2, <3>3 DEF FrameStands, VisitStands, RacedStands, Located
  <2> QED
    BY <2>2, <2>3 DEF StackStands
<1>17. SetterStands'
  BY <1>4, <1>9, <1>12 DEF SetterStands
<1> QED
  BY <1>11, <1>14, <1>16, <1>17 DEF InstancesInv, VisitsInv

--------------------------------------------------------------------------------
(***************************************************************************)
(* The steps of the cloning.                                                *)
(***************************************************************************)

LEMMA EmptyStack ==
  ASSUME NEW b, frames'[b] = <<>>
  PROVE  StackStands(b)'
<1>1. PICK t : t = <<>>
  OBVIOUS
<1>2. frames'[b] = t /\ Len(t) = 0
  BY <1>1
<1>3. \A i : i \notin 1 .. Len(frames'[b])
  BY <1>2
<1> QED
  BY <1>3 DEF StackStands, NestStands

\* The other bundles' traversals while a bundle's graph is written.
LEMMA OthersStand ==
  ASSUME InstancesInv, NEW b \in Bundles,
         \A c \in Bundles : c # b => frames'[c] = frames[c] /\ memo'[c] = memo[c],
         setter' = setter,
         Branches' = Branches, \A x \in Template : Within(x)' = Within(x),
         \A j \in 1 .. Len(heap) : j \notin Range(memo[b]) => heap'[j] = heap[j]
  PROVE  \A c \in Bundles : c # b => StackStands(c)'
<1>1. InstancesTypeOK /\ WiringStands /\ MemoStands /\ \A c \in Bundles : StackStands(c)
  BY DEF InstancesInv, CloningInv, VisitsInv
<1>2. ASSUME NEW c \in Bundles, c # b, NEW i \in 1 .. Len(frames[c])
      PROVE  LET y == frames[c][i].curr IN heap'[y] = heap[y]
  <2>1. PICK y : y = frames[c][i].curr
    OBVIOUS
  <2>2. y \in 1 .. Len(heap) /\ (y \in Range(memo[c]) \/ y \in Branches)
    BY <1>1, <2>1 DEF InstancesTypeOK, StackStands, FrameStands, Located
  <2>3. y \notin Range(memo[b])
    BY <1>1, <1>2, <2>2, CopiesApart
  <2> QED
    BY <2>1, <2>2, <2>3
<1>3. ASSUME NEW c \in Bundles, c # b PROVE StackStands(c)'
  BY <1>1, <1>2, <1>3, StackSame
<1> QED
  BY <1>3

LEMMA CopiesStep ==
  ASSUME InstancesInv, NEW b \in Bundles, NEW x \in Reached(heap, {1}, Starts),
         NEW callers \in Seq(CallRecord),
         x \notin DOMAIN memo[b], Copies(b, x, callers), CallersStand(b, callers),
         memo[b] = <<>> => x = 1, frames[b] = <<>>, UNCHANGED <<frames, setter>>
  PROVE  InstancesInv'
<1>1. InstancesTypeOK /\ CloningInv /\ WiringStands /\ SetterStands
  BY DEF InstancesInv, CloningInv, VisitsInv
<1>2. x \in Template
  BY DEF Reached
<1>3. /\ \A y \in 1 .. Len(heap) : heap'[y] = heap[y]
      /\ Len(heap') = Len(heap) + 1 /\ SameShape(heap', heap)
      /\ \A c \in Bundles : c # b => memo'[c] = memo[c]
  BY <1>1, <1>2, CopiesAdd
<1>4. Len(heap) \in Nat /\ Templates <= Len(heap) /\ Templates \in Nat
  BY <1>1, Typed, InstancesAssumption DEF WiringStands
<1>5. InstancesTypeOK' /\ CloningInv'
  BY <1>1, <1>2, CopiesTyped, CopiesClones
<1>6. Branches' = Branches /\ \A y \in Template : Within(y)' = Within(y)
  <2>1. Templates <= Len(heap')
    BY <1>3, <1>4
  <2> QED
    BY <1>1, <1>3, <2>1, WiringKeeps
<1>7. \A c \in Bundles : c # b => StackStands(c)'
  <2>1. frames' = frames /\ setter' = setter
    OBVIOUS
  <2> QED
    BY <1>3, <1>6, <2>1, OthersStand
<1>8. StackStands(b)'
  BY EmptyStack
<1>9. SetterStands'
  BY <1>1, <1>3, <1>4 DEF SetterStands
<1> QED
  BY <1>5, <1>7, <1>8, <1>9, AllStand

\* What a copied node leads to is to be copied.
LEMMA CopiedLeads ==
  ASSUME InstancesTypeOK, CloningInv, NEW b \in Bundles, NEW x \in DOMAIN memo[b]
  PROVE  /\ \A a \in Actions : heap[x].succ[a] # 0 =>
              heap[x].succ[a] \in Reached(heap, {1}, Starts)
         /\ heap[x].kind \in Starts /\ heap[x].inner # 0 =>
              heap[x].inner \in Reached(heap, {1}, Starts)
<1>1. Wired(heap) /\ x \in Reached(heap, {1}, Starts)
  BY DEF CloningInv, WiringStands, Wired, MemoStands
<1>2. {1} \subseteq 0 .. Templates
  BY InstancesAssumption
<1>3. ClosedIn(heap, Starts, Reached(heap, {1}, Starts))
  BY <1>1, <1>2, ReachedIsClosed
<1> QED
  BY <1>1, <1>3 DEF ClosedIn

LEMMA BeginStep ==
  ASSUME InstancesInv, NEW b \in Bundles, Begin(b)
  PROVE  InstancesInv'
<1>1. /\ memo[b] = <<>> /\ Copies(b, 1, <<>>) /\ UNCHANGED <<frames, setter>>
      /\ InstancesTypeOK /\ CloningInv
  BY DEF Begin, InstancesInv
<1>2. DOMAIN memo[b] = {} /\ calls[b] \in Seq(CallRecord)
  BY <1>1, Typed
<1>3. frames[b] = <<>>
  BY <1>1 DEF CloningInv, CallsStand
<1>4. PICK callers : callers = <<>>
  OBVIOUS
<1>5. callers \in Seq(CallRecord) /\ Len(callers) = 0
  BY <1>4
<1>6. CallersStand(b, callers)
  <2>1. \A i \in 1 .. Len(calls[b]) : calls[b][i].node \in DOMAIN memo[b]
    BY <1>1 DEF CloningInv, CallsStand
  <2>2. Len(calls[b]) \in Nat
    BY <1>2
  <2>3. 1 \notin 1 .. Len(calls[b])
    BY <1>2, <2>1
  <2>4. Len(calls[b]) = 0
    BY <2>2, <2>3
  <2> QED
    BY <1>5, <2>4 DEF CallersStand
<1>7. 1 \in Reached(heap, {1}, Starts)
  <2>1. Wired(heap)
    BY <1>1 DEF CloningInv, WiringStands, Wired
  <2>2. {1} \subseteq 0 .. Templates
    BY InstancesAssumption
  <2>3. {1} \subseteq Reached(heap, {1}, Starts) \cup {0}
    BY <2>1, <2>2, ReachedIsClosed
  <2> QED
    BY <2>3
<1> QED
  BY <1>1, <1>2, <1>3, <1>4, <1>5, <1>6, <1>7, CopiesStep

LEMMA CloneSuccessorStep ==
  ASSUME InstancesInv, NEW b \in Bundles, CloneSuccessor(b)
  PROVE  InstancesInv'
<1>1. /\ InstancesTypeOK /\ CloningInv /\ WiringStands /\ MemoStands /\ SetterStands
      /\ calls[b] # <<>> /\ UNCHANGED <<frames, setter>>
  BY DEF InstancesInv, CloningInv, VisitsInv, CloneSuccessor
<1>2. PICK a \in Call(b).next :
        LET y == heap[CopyOf(b)].succ[a]
        IN  \/ /\ y \notin DOMAIN memo[b]
               /\ Copies(b, y, SetCall(b, [Call(b) EXCEPT !.next = {a}]))
            \/ /\ y \in DOMAIN memo[b]
               /\ heap' = [heap EXCEPT ![CopyOf(b)].succ[a] = memo[b][y]]
               /\ calls' = [calls EXCEPT ![b] =
                             SetCall(b, [Call(b) EXCEPT !.todo = @ \ {a}, !.next = Call(b).todo \ {a}])]
               /\ UNCHANGED memo
  BY DEF CloneSuccessor
<1>3. PICK y : y = heap[CopyOf(b)].succ[a]
  OBVIOUS
<1>4. PICK call : call = Call(b)
  OBVIOUS
<1>5. /\ call \in CallRecord /\ call = calls[b][Len(calls[b])] /\ call.node \in DOMAIN memo[b]
      /\ call.next \subseteq call.todo /\ Pending(b, call.node, a)
      /\ CopyStands(b, call.node) /\ CopyOf(b) = memo[b][call.node] /\ frames[b] = <<>>
      /\ Len(calls[b]) \in Nat /\ Len(calls[b]) > 0 /\ CopyOf(b) \in 1 .. Len(heap)
      /\ calls[b] \in Seq(CallRecord)
  BY <1>1, <1>2, <1>4, CallStands, Typed
<1>6. a \in Actions /\ a \in call.todo
  BY <1>2, <1>4, <1>5 DEF CallRecord
<1>7. y = heap[call.node].succ[a] /\ y # 0
  BY <1>3, <1>5, <1>6 DEF CopyStands
<1>8. CASE /\ y \notin DOMAIN memo[b]
           /\ Copies(b, y, SetCall(b, [Call(b) EXCEPT !.next = {a}]))
  <2>1. PICK waits : waits = [call EXCEPT !.next = {a}]
    OBVIOUS
  <2>2. /\ waits \in CallRecord /\ waits.node = call.node /\ waits.todo = call.todo
        /\ waits.next = {a}
    BY <1>5, <1>6, <2>1 DEF CallRecord
  <2>3. PICK callers : callers = Append(Front(calls[b]), waits)
    OBVIOUS
  <2>4. /\ callers \in Seq(CallRecord) /\ Len(callers) = Len(calls[b])
        /\ \A i \in 1 .. Len(calls[b]) :
             callers[i] = IF i = Len(calls[b]) THEN waits ELSE calls[b][i]
    BY <1>1, <1>5, <2>2, <2>3, TopReplaced
  <2>5. CallersStand(b, callers)
    <3>1. ASSUME NEW i \in 1 .. Len(callers)
          PROVE  /\ callers[i].node = calls[b][i].node
                 /\ callers[i].todo = calls[b][i].todo
                 /\ callers[i].next \subseteq callers[i].todo
      <4>1. CASE i = Len(calls[b])
        BY <1>5, <1>6, <2>2, <2>4, <4>1
      <4>2. CASE i # Len(calls[b])
        BY <1>1, <2>4, <4>2 DEF CloningInv, CallsStand
      <4> QED
        BY <4>1, <4>2
    <3> QED
      BY <2>4, <3>1 DEF CallersStand
  <2>6. Copies(b, y, callers)
    BY <1>4, <1>8, <2>1, <2>3 DEF SetCall
  <2>7. y \in Reached(heap, {1}, Starts)
    BY <1>1, <1>5, <1>6, <1>7, CopiedLeads
  <2>8. memo[b] # <<>>
    BY <1>1, <1>5, Typed
  <2> QED
    BY <1>1, <1>5, <1>8, <2>4, <2>5, <2>6, <2>7, <2>8, CopiesStep
<1>9. CASE /\ y \in DOMAIN memo[b]
           /\ WiresEdge(b, a)
  <2>1. heap[CopyOf(b)].succ[a] \in DOMAIN memo[b]
    BY <1>3, <1>9
  <2>2. InstancesTypeOK' /\ CloningInv'
    BY <1>1, <1>2, <1>9, <2>1, EdgeClones
  <2>3. memo' = memo /\ frames' = frames /\ setter' = setter
    BY <1>9 DEF WiresEdge
  <2>4. PICK z : z = CopyOf(b)
    OBVIOUS
  <2>5. /\ Len(heap') = Len(heap)
        /\ \A j \in 1 .. Len(heap) : j # CopyOf(b) => heap'[j] = heap[j]
    BY <1>1, <1>2, <1>9, <2>1, EdgeWired
  <2>6. z \in Range(memo[b]) /\ z > Templates
    BY <1>1, <1>5, <2>4 DEF Range, MemoStands
  <2>7. SameShape(heap', heap)
    <3>1. \A x \in Template : x # z /\ x \in 1 .. Len(heap)
      BY <1>1, <2>6, Typed, InstancesAssumption DEF Template, WiringStands
    <3> QED
      BY <2>4, <2>5, <3>1 DEF SameShape
  <2>8. Branches' = Branches /\ \A x \in Template : Within(x)' = Within(x)
    <3>1. Templates <= Len(heap')
      BY <1>1, <2>5 DEF WiringStands
    <3> QED
      BY <1>1, <2>7, <3>1, WiringKeeps
  <2>9. \A c \in Bundles : c # b => StackStands(c)'
    BY <2>3, <2>4, <2>5, <2>6, <2>8, OthersStand
  <2>10. StackStands(b)'
    BY <1>5, <2>3, EmptyStack
  <2>11. SetterStands'
    BY <1>1, <2>3, <2>5 DEF SetterStands
  <2> QED
    BY <2>2, <2>9, <2>10, <2>11, AllStand
<1>10. \/ /\ y \notin DOMAIN memo[b]
          /\ Copies(b, y, SetCall(b, [Call(b) EXCEPT !.next = {a}]))
       \/ /\ y \in DOMAIN memo[b]
          /\ WiresEdge(b, a)
  BY <1>1, <1>2, <1>3 DEF WiresEdge
<1> QED
  BY <1>8, <1>9, <1>10

LEMMA CloneStartNodeStep ==
  ASSUME InstancesInv, NEW b \in Bundles, CloneStartNode(b)
  PROVE  InstancesInv'
<1>1. /\ InstancesTypeOK /\ CloningInv /\ calls[b] # <<>>
      /\ StartNode(b) # 0 /\ StartNode(b) \notin DOMAIN memo[b]
      /\ Copies(b, StartNode(b), calls[b]) /\ UNCHANGED <<frames, setter>>
  BY DEF InstancesInv, CloneStartNode
<1>2. PICK x : x = StartNode(b)
  OBVIOUS
<1>3. PICK u : u = Call(b).node
  OBVIOUS
<1>4. u \in DOMAIN memo[b] /\ frames[b] = <<>> /\ calls[b] \in Seq(CallRecord)
  BY <1>1, <1>3, CallStands, Typed
<1>5. x = heap[u].inner /\ heap[u].kind \in Starts
  BY <1>1, <1>2, <1>3 DEF StartNode, ClonesInner, Starts
<1>6. x \in Reached(heap, {1}, Starts)
  BY <1>1, <1>2, <1>4, <1>5, CopiedLeads
<1>7. CallersStand(b, calls[b])
  BY <1>1 DEF CallersStand, CloningInv, CallsStand
<1>8. memo[b] # <<>>
  BY <1>1, <1>4, Typed
<1>9. PICK callers : callers = calls[b]
  OBVIOUS
<1> QED
  BY <1>1, <1>2, <1>4, <1>6, <1>7, <1>8, <1>9, CopiesStep

LEMMA CloneReturnsStep ==
  ASSUME InstancesInv, NEW b \in Bundles, CloneReturns(b)
  PROVE  InstancesInv'
<1>1. /\ InstancesTypeOK /\ CloningInv /\ MemoStands /\ SetterStands /\ calls[b] # <<>>
      /\ UNCHANGED <<memo, setter>>
  BY DEF InstancesInv, CloningInv, VisitsInv, CloneReturns
<1>2. /\ InstancesTypeOK' /\ CloningInv'
      /\ Branches' = Branches /\ \A x \in Template : Within(x)' = Within(x)
      /\ \A j \in 1 .. Len(heap) : j # CopyOf(b) => heap'[j] = heap[j]
  BY <1>1, ReturnClones
<1>3. PICK f : f = Frame(memo[b][1], [unit |-> b], Linked, 0, FALSE)
  OBVIOUS
<1>4. PICK given : given = [unit |-> b]
  OBVIOUS
<1>5. /\ \A c \in Bundles : c # b => frames'[c] = frames[c]
      /\ frames'[b] = <<>> \/
           /\ f \in Traversal /\ frames'[b] = <<f>>
           /\ f.curr = memo[b][1] /\ f.given = given /\ ~f.branch
           /\ ~f.raced /\ ~InVisit(f) /\ f.at = "inject"
      /\ 1 \in DOMAIN memo[b]
  BY <1>1, <1>3, <1>4, ReturnFrames
<1>6. PICK z : z = CopyOf(b)
  OBVIOUS
<1>7. z \in Range(memo[b])
  BY <1>1, <1>6, CallStands DEF Range
<1>8. \A c \in Bundles : c # b => StackStands(c)'
  <2>1. \A c \in Bundles : c # b => frames'[c] = frames[c] /\ memo'[c] = memo[c]
    BY <1>1, <1>5
  <2>2. \A j \in 1 .. Len(heap) : j \notin Range(memo[b]) => heap'[j] = heap[j]
    BY <1>2, <1>6, <1>7
  <2>3. setter' = setter
    BY <1>1
  <2> QED
    BY <1>2, <2>1, <2>2, <2>3, OthersStand
<1>9. StackStands(b)'
  <2>1. CASE frames'[b] = <<>>
    BY <2>1, EmptyStack
  <2>2. CASE /\ f \in Traversal /\ frames'[b] = <<f>>
             /\ f.curr = memo[b][1] /\ f.given = given /\ ~f.branch
             /\ ~f.raced /\ ~InVisit(f) /\ f.at = "inject"
    <3>1. PICK t : t = <<f>>
      OBVIOUS
    <3>2. frames'[b] = t /\ Len(t) = 1 /\ t[1] = f /\ \A i \in 1 .. Len(t) : i = 1
      BY <2>2, <3>1
    <3>3. Located(b, f)'
      BY <1>1, <1>5, <2>2 DEF Located, Range
    <3>4. Range(given) \subseteq {b, 0}
      BY <1>4, UnitDict
    <3>5. RacedStands(f)' /\ ~InVisit(f)'
      BY <2>2 DEF RacedStands, InVisit
    <3>6. VisitStands(b, f)'
      BY <2>2, <3>4, <3>5 DEF VisitStands
    <3>7. FrameStands(b, f)'
      BY <2>2, <3>3, <3>6 DEF FrameStands
    <3>8. NestStands(b)'
      <4>1. \A i, j \in 1 .. Len(t) : ~(i < j)
        BY <3>2
      <4> QED
        BY <3>2, <4>1 DEF NestStands
    <3>9. ASSUME NEW i \in 1 .. Len(frames'[b])
          PROVE  /\ FrameStands(b, frames[b][i])'
                 /\ i < Len(frames'[b]) => frames'[b][i].at = "inside"
      <4>1. i = 1 /\ frames'[b][i] = f /\ ~(i < Len(frames'[b]))
        BY <3>2
      <4> QED
        BY <3>7, <4>1 DEF FrameStands, VisitStands, RacedStands, Located
    <3> QED
      BY <3>8, <3>9 DEF StackStands
  <2> QED
    BY <1>5, <2>1, <2>2
<1>10. SetterStands'
  BY <1>1, <1>2 DEF SetterStands, InstancesTypeOK
<1> QED
  BY <1>2, <1>8, <1>9, <1>10, AllStand

LEMMA InstancesStutter ==
  ASSUME InstancesInv, UNCHANGED ivars
  PROVE  InstancesInv'
<1>1. /\ heap' = heap /\ calls' = calls /\ memo' = memo /\ frames' = frames /\ setter' = setter
      /\ InstancesTypeOK /\ CloningInv /\ VisitsInv
  BY DEF ivars, InstancesInv
<1>2. InstancesTypeOK'
  BY <1>1 DEF InstancesTypeOK
<1>3. /\ CloningInv' /\ Branches' = Branches /\ \A x \in Template : Within(x)' = Within(x)
  <2>1. \A b \in Bundles : /\ calls[b] # <<>> => frames'[b] = <<>>
                           /\ frames'[b] # <<>> => memo[b] # <<>>
    BY <1>1 DEF CloningInv, CallsStand
  <2> QED
    BY <1>1, <2>1, QuietClones
<1>4. ASSUME NEW b \in Bundles PROVE StackStands(b)'
  BY <1>1, <1>3, StackSame DEF VisitsInv
<1>5. SetterStands'
  BY <1>1 DEF VisitsInv, SetterStands
<1> QED
  BY <1>2, <1>3, <1>4, <1>5 DEF InstancesInv, VisitsInv

--------------------------------------------------------------------------------
(***************************************************************************)
(* The signals.  A bundle writes its tokens wherever it enters, the         *)
(* branches that others visit included; what makes them its own is that the *)
(* tokens of two bundles differ, and that the traversals of one bundle are  *)
(* at different nodes.                                                      *)
(***************************************************************************)

\* A traversal's token is its bundle's or Linked; what its node has is that, or
\* another bundle's, or Linked.
SignalStands(b, f) ==
  /\ f.token # <<>> /\ Head(f.token) \in {b, 0}
  /\ InVisit(f) => \/ heap[f.curr].signal = f.token
                   \/ NotOwnFork(b, heap[f.curr].signal)

SignalsInv == \A b \in Bundles : \A i \in 1 .. Len(frames[b]) : SignalStands(b, frames[b][i])

LEMMA SignalKept ==
  ASSUME NEW b, NEW f, NEW g, SignalStands(b, f), g.curr = f.curr, g.token = f.token,
         InVisit(g) => InVisit(f), heap'[f.curr].signal = heap[f.curr].signal
  PROVE  SignalStands(b, g)'
BY DEF SignalStands, InVisit, NotOwnFork

LEMMA SignalToCome ==
  ASSUME NEW b, NEW g, g.token # <<>>, Head(g.token) \in {b, 0}, ~InVisit(g)
  PROVE  SignalStands(b, g)'
BY DEF SignalStands, InVisit

\* No signal is written, and one bundle at most has other traversals.
LEMMA SignalsKept ==
  ASSUME InstancesInv, SignalsInv, NEW b \in Bundles,
         \A j \in 1 .. Len(heap) : heap'[j].signal = heap[j].signal,
         \A c \in Bundles : c # b => frames'[c] = frames[c],
         \A i \in 1 .. Len(frames'[b]) : \A g : g = frames'[b][i] => SignalStands(b, g)'
  PROVE  SignalsInv'
<1>1. ASSUME NEW c \in Bundles, NEW i \in 1 .. Len(frames'[c]), NEW g, g = frames'[c][i]
      PROVE  SignalStands(c, g)'
  <2>1. CASE c = b
    BY <1>1, <2>1
  <2>2. CASE c # b
    <3>1. i \in 1 .. Len(frames[c]) /\ g = frames[c][i]
      BY <1>1, <2>2
    <3>2. g.curr \in 1 .. Len(heap) /\ SignalStands(c, g)
      BY <3>1 DEF InstancesInv, InstancesTypeOK, SignalsInv
    <3> QED
      BY <3>2, SignalKept
  <2> QED
    BY <2>1, <2>2
<1> QED
  BY <1>1 DEF SignalsInv, SignalStands

\* One node is written, but not its signal.
LEMMA SignalNotWritten ==
  ASSUME InstancesTypeOK, NEW i \in 1 .. Len(heap), NEW node, node.signal = heap[i].signal,
         heap' = [heap EXCEPT ![i] = node]
  PROVE  \A j \in 1 .. Len(heap) : heap'[j].signal = heap[j].signal
<1>1. heap \in Seq(NodeRecord)
  BY Typed
<1> QED
  BY <1>1

\* A traversal below the innermost one is at another node.
LEMMA BelowApart ==
  ASSUME InstancesInv, NEW b \in Bundles, frames[b] # <<>>, NEW i \in 1 .. Len(frames[b]) - 1
  PROVE  frames[b][i].curr # Top(b).curr
<1>1. InstancesTypeOK /\ CloningInv /\ VisitsInv /\ WiringStands
  BY DEF InstancesInv, CloningInv
<1>2. /\ i \in 1 .. Len(frames[b]) /\ Len(frames[b]) \in 1 .. Len(frames[b]) /\ i < Len(frames[b])
      /\ NestStands(b) /\ Top(b) = frames[b][Len(frames[b])]
  BY TopStands DEF StackStands
<1>3. frames[b][i].curr \in Visited(b)
  BY <1>1, <1>2 DEF VisitsInv, StackStands, FrameStands, Located, Visited
<1>4. PICK x \in Template : IsOf(b, frames[b][i].curr, x)
  BY <1>1, <1>3, Origin
<1>5. frames[b][i].curr = Top(b).curr => x \in Within(x)
  <2>1. frames[b][i].curr = Top(b).curr => IsOf(b, frames[b][Len(frames[b])].curr, x)
    BY <1>2, <1>4
  <2> QED
    BY <1>2, <1>4, <2>1 DEF NestStands
<1> QED
  BY <1>1, <1>5, BranchesStand

\* A step that writes no signal and leaves the traversals.
LEMMA QuietSignals ==
  ASSUME InstancesInv, SignalsInv, UNCHANGED frames,
         \A j \in 1 .. Len(heap) : heap'[j].signal = heap[j].signal
  PROVE  SignalsInv'
<1>1. ASSUME NEW c \in Bundles, NEW i \in 1 .. Len(frames'[c]), NEW g, g = frames'[c][i]
      PROVE  SignalStands(c, g)'
  <2>1. i \in 1 .. Len(frames[c]) /\ g = frames[c][i]
    BY <1>1
  <2>2. g.curr \in 1 .. Len(heap) /\ SignalStands(c, g)
    BY <2>1 DEF InstancesInv, InstancesTypeOK, SignalsInv
  <2> QED
    BY <2>2, SignalKept
<1> QED
  BY <1>1 DEF SignalsInv, SignalStands

\* A copy is a node more.
LEMMA CopySignals ==
  ASSUME InstancesInv, NEW b, NEW x, NEW callers, Copies(b, x, callers)
  PROVE  \A j \in 1 .. Len(heap) : heap'[j].signal = heap[j].signal
<1>1. heap \in Seq(NodeRecord) /\ Len(heap) \in Nat
  BY Typed DEF InstancesInv
<1>2. PICK node : node = NodeCoreClone(heap[x])
  OBVIOUS
<1>3. heap' = Append(heap, node)
  BY <1>2 DEF Copies
<1>4. \A j \in 1 .. Len(heap) : heap'[j] = heap[j]
  BY <1>1, <1>3
<1> QED
  BY <1>4

\* clone_node writes edges.
LEMMA EdgeSignals ==
  ASSUME InstancesInv, SignalsInv, NEW b \in Bundles, CloneSuccessor(b)
  PROVE  SignalsInv'
<1>1. InstancesTypeOK /\ CloningInv
  BY DEF InstancesInv
<1>2. calls[b] # <<>> /\ UNCHANGED <<frames, setter>>
  BY DEF CloneSuccessor
<1>3. CopyOf(b) \in 1 .. Len(heap) /\ heap[CopyOf(b)] \in NodeRecord
  BY <1>1, <1>2, CallStands, Typed
<1>4. PICK a \in Call(b).next :
        LET y == heap[CopyOf(b)].succ[a]
        IN  \/ /\ y \notin DOMAIN memo[b]
               /\ Copies(b, y, SetCall(b, [Call(b) EXCEPT !.next = {a}]))
            \/ /\ y \in DOMAIN memo[b]
               /\ heap' = [heap EXCEPT ![CopyOf(b)].succ[a] = memo[b][y]]
               /\ calls' = [calls EXCEPT ![b] =
                             SetCall(b, [Call(b) EXCEPT !.todo = @ \ {a}, !.next = Call(b).todo \ {a}])]
               /\ UNCHANGED memo
  BY DEF CloneSuccessor
<1>5. CASE Copies(b, heap[CopyOf(b)].succ[a], SetCall(b, [Call(b) EXCEPT !.next = {a}]))
  <2>1. PICK y : y = heap[CopyOf(b)].succ[a]
    OBVIOUS
  <2>2. PICK callers : callers = SetCall(b, [Call(b) EXCEPT !.next = {a}])
    OBVIOUS
  <2>3. Copies(b, y, callers)
    BY <1>5, <2>1, <2>2
  <2> QED
    BY <1>2, <2>3, QuietSignals, CopySignals
<1>6. CASE heap' = [heap EXCEPT ![CopyOf(b)].succ[a] = memo[b][heap[CopyOf(b)].succ[a]]]
  <2>1. PICK succ : succ = [heap[CopyOf(b)].succ EXCEPT ![a] = memo[b][heap[CopyOf(b)].succ[a]]]
    OBVIOUS
  <2>2. PICK node : node = [heap[CopyOf(b)] EXCEPT !.succ = succ]
    OBVIOUS
  <2>3. heap' = [heap EXCEPT ![CopyOf(b)] = node]
    BY <1>6, <2>1, <2>2
  <2>4. node.signal = heap[CopyOf(b)].signal
    BY <1>3, <2>2 DEF NodeRecord
  <2> QED
    BY <1>1, <1>2, <1>3, <2>3, <2>4, SignalNotWritten, QuietSignals
<1> QED
  BY <1>4, <1>5, <1>6

\* It writes start nodes, and the closure sets out with the Linked token.
LEMMA ReturnSignals ==
  ASSUME InstancesInv, SignalsInv, NEW b \in Bundles, CloneReturns(b)
  PROVE  SignalsInv'
<1>1. InstancesTypeOK /\ CloningInv
  BY DEF InstancesInv
<1>2. calls[b] # <<>>
  BY DEF CloneReturns
<1>3. CopyOf(b) \in 1 .. Len(heap) /\ heap[CopyOf(b)] \in NodeRecord
  BY <1>1, <1>2, CallStands, Typed
<1>4. \A j \in 1 .. Len(heap) : heap'[j].signal = heap[j].signal
  <2>1. CASE heap' = heap
    BY <2>1
  <2>2. CASE heap' = [heap EXCEPT ![CopyOf(b)].inner = memo[b][StartNode(b)]]
    <3>1. PICK node : node = [heap[CopyOf(b)] EXCEPT !.inner = memo[b][StartNode(b)]]
      OBVIOUS
    <3>2. heap' = [heap EXCEPT ![CopyOf(b)] = node]
      BY <2>2, <3>1
    <3>3. node.signal = heap[CopyOf(b)].signal
      BY <1>3, <3>1 DEF NodeRecord
    <3> QED
      BY <1>1, <1>3, <3>2, <3>3, SignalNotWritten
  <2> QED
    BY <2>1, <2>2 DEF CloneReturns
<1>5. PICK f : f = Frame(memo[b][1], [unit |-> b], Linked, 0, FALSE)
  OBVIOUS
<1>6. /\ \A c \in Bundles : c # b => frames'[c] = frames[c]
      /\ \/ frames'[b] = <<>>
         \/ frames'[b] = <<f>> /\ ~InVisit(f)
  BY <1>1, <1>5, ReturnFrames
<1>7. f.token # <<>> /\ Head(f.token) = 0
  BY <1>5 DEF Frame, Linked
<1>8. ASSUME NEW i \in 1 .. Len(frames'[b]), NEW g, g = frames'[b][i]
      PROVE  SignalStands(b, g)'
  <2>1. ~InVisit(f) /\ g = f
    BY <1>6, <1>8
  <2> QED
    BY <1>7, <2>1, SignalToCome
<1> QED
  BY <1>4, <1>6, <1>8, SignalsKept

LEMMA CloningSignals ==
  ASSUME InstancesInv, SignalsInv, NEW b \in Bundles,
         Begin(b) \/ CloneSuccessor(b) \/ CloneStartNode(b) \/ CloneReturns(b)
  PROVE  SignalsInv'
<1>1. CASE Begin(b)
  BY <1>1, QuietSignals, CopySignals DEF Begin
<1>2. CASE CloneStartNode(b)
  BY <1>2, QuietSignals, CopySignals DEF CloneStartNode
<1> QED
  BY <1>1, <1>2, EdgeSignals, ReturnSignals

\* What a visit writes it reads, and so may the other bundles that are at its
\* node; for them it is not theirs.
LEMMA EnterSignals ==
  ASSUME InstancesInv, SignalsInv, NEW b \in Bundles, frames[b] # <<>>,
         NEW params \in Dict, EnterVisit(b, params)
  PROVE  SignalsInv'
<1>1. /\ frames[b] \in Seq(Traversal) /\ Len(frames[b]) \in Nat /\ Len(frames[b]) > 0
      /\ Top(b) = frames[b][Len(frames[b])] /\ Top(b) \in Traversal
      /\ Top(b).curr \in 1 .. Len(heap)
  BY TopStands
<1>2. PICK f : f = [Top(b) EXCEPT !.at = IF heap[Top(b).curr].kind = "plain" THEN "body" ELSE "prep"]
  OBVIOUS
<1>3. f \in Traversal /\ f.curr = Top(b).curr /\ f.token = Top(b).token
  BY <1>1, <1>2 DEF Traversal
<1>4. PICK t : t = Append(Front(frames[b]), f)
  OBVIOUS
<1>5. /\ Len(t) = Len(frames[b])
      /\ \A i \in 1 .. Len(frames[b]) : t[i] = IF i = Len(frames[b]) THEN f ELSE frames[b][i]
  BY <1>1, <1>3, <1>4, TopReplaced
<1>6. frames'[b] = t /\ \A c \in Bundles : c # b => frames'[c] = frames[c]
  BY <1>2, <1>4 DEF EnterVisit, SetTop, InstancesInv, InstancesTypeOK
<1>7. /\ heap'[f.curr].signal = f.token
      /\ \A j \in 1 .. Len(heap) : j # f.curr => heap'[j].signal = heap[j].signal
  BY <1>3, EnterWrites
<1>8. f.token # <<>> /\ Head(f.token) \in {b, 0}
  <2>1. Len(frames[b]) \in 1 .. Len(frames[b])
    BY <1>1
  <2>2. SignalStands(b, Top(b))
    BY <1>1, <2>1 DEF SignalsInv
  <2> QED
    BY <1>3, <2>2 DEF SignalStands
<1>9. ASSUME NEW c \in Bundles, NEW i \in 1 .. Len(frames'[c]), NEW g, g = frames'[c][i]
      PROVE  SignalStands(c, g)'
  <2>1. CASE c = b /\ i = Len(frames[b])
    <3>1. g = f
      BY <1>1, <1>5, <1>6, <1>9, <2>1
    <3> QED
      BY <1>7, <1>8, <2>1, <3>1 DEF SignalStands, InVisit
  <2>2. CASE c = b /\ i # Len(frames[b])
    <3>1. i \in 1 .. Len(frames[b]) - 1 /\ i \in 1 .. Len(frames[b]) /\ g = frames[b][i]
      BY <1>1, <1>5, <1>6, <1>9, <2>2
    <3>2. g.curr \in 1 .. Len(heap) /\ SignalStands(b, g)
      BY <3>1 DEF InstancesInv, InstancesTypeOK, SignalsInv
    <3>3. g.curr # f.curr
      BY <1>3, <3>1, BelowApart
    <3>4. heap'[g.curr].signal = heap[g.curr].signal
      BY <1>7, <3>2, <3>3
    <3> QED
      BY <2>2, <3>2, <3>4, SignalKept
  <2>3. CASE c # b
    <3>1. i \in 1 .. Len(frames[c]) /\ g = frames[c][i]
      BY <1>6, <1>9, <2>3
    <3>2. g.curr \in 1 .. Len(heap) /\ SignalStands(c, g)
      BY <3>1 DEF InstancesInv, InstancesTypeOK, SignalsInv
    <3>3. CASE g.curr = f.curr
      <4>1. c # 0
        BY InstancesAssumption
      <4>2. heap'[g.curr].signal # <<>> /\ Head(heap'[g.curr].signal) # c
        BY <1>7, <1>8, <2>3, <3>3, <4>1
      <4> QED
        BY <3>2, <4>2 DEF SignalStands, NotOwnFork, InVisit
    <3>4. CASE g.curr # f.curr
      BY <1>7, <3>2, <3>4, SignalKept
    <3> QED
      BY <3>3, <3>4
  <2> QED
    BY <2>1, <2>2, <2>3
<1> QED
  BY <1>9 DEF SignalsInv, SignalStands

\* The innermost traversal goes on, not in a visit, or out of one.
LEMMA TopSignals ==
  ASSUME InstancesInv, SignalsInv, NEW b \in Bundles, frames[b] # <<>>, UNCHANGED heap,
         NEW f \in Traversal, f.token = Top(b).token,
         InVisit(f) => InVisit(Top(b)) /\ f.curr = Top(b).curr,
         NEW t, t = Append(Front(frames[b]), f)
  PROVE  /\ SignalStands(b, f)' /\ Len(t) = Len(frames[b])
         /\ \A i \in 1 .. Len(t) : \A g : g = t[i] => SignalStands(b, g)'
<1>1. /\ frames[b] \in Seq(Traversal) /\ Len(frames[b]) \in Nat /\ Len(frames[b]) > 0
      /\ Top(b) = frames[b][Len(frames[b])]
  BY TopStands
<1>2. SignalStands(b, Top(b))
  <2>1. Len(frames[b]) \in 1 .. Len(frames[b])
    BY <1>1
  <2> QED
    BY <1>1, <2>1 DEF SignalsInv
<1>3. SignalStands(b, f)'
  BY <1>2 DEF SignalStands, InVisit, NotOwnFork
<1>4. /\ Len(t) = Len(frames[b])
      /\ \A i \in 1 .. Len(frames[b]) : t[i] = IF i = Len(frames[b]) THEN f ELSE frames[b][i]
  BY <1>1, TopReplaced
<1>5. ASSUME NEW i \in 1 .. Len(t), NEW g, g = t[i] PROVE SignalStands(b, g)'
  <2>1. CASE i = Len(frames[b])
    BY <1>3, <1>4, <1>5, <2>1
  <2>2. CASE i # Len(frames[b])
    <3>1. i \in 1 .. Len(frames[b]) /\ g = frames[b][i]
      BY <1>4, <1>5, <2>2
    <3>2. SignalStands(b, g)
      BY <3>1 DEF SignalsInv
    <3> QED
      BY <3>2, SignalKept
  <2> QED
    BY <2>1, <2>2
<1> QED
  BY <1>3, <1>4, <1>5

\* A step of bundle b that leaves the heap, after which its traversals are t.
LEMMA RunSignals ==
  ASSUME InstancesInv, SignalsInv, NEW b \in Bundles, UNCHANGED heap,
         NEW t, frames' = [frames EXCEPT ![b] = t],
         \A i \in 1 .. Len(t) : \A g : g = t[i] => SignalStands(b, g)'
  PROVE  SignalsInv'
<1>1. frames'[b] = t /\ \A c \in Bundles : c # b => frames'[c] = frames[c]
  BY DEF InstancesInv, InstancesTypeOK
<1>2. ASSUME NEW i \in 1 .. Len(frames'[b]), NEW g, g = frames'[b][i]
      PROVE  SignalStands(b, g)'
  BY <1>1, <1>2
<1> QED
  BY <1>1, <1>2, SignalsKept

LEMMA ReadOwnSignals ==
  ASSUME InstancesInv, SignalsInv, NEW b \in Bundles, ReadOwn(b)
  PROVE  SignalsInv'
<1>1. frames[b] # <<>> /\ UNCHANGED heap
  BY DEF ReadOwn, Stands
<1>2. Top(b) \in Traversal /\ heap[Top(b).curr] \in NodeRecord
  BY <1>1, TopStands
<1>3. CASE OverBudget(Top(b))
  <2>1. PICK t : t = <<>>
    OBVIOUS
  <2>2. frames' = [frames EXCEPT ![b] = t] /\ \A i : i \notin 1 .. Len(t)
    BY <1>3, <2>1 DEF ReadOwn
  <2> QED
    BY <1>1, <2>2, RunSignals
<1>4. CASE ~OverBudget(Top(b))
  <2>1. PICK f : f = [Top(b) EXCEPT !.at = "write", !.own = heap[Top(b).curr].own, !.steps = @ + 1,
                        !.raced = setter.at = "between" /\ setter.node = Top(b).curr]
    OBVIOUS
  <2>2. PICK t : t = Append(Front(frames[b]), f)
    OBVIOUS
  <2>3. frames' = [frames EXCEPT ![b] = t]
    BY <1>4, <2>1, <2>2 DEF ReadOwn, SetTop
  <2>4. f.token = Top(b).token /\ f.curr = Top(b).curr /\ f.at = "write"
    BY <1>2, <2>1 DEF Traversal
  <2>5. f \in Traversal
    <3>1. PICK n : n = Top(b).steps
      OBVIOUS
    <3>2. n + 1 \in 0 .. MaxSteps
      <4>1. n \in 0 .. MaxSteps /\ MaxSteps \in Nat /\ ~(n >= MaxSteps)
        BY <1>2, <1>4, <3>1, InstancesAssumption DEF Traversal, OverBudget
      <4> QED
        BY <4>1
    <3>3. PICK raced \in BOOLEAN : raced = (setter.at = "between" /\ setter.node = Top(b).curr)
      OBVIOUS
    <3>4. f = [Top(b) EXCEPT !.at = "write", !.own = heap[Top(b).curr].own, !.steps = n + 1,
                             !.raced = raced]
      BY <2>1, <3>1, <3>3
    <3> QED
      BY <1>2, <3>2, <3>4 DEF Traversal, NodeRecord
  <2>6. \A i \in 1 .. Len(t) : \A g : g = t[i] => SignalStands(b, g)'
    BY <1>1, <2>2, <2>4, <2>5, TopSignals DEF InVisit
  <2> QED
    BY <1>1, <2>3, <2>6, RunSignals
<1> QED
  BY <1>3, <1>4

\* The token of a fork begins with its bundle.
LEMMA ForkTokenIs ==
  ASSUME InstancesInv, NEW b \in Bundles, frames[b] # <<>>
  PROVE  ForkToken(b) # <<>> /\ Head(ForkToken(b)) = b
<1> DEFINE s == [i \in 1 .. Len(frames[b]) |-> frames[b][i].steps]
<1>1. frames[b] \in Seq(Traversal) /\ Len(frames[b]) \in Nat
  BY TopStands
<1>2. \A i \in 1 .. Len(frames[b]) : frames[b][i] \in Traversal
  BY <1>1
<1>3. \A i \in 1 .. Len(frames[b]) : frames[b][i].steps \in Nat
  BY <1>2, InstancesAssumption DEF Traversal
<1>4. s \in Seq(Nat)
  BY <1>1, <1>3
<1>5. b \in Nat
  BY InstancesAssumption
<1> HIDE DEF s
<1>6. PICK r : r = <<b>> \o s
  OBVIOUS
<1>7. r \in Seq(Nat) /\ r[1] = b /\ Len(r) > 0
  BY <1>4, <1>5, <1>6
<1>8. r # <<>> /\ Head(r) = b
  BY <1>7
<1> QED
  BY <1>6, <1>8 DEF ForkToken, s

LEMMA DescendSignals ==
  ASSUME InstancesInv, SignalsInv, NEW b \in Bundles, Descend(b)
  PROVE  SignalsInv'
<1>1. frames[b] # <<>> /\ Top(b).at = "prep" /\ UNCHANGED heap
  BY DEF Descend, Stands
<1>2. /\ Top(b) \in Traversal /\ frames[b] \in Seq(Traversal)
      /\ Len(frames[b]) \in Nat /\ Len(frames[b]) > 0 /\ Top(b) = frames[b][Len(frames[b])]
  BY <1>1, TopStands
<1>3. PICK node : node = heap[Top(b).curr]
  OBVIOUS
<1>4. PICK token : token = IF node.kind = "fork" THEN ForkToken(b) ELSE Top(b).token
  OBVIOUS
<1>5. PICK low : low = [Top(b) EXCEPT !.at = "inside"]
  OBVIOUS
<1>6. PICK new : new = Frame(node.inner, Gives(b, node), token, 0, node.kind \in {"fork", "sub"})
  OBVIOUS
<1>7. PICK s : s = Append(Front(frames[b]), low)
  OBVIOUS
<1>8. PICK t : t = Append(s, new)
  OBVIOUS
<1>9. frames' = [frames EXCEPT ![b] = t]
  BY <1>3, <1>4, <1>5, <1>6, <1>7, <1>8 DEF Descend, Push
<1>10. low \in Traversal /\ low.token = Top(b).token /\ low.curr = Top(b).curr
  BY <1>2, <1>5 DEF Traversal
<1>11. /\ Len(s) = Len(frames[b])
       /\ \A i \in 1 .. Len(s) : \A g : g = s[i] => SignalStands(b, g)'
  BY <1>1, <1>7, <1>10, TopSignals DEF InVisit
<1>12. SignalStands(b, new)'
  <2>1. new.token = token /\ ~InVisit(new)
    BY <1>6 DEF Frame, InVisit
  <2>2. Top(b).token # <<>> /\ Head(Top(b).token) \in {b, 0}
    <3>1. Len(frames[b]) \in 1 .. Len(frames[b])
      BY <1>2
    <3> QED
      BY <1>2, <3>1 DEF SignalsInv, SignalStands
  <2>3. token # <<>> /\ Head(token) \in {b, 0}
    BY <1>1, <1>4, <2>2, ForkTokenIs
  <2> QED
    BY <2>1, <2>3, SignalToCome
<1>13. ASSUME NEW i \in 1 .. Len(t), NEW g, g = t[i] PROVE SignalStands(b, g)'
  <2>1. s \in Seq(Traversal)
    BY <1>1, <1>2, <1>7, <1>10, TopReplaced
  <2>2. (i \in 1 .. Len(s) /\ g = s[i]) \/ g = new
    BY <1>8, <1>13, <2>1
  <2> QED
    BY <1>11, <1>12, <2>2
<1> QED
  BY <1>1, <1>9, <1>13, RunSignals

LEMMA SettlesSignals ==
  ASSUME InstancesInv, SignalsInv, NEW b \in Bundles, Settles(b)
  PROVE  SignalsInv'
<1>1. frames[b] # <<>> /\ UNCHANGED heap
  BY DEF Settles, Stands
<1>2. /\ Top(b) \in Traversal /\ frames[b] \in Seq(Traversal)
      /\ Len(frames[b]) \in Nat /\ Len(frames[b]) > 0
  BY <1>1, TopStands
<1>3. ASSUME NEW a \in Actions, heap[Top(b).curr].succ[a] # 0,
             SetTop(b, Frame(heap[Top(b).curr].succ[a], Top(b).given, Top(b).token, Top(b).steps, FALSE))
      PROVE  SignalsInv'
  <2>1. PICK f : f = Frame(heap[Top(b).curr].succ[a], Top(b).given, Top(b).token, Top(b).steps, FALSE)
    OBVIOUS
  <2>2. PICK t : t = Append(Front(frames[b]), f)
    OBVIOUS
  <2>3. frames' = [frames EXCEPT ![b] = t]
    BY <1>3, <2>1, <2>2 DEF SetTop
  <2>4. f \in Traversal /\ ~InVisit(f) /\ f.token = Top(b).token
    <3>1. PICK top \in Traversal : top = Top(b)
      BY <1>2
    <3>2. PICK x \in Nat : x = heap[top.curr].succ[a]
      <4>1. PICK node \in NodeRecord : node = heap[top.curr]
        BY <1>1, <3>1, TopStands
      <4>2. node.succ \in [Actions -> Nat] /\ a \in Actions
        BY <1>3 DEF NodeRecord
      <4> QED
        BY <4>1, <4>2
    <3>3. PICK branch \in BOOLEAN : branch = FALSE
      OBVIOUS
    <3>4. top.given \in Dict /\ top.token \in Seq(Nat) /\ top.steps \in 0 .. MaxSteps
      BY DEF Traversal
    <3>5. f = Frame(x, top.given, top.token, top.steps, branch)
      BY <2>1, <3>1, <3>2, <3>3
    <3>6. f \in Traversal /\ ~InVisit(f)
      BY <3>4, <3>5, FrameTyped
    <3> QED
      BY <3>1, <3>5, <3>6 DEF Frame
  <2>5. \A i \in 1 .. Len(t) : \A g : g = t[i] => SignalStands(b, g)'
    BY <1>1, <2>2, <2>4, TopSignals
  <2> QED
    BY <1>1, <2>3, <2>5, RunSignals
<1>4. ASSUME frames' = [frames EXCEPT ![b] = <<>>] PROVE SignalsInv'
  <2>1. PICK t : t = <<>>
    OBVIOUS
  <2>2. frames' = [frames EXCEPT ![b] = t] /\ \A i : i \notin 1 .. Len(t)
    BY <1>4, <2>1
  <2> QED
    BY <1>1, <2>2, RunSignals
<1>5. ASSUME Len(frames[b]) > 1, Pop(b, [Last(Front(frames[b])) EXCEPT !.at = "body"])
      PROVE  SignalsInv'
  <2>1. PICK s : s = Front(frames[b])
    OBVIOUS
  <2>2. PICK f : f = [Last(s) EXCEPT !.at = "body"]
    OBVIOUS
  <2>3. PICK t : t = Append(Front(s), f)
    OBVIOUS
  <2>4. frames' = [frames EXCEPT ![b] = t]
    BY <1>5, <2>1, <2>2, <2>3 DEF Pop
  <2>5. /\ s \in Seq(Traversal) /\ Len(s) = Len(frames[b]) - 1
        /\ \A i \in 1 .. Len(frames[b]) - 1 : s[i] = frames[b][i]
    BY <1>1, <1>2, <2>1, FrontOfStack
  <2>6. s # <<>>
    <3>1. Len(s) # 0
      BY <1>2, <1>5, <2>5
    <3> QED
      BY <3>1
  <2>7. Last(s) = s[Len(s)] /\ Last(s) \in Traversal /\ Len(s) \in Nat /\ Len(s) > 0
    BY <2>5, <2>6, FrontOfStack
  <2>8. PICK low : low = Last(s)
    OBVIOUS
  <2>9. f \in Traversal /\ f.token = low.token /\ f.curr = low.curr
    BY <2>2, <2>7, <2>8 DEF Traversal
  <2>10. /\ Len(t) = Len(s)
         /\ \A i \in 1 .. Len(s) : t[i] = IF i = Len(s) THEN f ELSE s[i]
    BY <2>3, <2>5, <2>6, <2>9, TopReplaced
  <2>11. \A i \in 1 .. Len(s) : i \in 1 .. Len(frames[b]) /\ s[i] = frames[b][i] /\ i < Len(frames[b])
    BY <1>2, <2>5
  <2>12. SignalStands(b, low) /\ InVisit(low)
    <3>1. Len(s) \in 1 .. Len(s)
      BY <2>7
    <3>2. PICK i \in 1 .. Len(frames[b]) : low = frames[b][i] /\ i < Len(frames[b])
      BY <2>7, <2>8, <2>11, <3>1
    <3>3. low.at = "inside"
      BY <1>1, <3>2, TopStands DEF StackStands
    <3> QED
      BY <3>2, <3>3 DEF SignalsInv, InVisit
  <2>13. SignalStands(b, f)'
    BY <1>1, <2>9, <2>12, SignalKept
  <2>14. ASSUME NEW i \in 1 .. Len(t), NEW g, g = t[i] PROVE SignalStands(b, g)'
    <3>1. CASE i = Len(s)
      BY <2>10, <2>13, <2>14, <3>1
    <3>2. CASE i # Len(s)
      <4>1. i \in 1 .. Len(frames[b]) /\ g = frames[b][i]
        BY <2>10, <2>11, <2>14, <3>2
      <4>2. SignalStands(b, g)
        BY <4>1 DEF SignalsInv
      <4> QED
        BY <1>1, <4>2, SignalKept
    <3> QED
      BY <3>1, <3>2
  <2> QED
    BY <1>1, <2>4, <2>14, RunSignals
<1> QED
  BY <1>3, <1>4, <1>5 DEF Settles

\* The other thread writes params.
LEMMA SetterSignals ==
  ASSUME InstancesInv, SignalsInv, SetOwn \/ SetParams
  PROVE  SignalsInv'
<1>1. InstancesTypeOK
  BY DEF InstancesInv
<1>2. CASE SetParams
  <2>1. UNCHANGED frames /\ heap' = [heap EXCEPT ![setter.node].params = NewOwn]
    BY <1>2 DEF SetParams
  <2>2. setter.node \in 1 .. Len(heap) /\ heap[setter.node] \in NodeRecord
    BY <1>1, <1>2, Typed DEF SetParams, InstancesInv, VisitsInv, SetterStands
  <2>3. PICK node : node = [heap[setter.node] EXCEPT !.params = NewOwn]
    OBVIOUS
  <2>4. node.signal = heap[setter.node].signal /\ heap' = [heap EXCEPT ![setter.node] = node]
    BY <2>1, <2>2, <2>3 DEF NodeRecord
  <2> QED
    BY <1>1, <2>1, <2>2, <2>4, SignalNotWritten, QuietSignals
<1>3. CASE SetOwn
  <2>1. PICK y : y = Top(1).curr
    OBVIOUS
  <2>2. frames[1] # <<>> /\ Race(y) /\ heap' = [heap EXCEPT ![y].own = NewOwn] /\ 1 \in Bundles
    BY <1>3, <2>1, InstancesAssumption DEF SetOwn
  <2>3. y \in 1 .. Len(heap) /\ heap[y] \in NodeRecord
    BY <2>1, <2>2, TopStands
  <2>4. PICK node : node = [heap[y] EXCEPT !.own = NewOwn]
    OBVIOUS
  <2>5. node.signal = heap[y].signal /\ heap' = [heap EXCEPT ![y] = node]
    BY <2>2, <2>3, <2>4 DEF NodeRecord
  <2>6. \A j \in 1 .. Len(heap) : heap'[j].signal = heap[j].signal
    BY <1>1, <2>3, <2>5, SignalNotWritten
  <2>7. \A b \in Bundles :
          /\ Len(frames'[b]) = Len(frames[b])
          /\ \A i \in 1 .. Len(frames[b]) : RacedFrame(frames[b][i], frames'[b][i], y)
    BY <1>1, <2>2, RaceFrames
  <2>8. ASSUME NEW b \in Bundles, NEW i \in 1 .. Len(frames'[b]), NEW g, g = frames'[b][i]
        PROVE  SignalStands(b, g)'
    <3>1. PICK f : f = frames[b][i]
      OBVIOUS
    <3>2. i \in 1 .. Len(frames[b]) /\ RacedFrame(f, g, y)
      BY <2>7, <2>8, <3>1
    <3>3. SignalStands(b, f) /\ f.curr \in 1 .. Len(heap)
      BY <1>1, <3>1, <3>2 DEF SignalsInv, InstancesTypeOK
    <3>4. g.curr = f.curr /\ g.token = f.token /\ (InVisit(g) => InVisit(f))
      BY <3>2 DEF RacedFrame, InVisit
    <3> QED
      BY <2>6, <3>3, <3>4, SignalKept
  <2> QED
    BY <2>8 DEF SignalsInv, SignalStands
<1> QED
  BY <1>2, <1>3

LEMMA SignalsNext ==
  InstancesInv /\ SignalsInv /\ [InstancesNext]_ivars => SignalsInv'
<1> SUFFICES ASSUME InstancesInv, SignalsInv, [InstancesNext]_ivars PROVE SignalsInv'
  OBVIOUS
<1>1. ASSUME NEW b \in Bundles,
             \/ Begin(b) \/ CloneSuccessor(b) \/ CloneStartNode(b) \/ CloneReturns(b)
             \/ ReadOwn(b) \/ WriteParams(b) \/ EnterBranch(b) \/ Descend(b)
             \/ Settles(b)
      PROVE  SignalsInv'
  <2>1. CASE WriteParams(b) \/ EnterBranch(b)
    <3>1. frames[b] # <<>>
      BY <2>1 DEF WriteParams, EnterBranch, Stands
    <3>2. Top(b) \in Traversal /\ heap[Top(b).curr] \in NodeRecord
      BY <3>1, TopStands
    <3>3. PICK params : EnterVisit(b, params) /\ params \in Dict
      BY <2>1, <3>2, InjectedIs DEF WriteParams, EnterBranch, Traversal, NodeRecord
    <3> QED
      BY <3>1, <3>3, EnterSignals
  <2>2. CASE Begin(b) \/ CloneSuccessor(b) \/ CloneStartNode(b) \/ CloneReturns(b)
    BY <2>2, CloningSignals
  <2>3. CASE ReadOwn(b) \/ Descend(b) \/ Settles(b)
    BY <2>3, ReadOwnSignals, DescendSignals, SettlesSignals
  <2> QED
    BY <1>1, <2>1, <2>2, <2>3
<1>2. CASE SetOwn \/ SetParams
  BY <1>2, SetterSignals
<1>3. CASE Ended \/ UNCHANGED ivars
  <2>1. heap' = heap /\ UNCHANGED frames
    BY <1>3 DEF Ended, ivars
  <2> QED
    BY <2>1, QuietSignals
<1> QED
  BY <1>1, <1>2, <1>3 DEF InstancesNext

--------------------------------------------------------------------------------
(***************************************************************************)
(* The theorems.                                                            *)
(***************************************************************************)

\* The user's graph is well formed, and nothing is copied or visited yet.
LEMMA InstancesInvInit == InstancesInit => InstancesInv
<1> SUFFICES ASSUME InstancesInit PROVE InstancesInv
  OBVIOUS
<1>1. /\ heap \in [Template -> NodeRecord]
      /\ \A x \in Template :
           /\ heap[x].inner \in 0 .. Templates
           /\ \A a \in Actions : heap[x].succ[a] \in 0 .. Templates
           /\ x \notin Reached(heap, {heap[x].inner}, Kind)
      /\ Templates \in Nat
  BY InstancesAssumption DEF InstancesInit
<1>2. PICK none : none = <<>>
  OBVIOUS
<1>3. /\ \A S : none \in Seq(S)
      /\ Len(none) = 0 /\ DOMAIN none = {} /\ \A S : none \in [{} -> S]
      /\ \A i : i \notin 1 .. Len(none)
  BY <1>2
<1>4. /\ calls = [b \in Bundles |-> none] /\ memo = [b \in Bundles |-> none]
      /\ frames = [b \in Bundles |-> none] /\ setter = [at |-> "idle", node |-> 0]
  BY <1>2 DEF InstancesInit
<1>5. /\ \A b \in Bundles : calls[b] = none /\ memo[b] = none /\ frames[b] = none
      /\ setter.at = "idle" /\ setter.node = 0
  BY <1>4
<1>6. heap \in Seq(NodeRecord) /\ Len(heap) = Templates
  BY <1>1 DEF Template
<1>7. InstancesTypeOK
  <2>1. \A x \in 1 .. Len(heap) :
          /\ heap[x].inner \in 0 .. Len(heap)
          /\ \A a \in Actions : heap[x].succ[a] \in 0 .. Len(heap)
    BY <1>1, <1>6 DEF Template
  <2>2. calls \in [Bundles -> Seq(CallRecord)] /\ frames \in [Bundles -> Seq(Traversal)]
    BY <1>3, <1>4
  <2>3. DOMAIN memo = Bundles
    BY <1>4
  <2>4. \A b \in Bundles : \E xs \in SUBSET Template : memo[b] \in [xs -> 1 .. Len(heap)]
    <3>1. {} \in SUBSET Template
      OBVIOUS
    <3> QED
      BY <1>3, <1>5, <3>1
  <2>5. setter \in [at : {"idle", "between", "done"}, node : 0 .. Len(heap)]
    BY <1>1, <1>4, <1>6
  <2>6. \A b \in Bundles : \A i \in 1 .. Len(frames[b]) : frames[b][i].curr \in 1 .. Len(heap)
    BY <1>3, <1>5
  <2> QED
    BY <1>6, <2>1, <2>2, <2>3, <2>4, <2>5, <2>6 DEF InstancesTypeOK
<1>8. WiringStands
  <2>1. Templates <= Len(heap)
    BY <1>1, <1>6
  <2> QED
    BY <1>1, <2>1 DEF WiringStands
<1>9. MemoStands /\ CopiesStand
  BY <1>2, <1>3, <1>5 DEF MemoStands, CopiesStand
<1>10. CallsStand
  BY <1>2, <1>3, <1>5 DEF CallsStand
<1>11. VisitsInv
  BY <1>3, <1>5 DEF VisitsInv, SetterStands, StackStands, NestStands
<1> QED
  BY <1>7, <1>8, <1>9, <1>10, <1>11 DEF InstancesInv, CloningInv

LEMMA InstancesInvNext == InstancesInv /\ [InstancesNext]_ivars => InstancesInv'
<1> SUFFICES ASSUME InstancesInv, [InstancesNext]_ivars PROVE InstancesInv'
  OBVIOUS
<1>1. ASSUME NEW b \in Bundles,
             \/ Begin(b) \/ CloneSuccessor(b) \/ CloneStartNode(b) \/ CloneReturns(b)
             \/ ReadOwn(b) \/ WriteParams(b) \/ EnterBranch(b) \/ Descend(b)
             \/ Settles(b)
      PROVE  InstancesInv'
  <2>1. CASE Begin(b) \/ CloneSuccessor(b) \/ CloneStartNode(b) \/ CloneReturns(b)
    BY <2>1, BeginStep, CloneSuccessorStep, CloneStartNodeStep, CloneReturnsStep
  <2>2. CASE ReadOwn(b) \/ WriteParams(b) \/ EnterBranch(b)
    BY <2>2, ReadOwnStep, EntersStep
  <2>3. CASE Descend(b) \/ Settles(b)
    BY <2>3, DescendStep, SettlesStep
  <2> QED
    BY <1>1, <2>1, <2>2, <2>3
<1>2. CASE SetOwn \/ SetParams
  BY <1>2, SetOwnStep, SetParamsStep
<1>3. CASE Ended
  BY <1>3, InstancesStutter DEF Ended
<1>4. CASE UNCHANGED ivars
  BY <1>4, InstancesStutter
<1> QED
  BY <1>1, <1>2, <1>3, <1>4 DEF InstancesNext

LEMMA InstancesInvAlways == InstancesSpec => []InstancesInv
BY InstancesInvInit, InstancesInvNext, PTL DEF InstancesSpec

\* The heap only holds nodes whose edges and contents are in it, a call in
\* progress is for a node that the user wired, and no traversal takes more steps
\* than the budget (core.rs NodeCore, flow.rs 91-101).
THEOREM InstancesTypeCorrect == InstancesSpec => []InstancesTypeOK
<1>1. InstancesInv => InstancesTypeOK
  BY DEF InstancesInv
<1> QED
  BY <1>1, InstancesInvAlways, PTL

\* What clone_node has built when it returns to the closure is a copy of the
\* graph that the user wired, shared with no other bundle: whatever the graph,
\* and wherever the other bundles are (node.rs 326-347, flow.rs 238-251,
\* batch_flow.rs 322-335).
THEOREM ClonesIsomorphic == InstancesSpec => []ClonesAreIsomorphic
<1>1. ASSUME InstancesInv PROVE ClonesAreIsomorphic
  <2>1. /\ InstancesTypeOK /\ CloningInv /\ WiringStands /\ MemoStands /\ CopiesStand
    BY <1>1 DEF InstancesInv, CloningInv
  <2>2. ASSUME NEW b \in Bundles, memo[b] # <<>>, calls[b] = <<>>
        PROVE  LET m == memo[b]
               IN  /\ DOMAIN m = Reached(heap, {1}, {"flow", "batch"})
                   /\ IsInjective(m)
                   /\ \A c \in Bundles \ {b} : Range(m) \cap (Range(memo[c]) \cup Template) = {}
                   /\ \A x \in DOMAIN m :
                        LET old == heap[x]  new == heap[m[x]]
                        IN  /\ new.kind = old.kind
                            /\ \A a \in Actions : new.succ[a] = Copied(m, old.succ[a])
                            /\ new.inner = IF old.kind \in {"flow", "batch"}
                                           THEN Copied(m, old.inner) ELSE old.inner
                            /\ setter.at = "idle" => new.own = old.own
    <3>1. Len(calls[b]) = 0
      BY <2>2
    <3>2. \A x : ~InCall(b, x) /\ \A a : ~Pending(b, x, a)
      BY <3>1 DEF InCall, Pending
    <3>3. ASSUME NEW x \in DOMAIN memo[b]
          PROVE  LET m == memo[b]  old == heap[x]  new == heap[m[x]]
                 IN  /\ new.kind = old.kind
                     /\ setter.at = "idle" => new.own = old.own
                     /\ \A a \in Actions : /\ old.succ[a] \in DOMAIN m \cup {0}
                                           /\ new.succ[a] = Copied(m, old.succ[a])
                     /\ IF old.kind \in Starts
                        THEN old.inner \in DOMAIN m \cup {0} /\ new.inner = Copied(m, old.inner)
                        ELSE new.inner = old.inner
      BY <2>1, <3>2 DEF CopiesStand, CopyStands
    <3>4. DOMAIN memo[b] = Reached(heap, {1}, Starts)
      <4>1. DOMAIN memo[b] \subseteq Reached(heap, {1}, Starts)
        BY <2>1 DEF MemoStands
      <4>2. PICK S : S = DOMAIN memo[b]
        OBVIOUS
      <4>3. S \in SUBSET Template /\ {1} \subseteq S \cup {0}
        BY <2>1, <2>2, <4>2, Typed DEF MemoStands
      <4>4. ClosedIn(heap, Starts, S)
        BY <3>3, <4>2 DEF ClosedIn
      <4>5. Reached(heap, {1}, Starts) \subseteq S
        BY <4>3, <4>4, ReachedLeast
      <4> QED
        BY <4>1, <4>2, <4>5
    <3>5. IsInjective(memo[b])
      BY <2>1 DEF MemoStands, IsInjective
    <3>6. \A c \in Bundles \ {b} : Range(memo[b]) \cap (Range(memo[c]) \cup Template) = {}
      BY <2>1, CopiesApart
    <3> QED
      BY <3>3, <3>4, <3>5, <3>6 DEF Starts
  <2> QED
    BY <2>2 DEF ClonesAreIsomorphic
<1> QED
  BY <1>1, InstancesInvAlways, PTL

LEMMA SignalsInvAlways == InstancesSpec => []SignalsInv
<1>1. ASSUME InstancesInit PROVE SignalsInv
  <2>1. \A b \in Bundles : frames[b] = <<>>
    BY <1>1 DEF InstancesInit
  <2>2. PICK t : t = <<>>
    OBVIOUS
  <2>3. \A i : i \notin 1 .. Len(t)
    BY <2>2
  <2> QED
    BY <2>1, <2>2, <2>3 DEF SignalsInv
<1> QED
  BY <1>1, SignalsNext, InstancesInvAlways, PTL DEF InstancesSpec

\* A node that is visited has the params and the token of its own run, and a
\* shared branch at worst the token of another bundle's, whatever the other
\* bundles do, and a set_params of another thread mixes in nothing of another
\* bundle (core.rs inject_params, set_params, set_signal; node.rs
\* run_lifecycle).
THEOREM VisitsSeeTheirRun == InstancesSpec => []VisitSeesItsRun
<1>1. ASSUME InstancesInv, SignalsInv PROVE VisitSeesItsRun
  <2>1. ASSUME NEW b \in Bundles, NEW i \in 1 .. Len(frames[b])
        PROVE  FrameStands(b, frames[b][i]) /\ SignalStands(b, frames[b][i])
    BY <1>1 DEF InstancesInv, VisitsInv, StackStands, SignalsInv
  <2> QED
    BY <2>1 DEF VisitSeesItsRun, FrameStands, VisitStands, SignalStands
<1> QED
  BY <1>1, InstancesInvAlways, SignalsInvAlways, PTL

================================================================================
