---------------------------- MODULE BatchFlowProofs ----------------------------
(***************************************************************************)
(* A BatchFlow in either mode, for any number of bundles, workers, hook     *)
(* sets and errors and any budget: its parallel bundles are closures of the *)
(* mapper, so that what is proved of RunParallel holds of them, and what    *)
(* merge, post and the on_error hooks are given follows from it.            *)
(***************************************************************************)
EXTENDS BatchFlow, RunParallelProofs, SequenceTheorems

(***************************************************************************)
(* The inductive invariant, beside RunParallel's IInv.                      *)
(***************************************************************************)

\* The phases of the two modes, and what each has behind it.
PhasesStand ==
  /\ phase \in {"fan_out", "merge"} => Parallel
  /\ phase \in {"loop", "step", "visit", "on_error"} => ~Parallel
  /\ phase \in {"step", "visit", "on_error"} => next < n
  /\ phase = "on_start" => next = 0 /\ failed = {}
  /\ phase = "merge" => status = "ok"
  /\ phase = "post" => IF Parallel THEN status = "ok" ELSE next = n

\* A copy was pushed, once, for every bundle that has its slot.
CopiesMatch ==
  /\ \A j \in 1 .. Len(pushed) : out[pushed[j]] = pushed[j]
  /\ \A i \in Item : out[i] = i => Contains(pushed, i)
  /\ \A j, k \in 1 .. Len(pushed) : pushed[j] = pushed[k] => j = k

\* In sequence: the budget covers what was written, in order, and the bundles
\* that are over have written or failed.
SharedInOrder ==
  ~Parallel =>
    /\ Len(shared) <= steps /\ Len(shared) <= maxSteps
    /\ \A j \in 1 .. Len(shared) : shared[j] <= next
    /\ \A j, k \in 1 .. Len(shared) : j < k => shared[j] <= shared[k]
    /\ \A i \in Item : i < next \/ (i = next /\ phase = "visit") =>
                         i \in failed \/ Contains(shared, i)

\* Where the hooks are asked, in either mode.
AskedStand ==
  /\ \A w \in Worker : asked[w] # 0 =>
       Parallel /\ pc[w] = "busy" /\ held[w] \in failed /\ ~failFast
  /\ phase = "on_error" => next \in failed /\ ~failFast /\ hook <= HookCount

\* With fail_fast a failure is the end; without it the hooks hear of it.
FailuresMatch ==
  /\ failFast => \/ failed = {}
                 \/ Parallel /\ firstErr # None
                 \/ ~Parallel /\ phase \in {"on_end", "returned"}
  /\ ~failFast /\ HookCount > 0 =>
       \A i \in failed :
         \/ i \in reported
         \/ ~Parallel /\ phase = "on_error" /\ i = next
         \/ Parallel /\ firstErr # None
         \/ \E w \in Worker : asked[w] # 0 /\ held[w] = i

BundleInv ==
  /\ BundleTypeOK
  /\ PhasesStand
  /\ CopiesMatch
  /\ SharedInOrder
  /\ AskedStand
  /\ FailuresMatch

Both == IInv /\ BundleInv

--------------------------------------------------------------------------------
\* The constants the steps need.
LEMMA BundleConstants ==
  /\ Item \subseteq Nat /\ None \notin Item /\ Worker \subseteq Nat
  /\ HookCount \in Nat /\ MaxSteps \in Nat
  /\ Aborted \in Error /\ Cycle \in Error /\ NoStart \in Error
  /\ Cycle # Aborted /\ NoStart # Aborted /\ None \notin Error
BY RunParallelAssumption, BatchFlowAssumption, FlowErrorsAssumption
DEF Item, Worker, Error, UserError

\* Append, for the sequences of bundles.
LEMMA AppendBundle ==
  \A s \in Seq(Item), i \in Item :
    /\ Append(s, i) \in Seq(Item) /\ Len(Append(s, i)) = Len(s) + 1
    /\ \A j \in 1 .. Len(s) : Append(s, i)[j] = s[j]
    /\ Append(s, i)[Len(s) + 1] = i
BY AppendProperties

\* What was contained still is, and the new one too.
LEMMA AppendContains ==
  \A s \in Seq(Item), i \in Item :
    /\ Contains(Append(s, i), i)
    /\ \A k : Contains(s, k) => Contains(Append(s, i), k)
<1> SUFFICES ASSUME NEW s \in Seq(Item), NEW i \in Item
             PROVE  /\ Contains(Append(s, i), i)
                    /\ \A k : Contains(s, k) => Contains(Append(s, i), k)
  OBVIOUS
<1> DEFINE t == Append(s, i)
<1>1. /\ Len(t) = Len(s) + 1 /\ Len(s) \in Nat
      /\ \A j \in 1 .. Len(s) : t[j] = s[j]
      /\ t[Len(s) + 1] = i
  BY AppendBundle
<1> HIDE DEF t
<1>2. Contains(t, i)
  BY <1>1 DEF Contains
<1>3. \A k : Contains(s, k) => Contains(t, k)
  BY <1>1 DEF Contains
<1> QED
  BY <1>2, <1>3 DEF t

\* What a busy worker holds is a bundle, its own, that has no slot yet.
LEMMA BusyHolds ==
  ASSUME IInv, NEW w \in Worker, pc[w] = "busy"
  PROVE  /\ held[w] \in Item /\ out[held[w]] = None /\ out[held[w]] # held[w]
         /\ \A v \in Worker : v # w /\ pc[v] = "busy" => held[v] # held[w]
<1>1. TypeOK /\ ExclusiveClaim
  BY DEF IInv, ClaimsValid
<1>2. held[w] \in 0 .. n - 1
  BY <1>1 DEF ExclusiveClaim, Working
<1>3. held[w] \in Item
  BY <1>1, <1>2, RunParallelAssumption DEF TypeOK, Item
<1> QED
  BY <1>1, <1>2, <1>3, BundleConstants DEF ExclusiveClaim, Working

\* The hooks of a parallel bundle: the mapper takes no step, or one of its own.
LEMMA AskIsMapperStep ==
  ASSUME NEW w \in Worker, NEW h, AskOnError(w, h)
  PROVE  [Next]_vars
BY DEF AskOnError, BundleEnds, Next, Settle

\* Every step of a BatchFlow is a step of the mapper or leaves it alone.
LEMMA StepIsMapperStep == [BatchFlowNext]_allVars => [Next]_vars
<1> SUFFICES ASSUME [BatchFlowNext]_allVars PROVE [Next]_vars
  OBVIOUS
<1>1. CASE UNCHANGED allVars \/ BatchFlowReturned
  BY <1>1 DEF allVars, BatchFlowReturned
<1>2. CASE Cancel \/ Joined
  BY <1>2 DEF Cancel, Joined, Next
<1>3. CASE StartHook \/ EndHook \/ ErrorHook \/ Prep \/ Merge \/ Post
  BY <1>3 DEF StartHook, EndHook, ErrorHook, Prep, Merge, Post
<1>4. CASE FannedOut \/ Loop \/ Visit \/ Interrupted \/ Finish \/ VisitSettles
  BY <1>4 DEF FannedOut, Loop, Visit, Interrupted, Finish, VisitSettles
<1>5. ASSUME NEW w \in Worker, Drive(w) \/ Dropped(w) PROVE [Next]_vars
  BY <1>5 DEF Drive, Dropped, Next
<1>6. ASSUME NEW w \in Worker, BundleRuns(w) PROVE [Next]_vars
  BY <1>6, AskIsMapperStep DEF BundleRuns, BundleEnds, BundleFails, Next, Settle
<1>7. ASSUME NEW w \in Worker, BundleHook(w) PROVE [Next]_vars
  BY <1>7, AskIsMapperStep DEF BundleHook, BundleEnds, BundleFails, Next, Settle
<1> QED
  BY <1>1, <1>2, <1>3, <1>4, <1>5, <1>6, <1>7
  DEF BatchFlowNext, Hooks, Ops, Engine

\* No step of the mapper changes what it was called with.
LEMMA CallStands == [Next]_vars => n' = n /\ concurrency' = concurrency
<1> SUFFICES ASSUME [Next]_vars PROVE n' = n /\ concurrency' = concurrency
  OBVIOUS
<1>1. ASSUME NEW w \in Worker, Step(w) \/ Settle(w) \/ Interrupt(w)
      PROVE  n' = n /\ concurrency' = concurrency
  BY <1>1 DEF Step, SeqNext, LoopCheck, Claim, RaceEnter, Settle, SettleOk,
     SettleErr, Interrupt
<1> QED
  BY <1>1 DEF Next, ParentCancel, Return, Returned, vars

\* Under a cancelled token no closure is polled for the first time.
LEMMA NoneBegins ==
  ASSUME TypeOK, [Next]_vars, parent, NEW w \in Worker, pc'[w] = "busy"
  PROVE  pc[w] = "busy"
<1>1. pc \in [Worker -> {"loop", "claim", "enter", "busy", "exited"}]
  BY DEF TypeOK
<1>2. ASSUME NEW v \in Worker, SeqNext(v) \/ LoopCheck(v) \/ Claim(v)
      PROVE  pc[w] = "busy"
  BY <1>1, <1>2 DEF SeqNext, LoopCheck, Claim
<1>3. ASSUME NEW v \in Worker, RaceEnter(v) PROVE pc[w] = "busy"
  BY <1>1, <1>3 DEF RaceEnter, Fail, Cancelled
<1>4. ASSUME NEW v \in Worker, Settle(v) \/ Interrupt(v) PROVE pc[w] = "busy"
  BY <1>1, <1>4 DEF Settle, SettleOk, SettleErr, Interrupt, Fail
<1> QED
  BY <1>2, <1>3, <1>4 DEF Next, Step, ParentCancel, Return, Returned, vars

--------------------------------------------------------------------------------
\* A BatchFlow starts in the invariant.
LEMMA BatchFlowInitEstablishes == BatchFlowInit => Both
<1> SUFFICES ASSUME BatchFlowInit PROVE Both
  OBVIOUS
<1>1. IInv /\ TypeOK
  BY InitEstablishesIInv DEF BatchFlowInit, IInv
<1>2. BundleTypeOK
  <2>1. phase \in Phase
    BY DEF BatchFlowInit, Phase
  <2>2. maxSteps \in 0 .. MaxSteps
    BY BundleConstants DEF BatchFlowInit
  <2>3. n \in Nat /\ 0 \in 0 .. n
    BY <1>1, RunParallelAssumption DEF TypeOK
  <2>4. 1 \in 1 .. HookCount + 1 /\ 0 \in 0 .. HookCount
    BY BundleConstants
  <2> QED
    BY <2>1, <2>2, <2>3, <2>4 DEF BatchFlowInit, BundleTypeOK
<1>3. PhasesStand
  BY DEF BatchFlowInit, PhasesStand
<1>4. CopiesMatch
  <2>1. \A i \in Item : out[i] # i
    BY BundleConstants DEF BatchFlowInit, Init
  <2> QED
    BY <2>1 DEF BatchFlowInit, CopiesMatch
<1>5. SharedInOrder
  <2>1. Len(shared) = 0 /\ next = 0 /\ steps = 0 /\ phase = "on_start"
    BY DEF BatchFlowInit
  <2>2. maxSteps \in Nat
    BY <1>2, BundleConstants DEF BundleTypeOK
  <2>3. \A i \in Item : ~(i < next)
    BY <2>1, BundleConstants
  <2> QED
    BY <2>1, <2>2, <2>3 DEF SharedInOrder
<1>6. AskedStand /\ FailuresMatch
  BY DEF BatchFlowInit, AskedStand, FailuresMatch
<1> QED
  BY <1>1, <1>2, <1>3, <1>4, <1>5, <1>6 DEF Both, BundleInv

--------------------------------------------------------------------------------
(***************************************************************************)
(* The bundles in parallel.                                                 *)
(***************************************************************************)

\* A step of the mapper that touches no closure and no slot.
LEMMA QuietKeeps ==
  ASSUME Both, [Next]_vars, UNCHANGED own, out' = out,
         \A w \in Worker : pc[w] = "busy" => pc'[w] = "busy" /\ held'[w] = held[w],
         status = "ok" => status' = "ok", firstErr # None => firstErr' # None
  PROVE  BundleInv'
<1>1. UNCHANGED <<failFast, hasStart, maxSteps, phase, hook, next, steps, asked,
                  pushed, shared, err, result, failed, reported>>
  BY DEF own, settings, loopVars, copies, ending, history
<1>2. n' = n /\ concurrency' = concurrency /\ Parallel' = Parallel
  BY CallStands DEF Parallel
<1>3. BundleTypeOK'
  BY <1>1, <1>2 DEF Both, BundleInv, BundleTypeOK
<1>4. PhasesStand'
  BY <1>1, <1>2 DEF Both, BundleInv, PhasesStand
<1>5. CopiesMatch'
  BY <1>1 DEF Both, BundleInv, CopiesMatch
<1>6. SharedInOrder'
  BY <1>1, <1>2 DEF Both, BundleInv, SharedInOrder
<1>7. AskedStand'
  BY <1>1, <1>2 DEF Both, BundleInv, AskedStand
<1>8. FailuresMatch'
  BY <1>1, <1>2 DEF Both, BundleInv, FailuresMatch, AskedStand
<1> QED
  BY <1>3, <1>4, <1>5, <1>6, <1>7, <1>8 DEF BundleInv

\* The steps that are such.
LEMMA QuietStepsKeep ==
  ASSUME Both, Cancel \/ Joined \/ \E w \in Worker : Drive(w)
  PROVE  BundleInv'
<1>1. UNCHANGED own /\ [Next]_vars
  BY StepIsMapperStep DEF Cancel, Joined, Drive, BatchFlowNext, Engine, Next
<1>2. CASE Cancel
  <2>1. UNCHANGED <<out, pc, held, status, firstErr>>
    BY <1>2 DEF Cancel, ParentCancel
  <2> QED
    BY <1>1, <2>1, QuietKeeps
<1>3. CASE Joined
  <2>1. UNCHANGED <<out, pc, held, firstErr>> /\ status = "running"
    BY <1>3 DEF Joined, Return
  <2> QED
    BY <1>1, <2>1, QuietKeeps
<1>4. ASSUME NEW w \in Worker, Drive(w) PROVE BundleInv'
  <2>1. UNCHANGED <<out, status>> /\ pc[w] # "busy"
    BY <1>4 DEF Drive, Step, SeqNext, LoopCheck, Claim, RaceEnter
  <2>2. pc \in [Worker -> {"loop", "claim", "enter", "busy", "exited"}]
        /\ held \in [Worker -> Item \cup {None}]
    BY DEF Both, IInv, TypeOK
  <2>3. \A v \in Worker : v # w => pc'[v] = pc[v] /\ held'[v] = held[v]
    BY <1>4, <2>2 DEF Drive, Step, SeqNext, LoopCheck, Claim, RaceEnter, Fail
  <2>4. firstErr # None => firstErr' # None
    BY <1>4, BundleConstants
    DEF Drive, Step, SeqNext, LoopCheck, Claim, RaceEnter, Fail, FirstError
  <2> QED
    BY <1>1, <2>1, <2>3, <2>4, QuietKeeps
<1> QED
  BY <1>2, <1>3, <1>4

\* A closure that is awaited is asked about a failure of its bundle.
LEMMA AskKeeps ==
  ASSUME Both, phase = "fan_out", NEW w \in Worker, pc[w] = "busy", ~failFast,
         NEW h \in 1 .. HookCount, asked' = [asked EXCEPT ![w] = h],
         UNCHANGED <<vars, settings, phase, hook, loopVars, pushed, shared, ending>>,
         failed' = failed \cup {held[w]},
         reported \subseteq reported', reported' \subseteq failed'
  PROVE  BundleInv'
<1>1. UNCHANGED <<failFast, hasStart, maxSteps, phase, hook, next, steps,
                  pushed, shared, err, result>>
  BY DEF settings, loopVars, ending
<1>2. UNCHANGED <<n, concurrency, out, firstErr, pc, held, status>> /\ Parallel' = Parallel
  BY DEF vars, Parallel
<1>3. held[w] \in Item
  BY BusyHolds DEF Both
<1>4. BundleTypeOK /\ Parallel
  BY DEF Both, BundleInv, PhasesStand
<1>5. h # 0 /\ h \in 0 .. HookCount
  BY BundleConstants
<1>6. /\ asked' \in [Worker -> 0 .. HookCount]
      /\ asked'[w] = h /\ \A v \in Worker : v # w => asked'[v] = asked[v]
  BY <1>4, <1>5 DEF BundleTypeOK
<1>7. BundleTypeOK'
  <2>1. failed' \subseteq Item
    BY <1>3, <1>4 DEF BundleTypeOK
  <2> QED
    BY <1>1, <1>2, <1>4, <1>6, <2>1 DEF BundleTypeOK
<1>8. PhasesStand'
  BY <1>1, <1>2 DEF Both, BundleInv, PhasesStand
<1>9. CopiesMatch'
  BY <1>1, <1>2 DEF Both, BundleInv, CopiesMatch
<1>10. SharedInOrder'
  BY <1>1, <1>2, <1>4 DEF SharedInOrder
<1>11. AskedStand'
  <2>1. \A v \in Worker : asked'[v] # 0 =>
          pc[v] = "busy" /\ held[v] \in failed'
    BY <1>6 DEF Both, BundleInv, AskedStand
  <2> QED
    BY <1>1, <1>2, <1>4, <2>1 DEF AskedStand
<1>12. FailuresMatch'
  <2>1. ASSUME HookCount > 0, NEW i \in failed', firstErr = None
        PROVE  i \in reported' \/ \E v \in Worker : asked'[v] # 0 /\ held[v] = i
    <3>1. CASE i = held[w]
      BY <1>5, <1>6, <3>1
    <3>2. CASE i # held[w]
      <4>1. i \in reported \/ \E v \in Worker : asked[v] # 0 /\ held[v] = i
        BY <1>4, <2>1, <3>2 DEF Both, BundleInv, FailuresMatch
      <4> QED
        BY <1>6, <3>2, <4>1
    <3> QED
      BY <3>1, <3>2
  <2> QED
    BY <1>1, <1>2, <1>4, <2>1 DEF FailuresMatch
<1> QED
  BY <1>7, <1>8, <1>9, <1>10, <1>11, <1>12 DEF BundleInv

\* The closure of w returns Ok, its copy pushed; or it fails or is dropped.
Kept(w) ==
  out' = [out EXCEPT ![held[w]] = held[w]] /\ pushed' = Append(pushed, held[w])
Lost    == out' = out /\ pushed' = pushed /\ firstErr' # None

LEMMA SettleKeeps ==
  ASSUME Both, phase = "fan_out", NEW w \in Worker, pc[w] = "busy",
         asked' = [asked EXCEPT ![w] = 0],
         UNCHANGED <<n, concurrency, held, settings, phase, hook, loopVars, shared, ending>>,
         \A v \in Worker : v # w => pc'[v] = pc[v],
         failed' \in {failed, failed \cup {held[w]}},
         reported \subseteq reported', reported' \subseteq failed',
         \/ /\ Kept(w) /\ firstErr' = firstErr
            /\ failFast => failed' = failed
            /\ \/ asked[w] = 0 /\ failed' = failed
               \/ held[w] \in reported'
               \/ HookCount = 0
         \/ Lost
  PROVE  BundleInv'
<1>1. UNCHANGED <<failFast, hasStart, maxSteps, phase, hook, next, steps, shared,
                  err, result>>
  BY DEF settings, loopVars, ending
<1>2. Parallel' = Parallel /\ Parallel
  BY DEF Parallel, Both, BundleInv, PhasesStand
<1>3. /\ held[w] \in Item /\ out[held[w]] # held[w]
      /\ \A v \in Worker : v # w /\ pc[v] = "busy" => held[v] # held[w]
  BY BusyHolds DEF Both
<1>4. BundleTypeOK /\ out \in [Item -> Item \cup {None}] /\ pushed \in Seq(Item)
  BY DEF Both, BundleInv, BundleTypeOK, IInv, TypeOK
<1>5. /\ asked' \in [Worker -> 0 .. HookCount]
      /\ asked'[w] = 0 /\ \A v \in Worker : v # w => asked'[v] = asked[v]
  BY <1>4, BundleConstants DEF BundleTypeOK
<1>6. BundleTypeOK'
  <2>1. failed' \subseteq Item
    BY <1>3, <1>4 DEF BundleTypeOK
  <2>2. pushed' \in Seq(Item)
    BY <1>3, <1>4, AppendBundle DEF Kept, Lost
  <2> QED
    BY <1>1, <1>4, <1>5, <2>1, <2>2 DEF BundleTypeOK
<1>7. PhasesStand'
  BY <1>1, <1>2 DEF PhasesStand
<1>8. CopiesMatch'
  <2>1. CASE Lost
    BY <2>1 DEF Lost, Both, BundleInv, CopiesMatch
  <2>2. CASE Kept(w)
    <3> DEFINE i == held[w]
               m == Len(pushed)
    <3>1. m \in Nat /\ \A j \in 1 .. m : pushed[j] \in Item
      BY <1>4
    <3>2. /\ Len(pushed') = m + 1 /\ pushed'[m + 1] = i
          /\ \A j \in 1 .. m : pushed'[j] = pushed[j]
      BY <1>3, <1>4, <2>2, AppendBundle DEF Kept
    <3>3. out'[i] = i /\ \A k \in Item : k # i => out'[k] = out[k]
      BY <1>3, <1>4, <2>2 DEF Kept
    <3>4. \A j \in 1 .. m : out[pushed[j]] = pushed[j] /\ pushed[j] # i
      BY <1>3 DEF Both, BundleInv, CopiesMatch
    <3>5. \A k \in Item : out'[k] = k => Contains(pushed', k)
      <4>1. \A k \in Item : out[k] = k => Contains(pushed, k)
        BY DEF Both, BundleInv, CopiesMatch
      <4>2. /\ Contains(pushed', i)
            /\ \A k : Contains(pushed, k) => Contains(pushed', k)
        BY <1>3, <1>4, <2>2, AppendContains DEF Kept
      <4> QED
        BY <3>3, <4>1, <4>2
    <3>6. \A j, k \in 1 .. m : pushed[j] = pushed[k] => j = k
      BY DEF Both, BundleInv, CopiesMatch
    <3> HIDE DEF i, m
    <3>7. \A j \in 1 .. m + 1 : out'[pushed'[j]] = pushed'[j]
      <4> SUFFICES ASSUME NEW j \in 1 .. m + 1 PROVE out'[pushed'[j]] = pushed'[j]
        OBVIOUS
      <4>1. CASE j \in 1 .. m
        BY <3>1, <3>2, <3>3, <3>4, <4>1
      <4>2. CASE j = m + 1
        BY <3>2, <3>3, <4>2
      <4> QED
        BY <3>1, <4>1, <4>2
    <3>8. \A j, k \in 1 .. m + 1 : pushed'[j] = pushed'[k] => j = k
      BY <3>1, <3>2, <3>4, <3>6
    <3> QED
      BY <3>2, <3>5, <3>7, <3>8 DEF CopiesMatch
  <2> QED
    BY <2>1, <2>2
<1>9. SharedInOrder'
  BY <1>2 DEF SharedInOrder
<1>10. AskedStand'
  <2>1. \A v \in Worker : asked'[v] # 0 =>
          pc'[v] = "busy" /\ held[v] \in failed' /\ ~failFast
    BY <1>5 DEF Both, BundleInv, AskedStand
  <2> QED
    BY <1>1, <1>2, <2>1 DEF AskedStand
<1>11. FailuresMatch'
  <2>1. CASE Lost
    BY <1>2, <2>1 DEF Lost, FailuresMatch
  <2>2. CASE Kept(w) /\ firstErr' # None
    BY <1>2, <2>2 DEF FailuresMatch
  <2>3. CASE /\ Kept(w) /\ firstErr' = firstErr /\ firstErr = None
             /\ failFast => failed' = failed
             /\ \/ asked[w] = 0 /\ failed' = failed
                \/ held[w] \in reported'
                \/ HookCount = 0
    <3>1. failFast => failed' = {}
      BY <1>2, <2>3 DEF Both, BundleInv, FailuresMatch
    <3>2. ASSUME ~failFast, HookCount > 0, NEW i \in failed', i \notin reported'
          PROVE  \E v \in Worker : asked'[v] # 0 /\ held[v] = i
      <4>1. i \in failed
        BY <2>3, <3>2
      <4>2. PICK v \in Worker : asked[v] # 0 /\ held[v] = i
        BY <1>1, <1>2, <2>3, <3>2, <4>1 DEF Both, BundleInv, FailuresMatch
      <4>3. v # w
        BY <2>3, <3>2, <4>2, BundleConstants
      <4> QED
        BY <1>5, <4>2, <4>3
    <3> QED
      BY <1>1, <1>2, <3>1, <3>2 DEF FailuresMatch
  <2> QED
    BY <2>1, <2>2, <2>3
<1> QED
  BY <1>6, <1>7, <1>8, <1>9, <1>10, <1>11 DEF BundleInv

\* Ok.
LEMMA EndsKept ==
  ASSUME Both, NEW w \in Worker, BundleEnds(w)
  PROVE  /\ Kept(w) /\ pc[w] = "busy" /\ asked' = [asked EXCEPT ![w] = 0]
         /\ UNCHANGED <<n, concurrency, held, firstErr>>
         /\ \A v \in Worker : v # w => pc'[v] = pc[v]
<1>1. pc \in [Worker -> {"loop", "claim", "enter", "busy", "exited"}]
  BY DEF Both, IInv, TypeOK
<1> QED
  BY <1>1 DEF BundleEnds, SettleOk, Kept, Pushed

\* An error.
LEMMA FailsLost ==
  ASSUME Both, NEW w \in Worker, NEW e \in Error, BundleFails(w, e)
  PROVE  /\ Lost /\ pc[w] = "busy" /\ asked' = [asked EXCEPT ![w] = 0]
         /\ UNCHANGED <<n, concurrency, held>>
         /\ \A v \in Worker : v # w => pc'[v] = pc[v]
<1>1. pc \in [Worker -> {"loop", "claim", "enter", "busy", "exited"}]
  BY DEF Both, IInv, TypeOK
<1> QED
  BY <1>1, BundleConstants DEF BundleFails, SettleErr, Fail, FirstError, Lost

\* The run of a bundle settles.
LEMMA BundleRunsKeeps ==
  ASSUME Both, NEW w \in Worker, BundleRuns(w)
  PROVE  BundleInv'
<1>1. /\ phase = "fan_out" /\ pc[w] = "busy" /\ asked[w] = 0
      /\ UNCHANGED <<settings, phase, hook, loopVars, shared, ending, reported>>
  BY DEF BundleRuns
<1>2. reported \subseteq failed /\ held[w] \in Item
  BY <1>1, BusyHolds DEF Both, BundleInv, BundleTypeOK
<1>3. CASE BundleEnds(w) /\ failed' = failed
  <2>1. /\ Kept(w) /\ asked' = [asked EXCEPT ![w] = 0]
        /\ UNCHANGED <<n, concurrency, held, firstErr>>
        /\ \A v \in Worker : v # w => pc'[v] = pc[v]
    BY <1>3, EndsKept
  <2> QED
    BY <1>1, <1>2, <1>3, <2>1, SettleKeeps
<1>4. ASSUME NEW e \in Error, BundleFails(w, e),
             failed' \in {failed, failed \cup {held[w]}}
      PROVE  BundleInv'
  <2>1. /\ Lost /\ asked' = [asked EXCEPT ![w] = 0]
        /\ UNCHANGED <<n, concurrency, held>>
        /\ \A v \in Worker : v # w => pc'[v] = pc[v]
    BY <1>4, FailsLost
  <2>2. reported' \subseteq failed'
    BY <1>1, <1>2, <1>4
  <2> QED
    BY <1>1, <1>4, <2>1, <2>2, SettleKeeps
<1>5. ASSUME AskOnError(w, 1), ~failFast, failed' = failed \cup {held[w]}
      PROVE  BundleInv'
  <2>1. reported' \subseteq failed' /\ HookCount \in Nat
    BY <1>1, <1>2, <1>5, BundleConstants
  <2>2. CASE HooksLeft(1) /\ asked' = [asked EXCEPT ![w] = 1] /\ UNCHANGED <<vars, pushed>>
    <3>1. 1 \in 1 .. HookCount
      BY <2>1, <2>2 DEF HooksLeft
    <3> QED
      BY <1>1, <1>5, <2>1, <2>2, <3>1, AskKeeps
  <2>3. CASE ~HooksLeft(1) /\ BundleEnds(w)
    <3>1. HookCount = 0
      BY <2>1, <2>3 DEF HooksLeft
    <3>2. /\ Kept(w) /\ asked' = [asked EXCEPT ![w] = 0]
          /\ UNCHANGED <<n, concurrency, held, firstErr>>
          /\ \A v \in Worker : v # w => pc'[v] = pc[v]
      BY <2>3, EndsKept
    <3> QED
      BY <1>1, <1>5, <2>1, <3>1, <3>2, SettleKeeps
  <2> QED
    BY <1>5, <2>2, <2>3 DEF AskOnError
<1>6. ASSUME NEW e \in Error,
             failed' = IF e = Aborted THEN failed ELSE failed \cup {held[w]},
             IF Propagated(e) THEN BundleFails(w, e) ELSE AskOnError(w, 1)
      PROVE  BundleInv'
  <2>1. CASE Propagated(e)
    BY <1>4, <1>6, <2>1
  <2>2. CASE ~Propagated(e)
    BY <1>5, <1>6, <2>2 DEF Propagated
  <2> QED
    BY <2>1, <2>2
<1> QED
  BY <1>3, <1>6 DEF BundleRuns

\* An on_error hook of a parallel bundle answers.
LEMMA BundleHookKeeps ==
  ASSUME Both, NEW w \in Worker, BundleHook(w)
  PROVE  BundleInv'
<1>1. /\ phase = "fan_out" /\ pc[w] = "busy" /\ asked[w] # 0
      /\ UNCHANGED <<settings, phase, hook, loopVars, shared, ending, failed>>
      /\ reported' = reported \cup {held[w]}
  BY DEF BundleHook
<1>2. /\ reported \subseteq failed /\ held[w] \in failed /\ ~failFast
      /\ asked[w] \in 0 .. HookCount
  BY <1>1 DEF Both, BundleInv, BundleTypeOK, AskedStand
<1>3. reported \subseteq reported' /\ reported' \subseteq failed' /\ held[w] \in reported'
      /\ failed' = failed \cup {held[w]} /\ failed' \in {failed, failed \cup {held[w]}}
  BY <1>1, <1>2
<1>4. CASE BundleEnds(w)
  <2>1. /\ Kept(w) /\ asked' = [asked EXCEPT ![w] = 0]
        /\ UNCHANGED <<n, concurrency, held, firstErr>>
        /\ \A v \in Worker : v # w => pc'[v] = pc[v]
    BY <1>4, EndsKept
  <2> QED
    BY <1>1, <1>2, <1>3, <2>1, SettleKeeps
<1>5. ASSUME NEW e \in Error, BundleFails(w, e) PROVE BundleInv'
  <2>1. /\ Lost /\ asked' = [asked EXCEPT ![w] = 0]
        /\ UNCHANGED <<n, concurrency, held>>
        /\ \A v \in Worker : v # w => pc'[v] = pc[v]
    BY <1>5, FailsLost
  <2> QED
    BY <1>1, <1>3, <2>1, SettleKeeps
<1>6. CASE AskOnError(w, asked[w] + 1)
  <2> DEFINE h == asked[w] + 1
  <2>1. CASE HooksLeft(h) /\ asked' = [asked EXCEPT ![w] = h] /\ UNCHANGED <<vars, pushed>>
    <3>1. h \in 1 .. HookCount
      BY <1>2, <2>1, BundleConstants DEF HooksLeft
    <3> HIDE DEF h
    <3> QED
      BY <1>1, <1>2, <1>3, <2>1, <3>1, AskKeeps
  <2> QED
    BY <1>4, <1>6, <2>1 DEF AskOnError
<1> QED
  BY <1>4, <1>5, <1>6 DEF BundleHook

\* A bundle is dropped.
LEMMA DroppedKeeps ==
  ASSUME Both, NEW w \in Worker, Dropped(w)
  PROVE  BundleInv'
<1>1. /\ phase = "fan_out" /\ pc[w] = "busy" /\ asked' = [asked EXCEPT ![w] = 0]
      /\ UNCHANGED <<n, concurrency, held, out, pushed, failed, reported>>
      /\ UNCHANGED <<settings, phase, hook, loopVars, shared, ending>>
      /\ firstErr' = FirstError(Aborted) /\ pc' = [pc EXCEPT ![w] = "exited"]
  BY DEF Dropped, Interrupt, Fail, history
<1>2. \A v \in Worker : v # w => pc'[v] = pc[v]
  BY <1>1 DEF Both, IInv, TypeOK
<1>3. Lost /\ reported' \subseteq failed'
  BY <1>1, BundleConstants
  DEF Lost, FirstError, Both, BundleInv, BundleTypeOK
<1> QED
  BY <1>1, <1>2, <1>3, SettleKeeps

--------------------------------------------------------------------------------
(***************************************************************************)
(* run, and the bundles in sequence.                                        *)
(***************************************************************************)

\* run goes on to another phase: of the rest it writes where it ends only.
LEMMA RunKeeps ==
  ASSUME Both, UNCHANGED <<vars, settings, loopVars, copies, history>>,
         phase \notin {"on_error", "visit", "returned"},
         phase' \in Phase \ {"on_error", "visit"},
         phase = "on_end" => phase' \in {"on_end", "returned"},
         hook' \in 1 .. HookCount + 1,
         err' \in Error \cup {None}, result' \in Error \cup {"ok", None},
         shared' = shared \/ (Parallel /\ shared' \in Seq(Item)), PhasesStand'
  PROVE  BundleInv'
<1>1. UNCHANGED <<n, concurrency, out, firstErr, pc, held, status, failFast, hasStart,
                  maxSteps, next, steps, asked, pushed, failed, reported>>
      /\ Parallel' = Parallel
  BY DEF vars, settings, loopVars, copies, history, Parallel
<1>2. BundleTypeOK'
  <2>1. BundleTypeOK
    BY DEF Both, BundleInv
  <2>2. shared' \in Seq(Item)
    BY <2>1 DEF BundleTypeOK
  <2> QED
    BY <1>1, <2>1, <2>2 DEF BundleTypeOK
<1>3. CopiesMatch'
  BY <1>1 DEF Both, BundleInv, CopiesMatch
<1>4. SharedInOrder'
  BY <1>1 DEF Both, BundleInv, SharedInOrder
<1>5. AskedStand'
  BY <1>1 DEF Both, BundleInv, AskedStand
<1>6. FailuresMatch'
  BY <1>1 DEF Both, BundleInv, FailuresMatch
<1> QED
  BY <1>2, <1>3, <1>4, <1>5, <1>6 DEF BundleInv

\* The steps of run that do.
LEMMA RunStepsKeep ==
  ASSUME Both, StartHook \/ Prep \/ Post \/ EndHook \/ Finish \/ FannedOut \/ Merge
  PROVE  BundleInv'
<1> DEFINE Same == UNCHANGED <<vars, settings, loopVars, copies, history>>
<1>1. /\ hook \in 1 .. HookCount + 1 /\ err \in Error \cup {None}
      /\ result \in Error \cup {"ok", None} /\ shared \in Seq(Item)
      /\ pushed \in Seq(Item) /\ firstErr \in Error \cup {None}
      /\ HookCount \in Nat /\ 1 \in 1 .. HookCount + 1
      /\ NoStart \in Error
  BY BundleConstants DEF Both, BundleInv, BundleTypeOK, IInv, TypeOK
<1>2. PhasesStand
  BY DEF Both, BundleInv
<1>3. Same => UNCHANGED <<n, concurrency, next, failed, status>> /\ Parallel' = Parallel
  BY DEF vars, loopVars, history, Parallel
<1>4. {"on_end", "returned", "on_start", "fan_out", "loop", "merge", "post"} \subseteq
        Phase \ {"on_error", "visit"}
  BY DEF Phase
<1>e. ASSUME NEW e \in Error \cup {None}, Ends(e), Same, result' = result,
             shared' = shared,
             phase \notin {"on_error", "visit", "returned"}
      PROVE  BundleInv'
  <2>1. phase' = "on_end" /\ hook' = 1 /\ err' = e
    BY <1>e DEF Ends
  <2>2. PhasesStand'
    BY <2>1 DEF PhasesStand
  <2> QED
    BY <1>1, <1>4, <1>e, <2>1, <2>2, RunKeeps
<1>h. ASSUME HookFails, Same, err' = err, shared' = shared,
             phase \in {"on_start", "on_end"}
      PROVE  BundleInv'
  <2>1. PICK e \in Error : result' = e
    BY <1>h DEF HookFails
  <2>2. phase' = "returned" /\ hook' = hook
    BY <1>h DEF HookFails
  <2>3. PhasesStand'
    BY <2>2 DEF PhasesStand
  <2> QED
    BY <1>1, <1>4, <1>h, <2>1, <2>2, <2>3, RunKeeps
<1>5. CASE StartHook \/ EndHook
  <2>1. /\ phase \in {"on_start", "on_end"} /\ hook <= HookCount /\ Same
        /\ err' = err /\ shared' = shared
    BY <1>5 DEF StartHook, EndHook
  <2>2. CASE hook' = hook + 1 /\ UNCHANGED <<phase, result>>
    <3>1. PhasesStand'
      BY <1>2, <1>3, <2>1, <2>2 DEF PhasesStand
    <3>2. hook' \in 1 .. HookCount + 1
      BY <1>1, <2>1, <2>2
    <3> QED
      BY <1>1, <1>4, <2>1, <2>2, <3>1, <3>2, RunKeeps
  <2> QED
    BY <1>5, <1>h, <2>1, <2>2 DEF StartHook, EndHook
<1>6. CASE Prep
  <2>1. phase = "on_start" /\ Same /\ UNCHANGED <<result, shared>>
    BY <1>6 DEF Prep
  <2>2. CASE /\ ~Parallel \/ hasStart
             /\ phase' = IF Parallel THEN "fan_out" ELSE "loop"
             /\ hook' = 1 /\ err' = err
    <3>1. PhasesStand'
      BY <1>3, <2>1, <2>2 DEF PhasesStand
    <3> QED
      BY <1>1, <1>4, <2>1, <2>2, <3>1, RunKeeps
  <2> QED
    BY <1>1, <1>6, <1>e, <2>1, <2>2 DEF Prep
<1>7. CASE Post
  BY <1>7, <1>e DEF Post
<1>8. CASE Finish
  <2>1. /\ phase = "on_end" /\ Same /\ UNCHANGED <<hook, shared, err>>
        /\ result' = (IF err = None THEN "ok" ELSE err) /\ phase' = "returned"
    BY <1>8 DEF Finish
  <2>2. PhasesStand'
    BY <2>1 DEF PhasesStand
  <2>3. result' \in Error \cup {"ok", None}
    BY <1>1, <2>1
  <2> QED
    BY <1>1, <1>4, <2>1, <2>2, <2>3, RunKeeps
<1>9. CASE FannedOut
  <2>1. phase = "fan_out" /\ Same /\ UNCHANGED <<result, shared>>
    BY <1>9 DEF FannedOut
  <2>2. CASE status = "ok" /\ phase' = "merge" /\ UNCHANGED <<err, hook>>
    <3>1. PhasesStand'
      BY <1>2, <1>3, <2>1, <2>2 DEF PhasesStand
    <3> QED
      BY <1>1, <1>4, <2>1, <2>2, <3>1, RunKeeps
  <2> QED
    BY <1>1, <1>9, <1>e, <2>1, <2>2 DEF FannedOut
<1>10. CASE Merge
  <2>1. phase = "merge" /\ Same /\ UNCHANGED <<result>>
    BY <1>10 DEF Merge
  <2>2. CASE phase' = "post" /\ shared' = shared \o pushed /\ UNCHANGED <<err, hook>>
    <3>1. Parallel /\ PhasesStand'
      BY <1>2, <1>3, <2>1, <2>2 DEF PhasesStand
    <3>2. shared' \in Seq(Item)
      BY <1>1, <2>2
    <3> QED
      BY <1>1, <1>4, <2>1, <2>2, <3>1, <3>2, RunKeeps
  <2> QED
    BY <1>10, <1>e, <2>1, <2>2 DEF Merge
<1> QED
  BY <1>5, <1>6, <1>7, <1>8, <1>9, <1>10

\* A step of the sequential loop: what is left to show of it.
LEMMA LoopKeeps ==
  ASSUME Both, ~Parallel, UNCHANGED <<vars, settings, copies, result>>,
         phase' \in Phase, hook' \in 1 .. HookCount + 1, err' \in Error \cup {None},
         next' \in 0 .. n, steps' \in Nat, shared' \in Seq(Item),
         failed' \subseteq Item, reported' \subseteq failed',
         PhasesStand', SharedInOrder',
         phase' = "on_error" => next' \in failed' /\ ~failFast /\ hook' <= HookCount,
         failFast => failed' = {} \/ phase' = "on_end",
         ~failFast /\ HookCount > 0 =>
           \A i \in failed' : i \in reported' \/ (phase' = "on_error" /\ i = next')
  PROVE  BundleInv'
<1>1. UNCHANGED <<n, concurrency, out, firstErr, pc, held, status, failFast, hasStart,
                  maxSteps, asked, pushed, result>>
      /\ Parallel' = Parallel
  BY DEF vars, settings, copies, Parallel
<1>2. BundleTypeOK'
  BY <1>1 DEF Both, BundleInv, BundleTypeOK
<1>3. CopiesMatch'
  BY <1>1 DEF Both, BundleInv, CopiesMatch
<1>4. AskedStand'
  <2>1. \A w \in Worker : asked[w] = 0
    BY DEF Both, BundleInv, AskedStand
  <2> QED
    BY <1>1, <2>1 DEF AskedStand
<1>5. FailuresMatch'
  BY <1>1 DEF FailuresMatch
<1> QED
  BY <1>2, <1>3, <1>4, <1>5 DEF BundleInv

\* The facts of a bundle in progress.
LEMMA InLoop ==
  ASSUME Both, ~Parallel
  PROVE  /\ n \in Nat /\ next \in 0 .. n /\ steps \in Nat /\ shared \in Seq(Item)
         /\ HookCount \in Nat /\ 1 \in 1 .. HookCount + 1
         /\ hook \in 1 .. HookCount + 1 /\ err \in Error \cup {None}
         /\ failed \subseteq Item /\ reported \subseteq failed
         /\ next < n => next \in Item /\ next + 1 \in 0 .. n
         /\ phase \notin {"on_end", "returned"} /\ failFast => failed = {}
         /\ ~failFast /\ HookCount > 0 =>
              \A i \in failed : i \in reported \/ (phase = "on_error" /\ i = next)
<1>1. /\ n \in 0 .. MaxItems /\ MaxItems \in Nat /\ HookCount \in Nat
  BY BundleConstants, RunParallelAssumption DEF Both, IInv, TypeOK
<1>2. BundleTypeOK /\ FailuresMatch /\ \A w \in Worker : asked[w] = 0
  BY DEF Both, BundleInv, AskedStand
<1>3. next < n => next \in Item /\ next + 1 \in 0 .. n
  BY <1>1, <1>2 DEF BundleTypeOK, Item
<1> QED
  BY <1>1, <1>2, <1>3 DEF BundleTypeOK, FailuresMatch

\* Nothing is written: the same bundle goes on, or it is over.
LEMMA SharedStays ==
  ASSUME Both, ~Parallel, UNCHANGED <<vars, settings, shared>>,
         steps' \in {steps, steps + 1}, failed \subseteq failed',
         \/ next' = next /\ phase' # "visit"
         \/ /\ next' = next + 1 /\ phase' # "visit"
            /\ next \in failed' \/ Contains(shared, next)
  PROVE  SharedInOrder'
<1>1. maxSteps' = maxSteps /\ Parallel' = Parallel
  BY DEF vars, settings, Parallel
<1>2. /\ next \in Nat /\ steps \in Nat /\ shared \in Seq(Item) /\ Len(shared) \in Nat
      /\ Item \subseteq Nat /\ \A j \in 1 .. Len(shared) : shared[j] \in Nat
  <2>1. n \in Nat /\ next \in 0 .. n /\ steps \in Nat /\ shared \in Seq(Item)
    BY InLoop
  <2>2. Item \subseteq Nat
    BY BundleConstants
  <2>3. next \in Nat
    BY <2>1
  <2>4. Len(shared) \in Nat /\ \A j \in 1 .. Len(shared) : shared[j] \in Item
    BY <2>1
  <2> QED
    BY <2>1, <2>2, <2>3, <2>4
<1>3. /\ Len(shared) <= steps /\ Len(shared) <= maxSteps
      /\ \A j \in 1 .. Len(shared) : shared[j] <= next
      /\ \A j, k \in 1 .. Len(shared) : j < k => shared[j] <= shared[k]
      /\ \A i \in Item : i < next => i \in failed \/ Contains(shared, i)
  BY DEF Both, BundleInv, SharedInOrder
<1>4. Len(shared) <= steps' /\ \A j \in 1 .. Len(shared) : shared[j] <= next'
  BY <1>2, <1>3
<1>5. \A i \in Item : i < next' => i \in failed' \/ Contains(shared, i)
  <2> SUFFICES ASSUME NEW i \in Item, i < next'
               PROVE  i \in failed' \/ Contains(shared, i)
    OBVIOUS
  <2>1. CASE i < next
    BY <1>3, <2>1
  <2>2. CASE ~(i < next)
    <3>1. i = next
      BY <1>2, <2>2
    <3> QED
      BY <2>2, <3>1
  <2> QED
    BY <2>1, <2>2
<1> QED
  BY <1>1, <1>3, <1>4, <1>5 DEF SharedInOrder

\* The next bundle's turn.
LEMMA NextKeeps ==
  ASSUME Both, ~Parallel, UNCHANGED <<vars, settings, copies, result, shared>>,
         next < n, NextBundle, steps' \in {steps, steps + 1},
         failed' \in {failed, failed \cup {next}}, failFast => failed' = {},
         reported \subseteq reported', reported' \subseteq failed',
         next \in failed' \/ Contains(shared, next),
         ~failFast /\ HookCount > 0 => \A i \in failed' : i \in reported'
  PROVE  BundleInv'
<1>1. phase' = "loop" /\ next' = next + 1 /\ hook' = 1 /\ err' = err
  BY DEF NextBundle
<1>2. UNCHANGED <<n, concurrency>> /\ Parallel' = Parallel
  BY DEF vars, Parallel
<1>3. PhasesStand'
  BY <1>1, <1>2 DEF PhasesStand
<1>4. SharedInOrder'
  BY <1>1, SharedStays
<1>5. phase' \in Phase
  BY <1>1 DEF Phase
<1>6. next' \in 0 .. n /\ steps' \in Nat /\ failed' \subseteq Item
  BY <1>1, InLoop
<1>7. hook' \in 1 .. HookCount + 1 /\ err' \in Error \cup {None} /\ shared' \in Seq(Item)
  BY <1>1, InLoop
<1> QED
  BY <1>1, <1>3, <1>4, <1>5, <1>6, <1>7, LoopKeeps

\* An error ends the loop.
LEMMA EndsKeeps ==
  ASSUME Both, ~Parallel, UNCHANGED <<vars, settings, copies, result, shared>>,
         next < n, NEW e \in Error, Ends(e), next' = next, steps' \in {steps, steps + 1},
         failed' \in {failed, failed \cup {next}},
         reported \subseteq reported', reported' \subseteq failed',
         ~failFast /\ HookCount > 0 => \A i \in failed' : i \in reported'
  PROVE  BundleInv'
<1>1. phase' = "on_end" /\ hook' = 1 /\ err' = e
  BY DEF Ends
<1>2. PhasesStand'
  BY <1>1 DEF PhasesStand
<1>3. SharedInOrder'
  BY <1>1, SharedStays
<1>4. phase' \in Phase
  BY <1>1 DEF Phase
<1>5. next' \in 0 .. n /\ steps' \in Nat /\ failed' \subseteq Item
  BY InLoop
<1>6. hook' \in 1 .. HookCount + 1 /\ err' \in Error \cup {None} /\ shared' \in Seq(Item)
  BY <1>1, InLoop
<1> QED
  BY <1>1, <1>2, <1>3, <1>4, <1>5, <1>6, LoopKeeps

\* The hooks are asked from the h-th on, about the bundle that failed.
LEMMA AskFromKeeps ==
  ASSUME Both, ~Parallel, UNCHANGED <<vars, settings, copies, result, shared>>,
         next < n, NEW h \in Nat, h > 0, AskFrom(h), steps' \in {steps, steps + 1}, ~failFast,
         failed' = failed \cup {next},
         reported \subseteq reported', reported' \subseteq failed',
         h = 1 \/ next \in reported',
         \A i \in failed : HookCount > 0 => i \in reported \/ i = next
  PROVE  BundleInv'
<1>1. CASE HooksLeft(h) /\ phase' = "on_error" /\ hook' = h /\ UNCHANGED <<next, err>>
  <2>1. UNCHANGED <<n, concurrency>> /\ Parallel' = Parallel
    BY DEF vars, Parallel
  <2>2. PhasesStand'
    BY <1>1, <2>1 DEF PhasesStand
  <2>3. SharedInOrder'
    BY <1>1, SharedStays
  <2>4. phase' \in Phase
    BY <1>1 DEF Phase
  <2>5. next' \in 0 .. n /\ steps' \in Nat /\ failed' \subseteq Item
    BY <1>1, InLoop
  <2>6. hook' \in 1 .. HookCount + 1 /\ hook' <= HookCount
    BY <1>1, InLoop DEF HooksLeft
  <2>7. err' \in Error \cup {None} /\ shared' \in Seq(Item)
    BY <1>1, InLoop
  <2> QED
    BY <1>1, <2>2, <2>3, <2>4, <2>5, <2>6, <2>7, LoopKeeps
<1>2. CASE ~HooksLeft(h) /\ NextBundle
  <2>1. HookCount > 0 => \A i \in failed' : i \in reported'
    BY <1>2, BundleConstants DEF HooksLeft
  <2> QED
    BY <1>2, <2>1, NextKeeps
<1> QED
  BY <1>1, <1>2 DEF AskFrom

\* A bundle of the loop failed.
LEMMA FailsKeeps ==
  ASSUME Both, ~Parallel, UNCHANGED <<vars, settings, copies, result, shared, reported>>,
         phase \in {"loop", "step", "visit"}, next < n, steps' \in {steps, steps + 1},
         NEW e \in Error, Fails(e)
  PROVE  BundleInv'
<1>1. failed' = IF e = Aborted THEN failed ELSE failed \cup {next}
  BY DEF Fails
<1>2. /\ reported \subseteq failed
      /\ ~failFast /\ HookCount > 0 => \A i \in failed : i \in reported
  BY InLoop
<1>3. CASE Propagated(e) /\ Ends(e) /\ UNCHANGED next
  <2>1. ~failFast => failed' = failed
    BY <1>1, <1>3 DEF Propagated
  <2> QED
    BY <1>1, <1>2, <1>3, <2>1, EndsKeeps
<1>4. CASE ~Propagated(e) /\ AskFrom(1)
  <2>1. ~failFast /\ failed' = failed \cup {next}
    BY <1>1, <1>4 DEF Propagated
  <2> QED
    BY <1>1, <1>2, <1>4, <2>1, AskFromKeeps
<1> QED
  BY <1>3, <1>4 DEF Fails

\* The steps of the sequential loop.
LEMMA LoopStepsKeep ==
  ASSUME Both, Loop \/ Visit \/ VisitSettles \/ Interrupted \/ ErrorHook
  PROVE  BundleInv'
<1> DEFINE Same == UNCHANGED <<vars, settings, copies, result>>
<1>1. PhasesStand /\ BundleTypeOK
  BY DEF Both, BundleInv
<1>2. Aborted \in Error /\ NoStart \in Error /\ Cycle \in Error
  BY BundleConstants
<1>3. CASE Loop
  <2>1. phase = "loop" /\ ~Parallel /\ Same /\ UNCHANGED <<steps, shared, reported>>
    BY <1>1, <1>3 DEF Loop, PhasesStand
  <2>2. CASE next < n /\ \E e \in {Aborted, NoStart} : Fails(e)
    BY <1>2, <2>1, <2>2, FailsKeeps
  <2>3. CASE phase' = "post" /\ next >= n /\ UNCHANGED <<next, hook, err, failed>>
    <3>1. next = n /\ UNCHANGED <<n, concurrency>> /\ Parallel' = Parallel
      BY <2>1, <2>3, InLoop DEF vars, Parallel
    <3>2. PhasesStand'
      BY <2>1, <2>3, <3>1 DEF PhasesStand
    <3>3. SharedInOrder'
      BY <2>1, <2>3, SharedStays
    <3>4. phase' \in Phase
      BY <2>3 DEF Phase
    <3> QED
      BY <2>1, <2>3, <3>2, <3>3, <3>4, InLoop, LoopKeeps
  <2>4. CASE phase' = "step" /\ next < n /\ UNCHANGED <<next, hook, err, failed>>
    <3>1. UNCHANGED <<n, concurrency>> /\ Parallel' = Parallel
      BY <2>1 DEF vars, Parallel
    <3>2. PhasesStand'
      BY <2>1, <2>4, <3>1 DEF PhasesStand
    <3>3. SharedInOrder'
      BY <2>1, <2>4, SharedStays
    <3>4. phase' \in Phase
      BY <2>4 DEF Phase
    <3> QED
      BY <2>1, <2>4, <3>2, <3>3, <3>4, InLoop, LoopKeeps
  <2> QED
    BY <1>3, <2>2, <2>3, <2>4 DEF Loop
<1>4. CASE Visit
  <2>1. /\ phase = "step" /\ ~Parallel /\ next < n /\ Same /\ reported' = reported
        /\ steps' = steps + 1
    BY <1>1, <1>4 DEF Visit, PhasesStand
  <2>2. CASE shared' = shared /\ \E e \in {Cycle, Aborted} : Fails(e)
    BY <1>2, <2>1, <2>2, FailsKeeps
  <2>3. CASE /\ ~OverBudget(steps') /\ phase' = "visit"
             /\ shared' = Append(shared, next)
             /\ UNCHANGED <<next, hook, err, failed>>
    <3>1. UNCHANGED <<n, concurrency, maxSteps>> /\ Parallel' = Parallel
      BY <2>1 DEF vars, settings, Parallel
    <3>2. PhasesStand'
      BY <2>1, <2>3, <3>1 DEF PhasesStand
    <3>3. SharedInOrder'
      <4> DEFINE m == Len(shared)
      <4>1. /\ shared \in Seq(Item) /\ next \in Item /\ m \in Nat
            /\ \A j \in 1 .. m : shared[j] \in Item
        BY <2>1, InLoop
      <4>2. Item \subseteq Nat /\ steps \in Nat /\ maxSteps \in Nat
        BY <1>1, <2>1, InLoop, BundleConstants DEF BundleTypeOK
      <4>3. /\ Len(shared') = m + 1 /\ shared'[m + 1] = next
            /\ \A j \in 1 .. m : shared'[j] = shared[j]
        BY <2>3, <4>1, AppendBundle
      <4>4. /\ m <= steps /\ \A j \in 1 .. m : shared[j] <= next
            /\ \A j, k \in 1 .. m : j < k => shared[j] <= shared[k]
            /\ \A i \in Item : i < next => i \in failed \/ Contains(shared, i)
        BY <2>1 DEF Both, BundleInv, SharedInOrder
      <4>5. Contains(shared', next) /\ \A i : Contains(shared, i) => Contains(shared', i)
        BY <2>3, <4>1, AppendContains
      <4> HIDE DEF m
      <4>6. m + 1 <= steps' /\ m + 1 <= maxSteps
        BY <2>1, <2>3, <4>1, <4>2, <4>4 DEF OverBudget
      <4>7. \A j \in 1 .. m + 1 : shared'[j] <= next
        <5> SUFFICES ASSUME NEW j \in 1 .. m + 1 PROVE shared'[j] <= next
          OBVIOUS
        <5>1. CASE j \in 1 .. m
          BY <4>3, <4>4, <5>1
        <5>2. CASE j = m + 1
          BY <4>1, <4>2, <4>3, <5>2
        <5> QED
          BY <4>1, <5>1, <5>2
      <4>8. \A j, k \in 1 .. m + 1 : j < k => shared'[j] <= shared'[k]
        <5> SUFFICES ASSUME NEW j \in 1 .. m + 1, NEW k \in 1 .. m + 1, j < k
                     PROVE  shared'[j] <= shared'[k]
          OBVIOUS
        <5>1. j \in 1 .. m
          BY <4>1
        <5>2. CASE k \in 1 .. m
          BY <4>3, <4>4, <5>1, <5>2
        <5>3. CASE k = m + 1
          BY <4>3, <4>4, <5>1, <5>3
        <5> QED
          BY <4>1, <5>2, <5>3
      <4>9. \A i \in Item : i < next \/ i = next => i \in failed \/ Contains(shared', i)
        BY <4>4, <4>5
      <4> QED
        BY <2>3, <3>1, <4>3, <4>6, <4>7, <4>8, <4>9 DEF SharedInOrder
    <3>4. phase' \in Phase
      BY <2>3 DEF Phase
    <3>5. shared' \in Seq(Item) /\ steps' \in Nat
      BY <2>1, <2>3, InLoop, AppendBundle
    <3> QED
      BY <2>1, <2>3, <3>2, <3>3, <3>4, <3>5, InLoop, LoopKeeps
  <2> QED
    BY <1>4, <2>2, <2>3 DEF Visit
<1>5. CASE VisitSettles \/ Interrupted
  <2>1. /\ phase = "visit" /\ ~Parallel /\ next < n /\ Same
        /\ UNCHANGED <<steps, shared, reported>>
    BY <1>1, <1>5 DEF VisitSettles, Interrupted, PhasesStand
  <2>2. ASSUME NEW e \in Error, Fails(e) PROVE BundleInv'
    BY <2>1, <2>2, FailsKeeps
  <2>3. CASE phase' = "step" /\ UNCHANGED <<next, hook, err, failed>>
    <3>1. UNCHANGED <<n, concurrency>> /\ Parallel' = Parallel
      BY <2>1 DEF vars, Parallel
    <3>2. PhasesStand'
      BY <2>1, <2>3, <3>1 DEF PhasesStand
    <3>3. SharedInOrder'
      BY <2>1, <2>3, SharedStays
    <3>4. phase' \in Phase
      BY <2>3 DEF Phase
    <3> QED
      BY <2>1, <2>3, <3>2, <3>3, <3>4, InLoop, LoopKeeps
  <2>4. CASE NextBundle /\ failed' = failed
    <3>1. next \in failed \/ Contains(shared, next)
      <4>1. next \in Item
        BY <2>1, InLoop
      <4> QED
        BY <2>1, <4>1 DEF Both, BundleInv, SharedInOrder
    <3> QED
      BY <2>1, <2>4, <3>1, InLoop, NextKeeps
  <2> QED
    BY <1>2, <1>5, <2>2, <2>3, <2>4 DEF VisitSettles, Interrupted
<1>6. CASE ErrorHook
  <2>1. /\ phase = "on_error" /\ ~Parallel /\ next < n /\ Same
        /\ UNCHANGED <<steps, shared, failed>> /\ reported' = reported \cup {next}
        /\ next \in failed /\ ~failFast /\ hook <= HookCount
    BY <1>1, <1>6 DEF ErrorHook, PhasesStand, Both, BundleInv, AskedStand
  <2>2. /\ failed' = failed \cup {next} /\ reported \subseteq reported'
        /\ reported' \subseteq failed' /\ next \in reported'
        /\ HookCount > 0 => \A i \in failed' : i \in reported'
    BY <2>1, InLoop
  <2>3. CASE AskFrom(hook + 1)
    <3> DEFINE h == hook + 1
    <3>1. h \in Nat /\ h > 0
      BY <2>1, InLoop
    <3>2. \A i \in failed : HookCount > 0 => i \in reported \/ i = next
      BY <2>1, InLoop
    <3>3. AskFrom(h)
      BY <2>3
    <3> HIDE DEF h
    <3> QED
      BY <2>1, <2>2, <3>1, <3>2, <3>3, AskFromKeeps
  <2>4. CASE NextBundle
    BY <2>1, <2>2, <2>4, NextKeeps
  <2>5. ASSUME NEW e \in Error, Ends(e), next' = next PROVE BundleInv'
    BY <2>1, <2>2, <2>5, EndsKeeps
  <2> QED
    BY <1>6, <2>3, <2>4, <2>5 DEF ErrorHook
<1> QED
  BY <1>3, <1>4, <1>5, <1>6

--------------------------------------------------------------------------------
\* A step keeps both invariants.
LEMMA BatchFlowStepKeeps == Both /\ [BatchFlowNext]_allVars => Both'
<1> SUFFICES ASSUME Both, [BatchFlowNext]_allVars PROVE Both'
  OBVIOUS
<1>1. IInv' /\ [Next]_vars
  BY StepIsMapperStep, StepKeepsIInv DEF Both
<1>2. CASE UNCHANGED allVars \/ BatchFlowReturned
  <2>1. UNCHANGED own /\ UNCHANGED <<out, pc, held, status, firstErr>>
    BY <1>2 DEF allVars, BatchFlowReturned, vars
  <2>2. BundleInv'
    BY <1>1, <2>1, QuietKeeps
  <2> QED
    BY <1>1, <2>2 DEF Both
<1>3. CASE BatchFlowNext
  <2>1. BundleInv'
    BY <1>2, <1>3, QuietStepsKeep, BundleRunsKeeps, BundleHookKeeps, DroppedKeeps,
       RunStepsKeep, LoopStepsKeep
    DEF BatchFlowNext, Hooks, Ops, Engine, Both
  <2> QED
    BY <1>1, <2>1 DEF Both
<1> QED
  BY <1>2, <1>3

\* The state of a BatchFlow stays well formed, and its copies, its shared and
\* its reports stay in step with its bundles (BatchFlow.tla, BundleInv).
THEOREM BatchFlowInvariance == BatchFlowSpec => [](IInv /\ BundleInv)
<1>1. BatchFlowInit => Both
  BY BatchFlowInitEstablishes
<1>2. Both /\ [BatchFlowNext]_allVars => Both'
  BY BatchFlowStepKeeps
<1>3. Both => IInv /\ BundleInv
  BY DEF Both
<1> QED
  BY <1>1, <1>2, <1>3, PTL DEF BatchFlowSpec

\* The state around the mapper has its type, in either mode
\* (batch_flow.rs 166-313).
THEOREM BundlesTyped == BatchFlowSpec => []BundleTypeOK
<1>1. IInv /\ BundleInv => BundleTypeOK
  BY DEF BundleInv
<1> QED
  BY <1>1, BatchFlowInvariance, PTL

\* The bundles use the mapper as it expects to be used, so that every theorem
\* about RunParallel is one about parallel bundles (batch_flow.rs 196-238).
THEOREM BundleComposition == BatchFlowSpec => BundlesUseMapper
<1>1. BatchFlowInit => Init
  BY DEF BatchFlowInit
<1>2. [BatchFlowNext]_allVars => [Next]_vars
  BY StepIsMapperStep
<1> QED
  BY <1>1, <1>2, PTL DEF BatchFlowSpec, BundlesUseMapper, Spec

\* merge is given the copy of every bundle, once each, in whatever order they
\* finished and whether they failed or not; only a cancel leaves some out
\* (batch_flow.rs 222-241).
THEOREM MergeIsComplete == BatchFlowSpec => []MergeGetsEveryBundle
<1>1. IInv /\ BundleInv => MergeGetsEveryBundle
  <2> SUFFICES ASSUME IInv, BundleInv, phase = "merge"
               PROVE  IsInjective(pushed) /\ (parent \/ ToSet(pushed) = 0 .. n - 1)
    BY DEF MergeGetsEveryBundle
  <2>1. status = "ok" /\ pushed \in Seq(Item)
    BY DEF BundleInv, PhasesStand, BundleTypeOK
  <2>2. DOMAIN pushed = 1 .. Len(pushed) /\ \A j \in 1 .. Len(pushed) : pushed[j] \in Item
    BY <2>1
  <2>3. IsInjective(pushed)
    BY <2>2 DEF IsInjective, BundleInv, CopiesMatch
  <2>4. ASSUME ~parent PROVE ToSet(pushed) = 0 .. n - 1
    <3>1. /\ \A i \in 0 .. n - 1 : out[i] = i /\ i \in Item
      BY <2>1, <2>4, IInvComplete, RunParallelAssumption
      DEF CompleteUnlessCancelled, IInv, TypeOK, Item
    <3>2. \A i \in 0 .. n - 1 : i \in ToSet(pushed)
      BY <2>2, <3>1 DEF BundleInv, CopiesMatch, Contains, ToSet
    <3>3. \A j \in 1 .. Len(pushed) : pushed[j] \in 0 .. n - 1
      <4> SUFFICES ASSUME NEW j \in 1 .. Len(pushed) PROVE pushed[j] \in 0 .. n - 1
        OBVIOUS
      <4>1. pushed[j] \in Item /\ out[pushed[j]] = pushed[j]
        BY <2>2 DEF BundleInv, CopiesMatch
      <4>2. pushed[j] \in Nat /\ pushed[j] # None /\ n \in Nat
        BY <4>1, BundleConstants, RunParallelAssumption DEF IInv, TypeOK
      <4>3. pushed[j] < n
        BY <4>1, <4>2 DEF IInv, SlotsFilled
      <4> QED
        BY <4>2, <4>3
    <3> QED
      BY <2>2, <3>2, <3>3 DEF ToSet
  <2> QED
    BY <2>3, <2>4
<1> QED
  BY <1>1, BatchFlowInvariance, PTL

\* In sequence the bundles write in order and within one budget, and each was
\* visited or failed when post is called (batch_flow.rs 245-275).
THEOREM BudgetShared == BatchFlowSpec => []BundlesShareBudget
<1>1. IInv /\ BundleInv => BundlesShareBudget
  <2> SUFFICES ASSUME IInv, BundleInv, ~Parallel
               PROVE  /\ Len(shared) <= maxSteps
                      /\ \A j, k \in 1 .. Len(shared) : j < k => shared[j] <= shared[k]
                      /\ phase = "post" =>
                           \A i \in 0 .. n - 1 : i \in failed \/ Contains(shared, i)
    BY DEF BundlesShareBudget
  <2>1. ASSUME phase = "post", NEW i \in 0 .. n - 1
        PROVE  i \in failed \/ Contains(shared, i)
    <3>1. next = n
      BY <2>1 DEF BundleInv, PhasesStand
    <3>2. i \in Item /\ i < n
      BY RunParallelAssumption DEF IInv, TypeOK, Item
    <3> QED
      BY <3>1, <3>2 DEF BundleInv, SharedInOrder
  <2> QED
    BY <2>1 DEF BundleInv, SharedInOrder
<1> QED
  BY <1>1, BatchFlowInvariance, PTL

\* When post is called every bundle that failed was put to the on_error hooks,
\* and with fail_fast none had failed (batch_flow.rs 222-229, 265-272).
THEOREM FailuresReported == BatchFlowSpec => []FailedBundlesReported
<1>1. IInv /\ BundleInv => FailedBundlesReported
  <2> SUFFICES ASSUME IInv, BundleInv, phase = "post"
               PROVE  IF failFast THEN failed = {} ELSE HookCount > 0 => failed = reported
    BY DEF FailedBundlesReported
  <2>1. Parallel => firstErr = None /\ \A w \in Worker : pc[w] # "busy"
    <3>1. Parallel => status = "ok"
      BY DEF BundleInv, PhasesStand
    <3> QED
      BY <3>1 DEF IInv, ReturnIsFinal
  <2>2. \A w \in Worker : asked[w] = 0
    BY <2>1 DEF BundleInv, AskedStand
  <2>3. reported \subseteq failed
    BY DEF BundleInv, BundleTypeOK
  <2>4. failFast => failed = {}
    BY <2>1 DEF BundleInv, FailuresMatch
  <2>5. ASSUME ~failFast, HookCount > 0 PROVE failed = reported
    <3>1. \A i \in failed : i \in reported
      BY <2>1, <2>2, <2>5 DEF BundleInv, FailuresMatch
    <3> QED
      BY <2>3, <3>1
  <2> QED
    BY <2>4, <2>5
<1> QED
  BY <1>1, BatchFlowInvariance, PTL

\* With fail_fast shared stays as the failed bundle left it; once the token is
\* cancelled no node is visited in sequence and no bundle is begun in parallel
\* (batch_flow.rs 117, 226, 246, 269).
THEOREM StopsFinal == BatchFlowSpec => StopsAreFinal
<1> DEFINE Stop ==
      /\ failFast /\ failed # {} => shared' = shared
      /\ parent => /\ phase # "merge" => shared' = shared
                   /\ \A w \in Worker : pc'[w] = "busy" => pc[w] = "busy"
<1>1. Both /\ [BatchFlowNext]_allVars => [Stop]_allVars
  <2> SUFFICES ASSUME Both, BatchFlowNext PROVE Stop
    BY DEF allVars
  <2>1. [Next]_vars
    BY StepIsMapperStep
  <2>2. CASE Merge
    <3>1. UNCHANGED vars /\ phase = "merge"
      BY <2>2 DEF Merge
    <3>2. failFast => failed = {}
      <4>1. firstErr = None /\ Parallel
        BY <3>1 DEF Both, BundleInv, PhasesStand, IInv, ReturnIsFinal
      <4> QED
        BY <4>1 DEF Both, BundleInv, FailuresMatch
    <3> QED
      BY <3>1, <3>2 DEF vars
  <2>3. CASE Visit
    <3>1. UNCHANGED vars /\ phase = "step"
      BY <2>3 DEF Visit
    <3>2. failFast => failed = {}
      BY <3>1, InLoop DEF Both, BundleInv, PhasesStand
    <3>3. parent => shared' = shared
      BY <2>3 DEF Visit, StopRequested
    <3> QED
      BY <3>1, <3>2, <3>3 DEF vars
  <2>4. CASE ~Merge /\ ~Visit
    <3>1. shared' = shared
      BY <2>4 DEF BatchFlowNext, Cancel, Hooks, StartHook, EndHook, ErrorHook, Ops,
         Prep, Post, Engine, Joined, FannedOut, Loop, Interrupted, Finish,
         VisitSettles, Drive, BundleRuns, BundleHook, Dropped, BatchFlowReturned,
         own, allVars
    <3>2. ASSUME parent, NEW w \in Worker, pc'[w] = "busy", pc[w] # "busy" PROVE FALSE
      BY <2>1, <3>2, NoneBegins DEF Both, IInv
    <3> QED
      BY <3>1, <3>2
  <2> QED
    BY <2>2, <2>3, <2>4
<1>2. BatchFlowInit => Both
  BY BatchFlowInitEstablishes
<1>3. Both /\ [BatchFlowNext]_allVars => Both'
  BY BatchFlowStepKeeps
<1> QED
  BY <1>1, <1>2, <1>3, PTL DEF BatchFlowSpec, StopsAreFinal

================================================================================
