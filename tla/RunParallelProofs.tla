--------------------------- MODULE RunParallelProofs ---------------------------
(***************************************************************************)
(* Theorems about RunParallel for every number of items, every concurrency  *)
(* and every set of errors: the inductive invariant IInv, the safety        *)
(* properties that follow from it and the implementation of ParallelMap.    *)
(***************************************************************************)
EXTENDS RunParallel, FiniteSetTheorems, TLAPS

(***************************************************************************)
(* The inductive invariant.                                                 *)
(***************************************************************************)

\* The slots of the items that have their value, all of them handed out.
SlotsFilled ==
  \A i \in Item : out[i] # None => out[i] = i /\ i < cursor /\ i < n

\* What the workers hold was handed out, to one worker each.
ClaimsValid ==
  /\ ExclusiveClaim
  /\ \A w \in Worker : Working(w) => held[w] < cursor
  /\ \A w \in Worker : pc[w] = "enter" => cursor = held[w] + 1

\* Every item handed out has its value, is being worked on, or has failed.
NoneLost ==
  \A i \in Item : i < n /\ i < cursor =>
    out[i] = i \/ firstErr # None \/ \E w \in Worker : Working(w) /\ held[w] = i

\* The claim, the guard and the first poll of a closure are one poll.
PollIsExclusive ==
  \A w \in Worker : pc[w] \in {"claim", "enter"} => polling = w

\* The linked token and the first error go together.
ErrorStops ==
  /\ linked => firstErr # None /\ ~Sequential
  /\ firstErr # None => linked \/ \A w \in Worker : pc[w] = "exited"
  /\ raised # {} => firstErr # None

\* Why a worker has left its loop, and which workers there are.
ExitHasReason ==
  /\ \A w \in 1 .. WorkerCount :
       pc[w] = "exited" => firstErr # None \/ parent \/ cursor >= n
  /\ \A w \in Worker : w > WorkerCount => pc[w] = "exited"

\* The call returns when its workers have left, with what they recorded.
ReturnIsFinal ==
  status # "running" =>
    /\ \A w \in Worker : pc[w] = "exited"
    /\ status = "err" <=> firstErr # None

\* The conjunction of the seven with the cause of the error is inductive.
IInv ==
  /\ TypeOK
  /\ SlotsFilled
  /\ ClaimsValid
  /\ NoneLost
  /\ PollIsExclusive
  /\ ErrorStops
  /\ ErrorHasCause
  /\ ExitHasReason
  /\ ReturnIsFinal

--------------------------------------------------------------------------------

\* Every mode has between none and `concurrency` workers, at least one when
\* there is an item.
LEMMA WorkerCountBounds ==
  ASSUME TypeOK
  PROVE  /\ WorkerCount \in Nat
         /\ 1 .. WorkerCount \subseteq Worker
         /\ WorkerCount <= (IF Sequential THEN 1 ELSE concurrency)
         /\ n # 0 => 1 \in 1 .. WorkerCount
         /\ Sequential => WorkerCount <= 1
BY RunParallelAssumption, FlowErrorsAssumption DEF TypeOK, WorkerCount, Worker, Sequential

\* The initial states satisfy the inductive invariant.
LEMMA InitEstablishesIInv == Init => IInv
<1> SUFFICES ASSUME Init PROVE IInv
  OBVIOUS
<1>1. TypeOK
  BY RunParallelAssumption, FlowErrorsAssumption
  DEF Init, TypeOK, Item, Worker, Error, UserError
<1>2. \A w \in Worker : pc[w] \in {"loop", "exited"} /\ held[w] = None
  BY DEF Init
<1>3. SlotsFilled /\ NoneLost
  BY RunParallelAssumption, FlowErrorsAssumption DEF Init, SlotsFilled, NoneLost, Item
<1>4. ClaimsValid /\ PollIsExclusive
  BY <1>2 DEF ClaimsValid, ExclusiveClaim, Working, PollIsExclusive
<1>5. ErrorStops /\ ErrorHasCause /\ ReturnIsFinal
  BY DEF Init, ErrorStops, ErrorHasCause, ReturnIsFinal
<1>6. ExitHasReason
  <2>1. WorkerCount \in Nat /\ 1 .. WorkerCount \subseteq Worker /\ Worker \subseteq Int
    BY <1>1, WorkerCountBounds, RunParallelAssumption, FlowErrorsAssumption DEF Worker
  <2>2. \A w \in Worker : pc[w] = IF w <= WorkerCount THEN "loop" ELSE "exited"
    BY DEF Init
  <2> QED
    BY <2>1, <2>2 DEF ExitHasReason
<1> QED
  BY <1>1, <1>3, <1>4, <1>5, <1>6 DEF IInv

\* A step keeps the type invariant.
LEMMA StepKeepsTypeOK == TypeOK /\ [Next]_vars => TypeOK'
<1> SUFFICES ASSUME TypeOK, [Next]_vars PROVE TypeOK'
  OBVIOUS
<1>a. /\ Worker \subseteq Nat \ {0} /\ Item \subseteq Nat
      /\ Aborted \in Error /\ \A i \in Nat : i < n => i \in Item
  BY RunParallelAssumption, FlowErrorsAssumption DEF TypeOK, Worker, Item, Error, UserError
<1>1. CASE ParentCancel
  BY <1>1 DEF ParentCancel, TypeOK
<1>2. ASSUME NEW w \in Worker, SeqNext(w) PROVE TypeOK'
  BY <1>a, <1>2 DEF SeqNext, TypeOK
<1>3. ASSUME NEW w \in Worker, LoopCheck(w) PROVE TypeOK'
  BY <1>3 DEF LoopCheck, TypeOK
<1>4. ASSUME NEW w \in Worker, Claim(w) PROVE TypeOK'
  BY <1>a, <1>4 DEF Claim, NextCursor, Exhausted, TypeOK
<1>5. ASSUME NEW w \in Worker, RaceEnter(w) PROVE TypeOK'
  BY <1>a, <1>5 DEF RaceEnter, Fail, FirstError, SiblingsStop, TypeOK
<1>6. ASSUME NEW w \in Worker, SettleOk(w) PROVE TypeOK'
  BY <1>6 DEF SettleOk, TypeOK
<1>7. ASSUME NEW w \in Worker, NEW e \in Error, SettleErr(w, e) PROVE TypeOK'
  BY <1>7 DEF SettleErr, Fail, FirstError, SiblingsStop, TypeOK
<1>8. ASSUME NEW w \in Worker, Interrupt(w) PROVE TypeOK'
  BY <1>a, <1>8 DEF Interrupt, Fail, FirstError, SiblingsStop, TypeOK
<1>9. CASE Return
  BY <1>9 DEF Return, TypeOK
<1>10. CASE UNCHANGED vars
  BY <1>10 DEF vars, TypeOK
<1> QED
  BY <1>1, <1>2, <1>3, <1>4, <1>5, <1>6, <1>7, <1>8, <1>9, <1>10
  DEF Next, Step, Settle, Returned

\* A step keeps the inductive invariant.
LEMMA StepKeepsIInv == IInv /\ [Next]_vars => IInv'
<1> SUFFICES ASSUME IInv, [Next]_vars PROVE IInv'
  OBVIOUS
<1>t. TypeOK /\ TypeOK'
  BY StepKeepsTypeOK DEF IInv
<1>a. /\ Worker \subseteq Nat \ {0} /\ Item \subseteq Nat /\ None \notin Nat
      /\ None \notin Error /\ Aborted \in Error
      /\ \A i \in Nat : i < n => i \in Item
  BY <1>t, RunParallelAssumption, FlowErrorsAssumption DEF TypeOK, Worker, Item, Error, UserError
<1>c. /\ WorkerCount \in Nat
      /\ 1 .. WorkerCount \subseteq Worker
      /\ Sequential => WorkerCount <= 1
  BY <1>t, WorkerCountBounds
\* Nobody else is between the claim and the first poll of a closure.
<1>p. \A v, w \in Worker : Polled(w) /\ pc[v] \in {"claim", "enter"} => v = w
  BY <1>a DEF IInv, PollIsExclusive, Polled
<1>r. \A w \in Worker : pc[w] # "exited" => status = "running"
  BY DEF IInv, ReturnIsFinal
<1>s. Sequential => \A v, w \in Worker :
                      pc[v] # "exited" /\ pc[w] # "exited" => v = w
  BY <1>a, <1>c DEF IInv, ExitHasReason
<1> USE DEF IInv
<1>1. CASE ParentCancel
  BY <1>t, <1>1 DEF ParentCancel, SlotsFilled, ClaimsValid, ExclusiveClaim,
     Working, NoneLost, PollIsExclusive, ErrorStops, ErrorHasCause,
     ExitHasReason, WorkerCount, Sequential, ReturnIsFinal
<1>2. ASSUME NEW w \in Worker, SeqNext(w) PROVE IInv'
  <2>1. SlotsFilled'
    BY <1>t, <1>a, <1>2 DEF SeqNext, SlotsFilled, TypeOK
  <2>2. ClaimsValid'
    BY <1>t, <1>a, <1>p, <1>2
    DEF SeqNext, SlotsFilled, ClaimsValid, ExclusiveClaim, Working, TypeOK
  <2>3. NoneLost'
    BY <1>t, <1>a, <1>2 DEF SeqNext, NoneLost, Working, TypeOK
  <2>4. PollIsExclusive'
    BY <1>t, <1>p, <1>2 DEF SeqNext, PollIsExclusive, TypeOK
  <2>5. ErrorStops'
    BY <1>t, <1>a, <1>s, <1>2
    DEF SeqNext, ErrorStops, Sequential, TypeOK
  <2>6. ErrorHasCause'
    BY <1>t, <1>2
    DEF SeqNext, ErrorHasCause, ErrorStops, Cancelled, TypeOK
  <2>7. ExitHasReason'
    BY <1>t, <1>c, <1>2
    DEF SeqNext, ExitHasReason, ErrorStops, Cancelled, WorkerCount, Sequential,
        TypeOK
  <2>8. ReturnIsFinal'
    BY <1>r, <1>2 DEF SeqNext, ReturnIsFinal
  <2> QED
    BY <1>t, <2>1, <2>2, <2>3, <2>4, <2>5, <2>6, <2>7, <2>8
<1>3. ASSUME NEW w \in Worker, LoopCheck(w) PROVE IInv'
  <2>1. SlotsFilled' /\ ClaimsValid' /\ NoneLost'
    BY <1>t, <1>3 DEF LoopCheck, SlotsFilled, ClaimsValid, ExclusiveClaim,
       Working, NoneLost, TypeOK
  <2>2. PollIsExclusive'
    BY <1>t, <1>p, <1>3 DEF LoopCheck, PollIsExclusive, TypeOK
  <2>3. ErrorStops' /\ ErrorHasCause'
    BY <1>t, <1>3 DEF LoopCheck, ErrorStops, ErrorHasCause,
       Sequential, TypeOK
  <2>4. ExitHasReason'
    BY <1>t, <1>c, <1>3 DEF LoopCheck, ExitHasReason, ErrorStops, Cancelled,
       WorkerCount, Sequential, TypeOK
  <2>5. ReturnIsFinal'
    BY <1>r, <1>3 DEF LoopCheck, ReturnIsFinal
  <2> QED
    BY <1>t, <2>1, <2>2, <2>3, <2>4, <2>5
<1>4. ASSUME NEW w \in Worker, Claim(w) PROVE IInv'
  <2>1. SlotsFilled'
    BY <1>t, <1>a, <1>4 DEF Claim, NextCursor, Exhausted, SlotsFilled, TypeOK
  <2>2. ClaimsValid'
    BY <1>t, <1>a, <1>p, <1>4
    DEF Claim, NextCursor, Exhausted, SlotsFilled, ClaimsValid, ExclusiveClaim,
        Working, TypeOK
  <2>3. NoneLost'
    BY <1>t, <1>a, <1>4 DEF Claim, NextCursor, Exhausted, NoneLost, Working, TypeOK
  <2>4. PollIsExclusive'
    BY <1>t, <1>p, <1>4 DEF Claim, NextCursor, Exhausted, PollIsExclusive, TypeOK
  <2>5. ErrorStops' /\ ErrorHasCause'
    BY <1>t, <1>4
    DEF Claim, NextCursor, Exhausted, ErrorStops, ErrorHasCause, Sequential,
       TypeOK
  <2>6. ExitHasReason'
    BY <1>t, <1>a, <1>c, <1>4
    DEF Claim, NextCursor, Exhausted, ExitHasReason, WorkerCount, Sequential, TypeOK
  <2>7. ReturnIsFinal'
    BY <1>r, <1>4 DEF Claim, NextCursor, Exhausted, ReturnIsFinal
  <2> QED
    BY <1>t, <2>1, <2>2, <2>3, <2>4, <2>5, <2>6, <2>7
<1>f. ASSUME NEW w \in Worker, NEW e \in Error, Polled(w),
             pc[w] \in {"enter", "busy"}, Fail(w, e),
             UNCHANGED <<n, concurrency, parent, cursor, out, held, status>>,
             \/ raised' = raised \cup {e}
             \/ raised' = raised /\ e = Aborted /\ Cancelled
      PROVE  IInv'
  <2>1. firstErr' # None
    BY <1>a, <1>f DEF Fail, FirstError
  <2>2. SlotsFilled' /\ ClaimsValid' /\ NoneLost'
    BY <1>t, <1>f, <2>1
    DEF Fail, FirstError, SiblingsStop, SlotsFilled, ClaimsValid, ExclusiveClaim,
       Working, NoneLost, TypeOK
  <2>3. PollIsExclusive'
    BY <1>t, <1>p, <1>f DEF Fail, FirstError, SiblingsStop, PollIsExclusive, TypeOK
  <2>4. ErrorStops'
    BY <1>t, <1>s, <1>f, <2>1
    DEF Fail, FirstError, SiblingsStop, ErrorStops, Sequential, TypeOK
  <2>5. ErrorHasCause'
    BY <1>t, <1>r, <1>f, <2>1
    DEF Fail, FirstError, SiblingsStop, ErrorHasCause, ErrorStops, Cancelled, TypeOK
  <2>6. ExitHasReason'
    BY <1>t, <1>f, <2>1
    DEF Fail, FirstError, SiblingsStop, ExitHasReason, WorkerCount, Sequential,
        TypeOK
  <2>7. ReturnIsFinal'
    BY <1>r, <1>f DEF ReturnIsFinal
  <2> QED
    BY <1>t, <2>2, <2>3, <2>4, <2>5, <2>6, <2>7
<1>5. ASSUME NEW w \in Worker, RaceEnter(w) PROVE IInv'
  <2>1. CASE Cancelled
    BY <1>a, <1>f, <1>5, <2>1 DEF RaceEnter
  <2>2. CASE ~Cancelled
    <3>1. SlotsFilled' /\ ClaimsValid' /\ NoneLost'
      BY <1>t, <1>5, <2>2 DEF RaceEnter, SlotsFilled, ClaimsValid,
         ExclusiveClaim, Working, NoneLost, TypeOK
    <3>2. PollIsExclusive'
      BY <1>t, <1>p, <1>5, <2>2 DEF RaceEnter, PollIsExclusive, TypeOK
    <3>3. ErrorStops' /\ ErrorHasCause'
      BY <1>t, <1>5, <2>2
      DEF RaceEnter, ErrorStops, ErrorHasCause, Cancelled, Sequential, TypeOK
    <3>4. ExitHasReason'
      BY <1>t, <1>c, <1>5, <2>2
      DEF RaceEnter, ExitHasReason, WorkerCount, Sequential, TypeOK
    <3>5. ReturnIsFinal'
      BY <1>r, <1>5, <2>2 DEF RaceEnter, ReturnIsFinal
    <3> QED
      BY <1>t, <3>1, <3>2, <3>3, <3>4, <3>5
  <2> QED
    BY <2>1, <2>2
<1>6. ASSUME NEW w \in Worker, SettleOk(w) PROVE IInv'
  <2>0. held[w] \in Item /\ held[w] < n /\ held[w] < cursor
    BY <1>t, <1>a, <1>6
    DEF SettleOk, ClaimsValid, ExclusiveClaim, Working, TypeOK
  <2>1. SlotsFilled'
    BY <1>t, <1>a, <1>6, <2>0 DEF SettleOk, SlotsFilled, TypeOK
  <2>2. ClaimsValid'
    BY <1>t, <1>a, <1>6, <2>0
    DEF SettleOk, ClaimsValid, ExclusiveClaim, Working, TypeOK
  <2>3. NoneLost'
    BY <1>t, <1>a, <1>6, <2>0 DEF SettleOk, NoneLost, Working, TypeOK
  <2>4. PollIsExclusive'
    BY <1>t, <1>p, <1>6 DEF SettleOk, PollIsExclusive, TypeOK
  <2>5. ErrorStops' /\ ErrorHasCause'
    BY <1>t, <1>6 DEF SettleOk, ErrorStops, ErrorHasCause,
       Sequential, TypeOK
  <2>6. ExitHasReason'
    BY <1>t, <1>c, <1>6
    DEF SettleOk, ExitHasReason, WorkerCount, Sequential, TypeOK
  <2>7. ReturnIsFinal'
    BY <1>r, <1>6 DEF SettleOk, ReturnIsFinal
  <2> QED
    BY <1>t, <2>1, <2>2, <2>3, <2>4, <2>5, <2>6, <2>7
<1>7. ASSUME NEW w \in Worker, NEW e \in Error, SettleErr(w, e) PROVE IInv'
  BY <1>f, <1>7 DEF SettleErr
<1>8. ASSUME NEW w \in Worker, Interrupt(w) PROVE IInv'
  BY <1>a, <1>f, <1>8 DEF Interrupt
<1>9. CASE Return
  BY <1>t, <1>9 DEF Return, SlotsFilled, ClaimsValid, ExclusiveClaim, Working,
     NoneLost, PollIsExclusive, ErrorStops, ErrorHasCause, ExitHasReason,
     WorkerCount, Sequential, ReturnIsFinal
<1>10. CASE UNCHANGED vars
  BY <1>t, <1>10 DEF vars, SlotsFilled, ClaimsValid, ExclusiveClaim, Working,
     NoneLost, PollIsExclusive, ErrorStops, ErrorHasCause, ExitHasReason,
     WorkerCount, Sequential, ReturnIsFinal
<1> QED
  BY <1>1, <1>2, <1>3, <1>4, <1>5, <1>6, <1>7, <1>8, <1>9, <1>10
  DEF Next, Step, Settle, Returned

\* Every reachable state satisfies the inductive invariant.
THEOREM Invariance == Spec => []IInv
BY InitEstablishesIInv, StepKeepsIInv, PTL DEF Spec

\* The state of a call stays well formed.
THEOREM TypeCorrectness == Spec => []TypeOK
<1>1. IInv => TypeOK
  BY DEF IInv
<1> QED
  BY <1>1, Invariance, PTL

\* A call that was not cancelled and returns Ok has every value in its slot:
\* its workers left with the cursor at the end, every index below the cursor
\* is stored, held or failed, and a returned call holds nothing.
LEMMA IInvComplete == IInv => CompleteUnlessCancelled
<1>1. ASSUME IInv PROVE CompleteUnlessCancelled
  <2>1. SUFFICES ASSUME status = "ok", ~parent, NEW i \in 0 .. n - 1
                 PROVE  out[i] = i
    BY DEF CompleteUnlessCancelled
  <2>2. TypeOK
    BY <1>1 DEF IInv
  <2>3. i \in Item /\ i < n /\ n # 0 /\ n \in Nat
    BY <2>1, <2>2, RunParallelAssumption, FlowErrorsAssumption DEF TypeOK, Item
  <2>4. firstErr = None /\ \A w \in Worker : pc[w] = "exited"
    BY <1>1, <2>1 DEF IInv, ReturnIsFinal
  <2>5. 1 \in 1 .. WorkerCount /\ 1 \in Worker
    BY <2>2, <2>3, WorkerCountBounds
  <2>6. cursor >= n
    BY <1>1, <2>1, <2>4, <2>5 DEF IInv, ExitHasReason
  <2>7. i < cursor
    BY <2>2, <2>3, <2>6, RunParallelAssumption, FlowErrorsAssumption DEF TypeOK, Item
  <2> QED
    BY <1>1, <2>3, <2>4, <2>7 DEF IInv, NoneLost, Working
<1> QED
  BY <1>1

\* Every call that was not cancelled and returns Ok is complete.
THEOREM Completeness == Spec => []CompleteUnlessCancelled
BY IInvComplete, Invariance, PTL

\* The closure runs at most once per item, for one worker.
THEOREM Exclusion == Spec => []ExclusiveClaim
<1>1. IInv => ExclusiveClaim
  BY DEF IInv, ClaimsValid
<1> QED
  BY <1>1, Invariance, PTL

\* The reported error was returned by a closure or stands for a cancelled
\* parent, and an error that a closure returned is always reported.
THEOREM ErrorsAreTrue == Spec => []ErrorHasCause
<1>1. IInv => ErrorHasCause
  BY DEF IInv
<1> QED
  BY <1>1, Invariance, PTL

\* After a failure no closure gets its first poll: the error cancelled the
\* linked token in the same poll, and race_abort looks at it first.
THEOREM FailureStops == Spec => StopAfterFailure
<1> DEFINE Quiet == firstErr # None =>
              \A w \in Worker : pc'[w] = "busy" => pc[w] = "busy"
<1>1. IInv /\ [Next]_vars => [Quiet]_vars
  <2> SUFFICES ASSUME IInv, Next, firstErr # None, NEW v \in Worker,
                      pc'[v] = "busy"
               PROVE  pc[v] = "busy"
    BY DEF vars
  <2>1. Cancelled \/ \A w \in Worker : pc[w] = "exited"
    BY DEF IInv, ErrorStops, Cancelled
  <2>2. TypeOK
    BY DEF IInv
  <2> QED
    BY <2>1, <2>2 DEF Next, Step, Settle, ParentCancel, SeqNext, LoopCheck,
       Claim, RaceEnter, SettleOk, SettleErr, Interrupt, Fail, FirstError,
       SiblingsStop, NextCursor, Exhausted, Return,
       Returned, vars, TypeOK
<1> QED
  BY <1>1, Invariance, PTL DEF Spec, StopAfterFailure

(***************************************************************************)
(* The implementation of ParallelMap.                                       *)
(***************************************************************************)
Busy == {v \in Worker : pc[v] = "busy"}
InFlight == {held[w] : w \in Busy}

\* A worker about to poll a closure leaves room for it: the other workers hold
\* at most one item each, and there are at most `concurrency` workers.
LEMMA RoomToBegin ==
  ASSUME IInv, NEW w \in Worker, pc[w] = "enter"
  PROVE  Cardinality(InFlight) < (IF Sequential THEN 1 ELSE concurrency)
<1> DEFINE Others == (1 .. WorkerCount) \ {w}
<1>1. TypeOK
  BY DEF IInv
<1>2. /\ WorkerCount \in Nat
      /\ WorkerCount <= (IF Sequential THEN 1 ELSE concurrency)
      /\ concurrency \in Nat
  BY <1>1, WorkerCountBounds, RunParallelAssumption, FlowErrorsAssumption DEF TypeOK
<1>3. \A v \in Worker : pc[v] # "exited" => v \in 1 .. WorkerCount
  BY <1>1, <1>2, RunParallelAssumption, FlowErrorsAssumption DEF IInv, ExitHasReason, Worker
<1>4. w \in 1 .. WorkerCount /\ WorkerCount >= 1
  BY <1>2, <1>3
<1>5. IsFiniteSet(Others) /\ Cardinality(Others) = WorkerCount - 1
  <2>1. 1 \in Int /\ WorkerCount \in Int /\ ~(1 > WorkerCount)
    BY <1>2, <1>4
  <2>2. IsFiniteSet(1 .. WorkerCount) /\ Cardinality(1 .. WorkerCount) = WorkerCount
    BY <2>1, <1>2, FS_Interval
  <2> QED
    BY <2>2, <1>4, FS_RemoveElement
<1>6. Busy \in SUBSET Others
  BY <1>3 DEF Busy
<1>7. IsFiniteSet(Busy) /\ Cardinality(Busy) <= WorkerCount - 1
  <2> HIDE DEF Others
  <2>1. IsFiniteSet(Busy) /\ Cardinality(Busy) <= Cardinality(Others)
    BY <1>5, <1>6, FS_Subset
  <2> QED
    BY <1>5, <2>1
<1>8. [v \in Busy |-> held[v]] \in Surjection(Busy, InFlight)
  BY DEF Surjection, InFlight
<1>9. IsFiniteSet(InFlight) /\ Cardinality(InFlight) <= Cardinality(Busy)
  BY <1>7, <1>8, FS_Surjection
<1>10. Cardinality(InFlight) \in Nat /\ Cardinality(Busy) \in Nat
  BY <1>7, <1>9, FS_CardinalityType
<1> QED
  BY <1>2, <1>4, <1>7, <1>9, <1>10

\* run_parallel keeps every promise of the abstract map.
THEOREM Refinement == Spec => ImplementsMap
<1>1. ASSUME Init PROVE Map!MapInit
  BY <1>1, RunParallelAssumption, FlowErrorsAssumption
  DEF Init, Map!MapInit, Sequential, WorkerCount
<1>2. ASSUME IInv, IInv', CompleteUnlessCancelled', [Next]_vars
      PROVE  [Map!MapNext]_Map!mapVars
  <2>t. TypeOK /\ TypeOK'
    BY <1>2 DEF IInv
  <2>a. /\ Aborted \in Error /\ None \notin Error /\ None \notin Nat
        /\ Item \subseteq Nat
    BY RunParallelAssumption, FlowErrorsAssumption DEF Error, UserError, Item
  <2>i. /\ InFlight = {held[w] : w \in {v \in Worker : pc[v] = "busy"}}
        /\ InFlight' = {held'[w] : w \in {v \in Worker : pc'[v] = "busy"}}
    BY DEF InFlight, Busy
  <2>1. CASE ParentCancel
    BY <2>1 DEF ParentCancel, Sequential, Map!MapNext, Map!Cancel
  <2>2. ASSUME NEW w \in Worker, SeqNext(w)
        PROVE  [Map!MapNext]_Map!mapVars
    <3>1. InFlight' = InFlight
      BY <2>t, <2>2 DEF SeqNext, InFlight, Busy, TypeOK
    <3>2. CASE (cursor < n /\ ~Cancelled) \/ cursor >= n
      BY <2>t, <2>2, <2>i, <3>1, <3>2
      DEF SeqNext, Map!mapVars, Sequential, TypeOK
    <3>3. CASE cursor < n /\ Cancelled
      <4>1. parent /\ firstErr = None
        BY <1>2, <2>t, <2>2, <3>3
        DEF IInv, ErrorStops, Cancelled, SeqNext, TypeOK
      <4> QED
        BY <2>t, <2>2, <2>i, <3>1, <3>3, <4>1
        DEF SeqNext, Map!MapNext, Map!Halt, Sequential, TypeOK
    <3> QED
      BY <2>t, <3>2, <3>3 DEF TypeOK
  <2>3. ASSUME NEW w \in Worker, LoopCheck(w) \/ Claim(w)
        PROVE  [Map!MapNext]_Map!mapVars
    <3>1. InFlight' = InFlight
      BY <2>t, <2>3 DEF LoopCheck, Claim, NextCursor, Exhausted, InFlight, Busy,
      TypeOK
    <3> QED
      BY <2>3, <2>i, <3>1
      DEF LoopCheck, Claim, NextCursor, Exhausted, Map!mapVars, Sequential
  <2>f. ASSUME NEW w \in Worker, NEW e \in Error, pc[w] = "busy", Fail(w, e),
               UNCHANGED <<n, concurrency, parent, out, held, status>>
        PROVE  [Map!MapNext]_Map!mapVars
    <3>1. PICK i \in Item : i = held[w]
      BY <1>2, <2>t, <2>a, <2>f, RunParallelAssumption, FlowErrorsAssumption
      DEF TypeOK, IInv, ClaimsValid, ExclusiveClaim, Working
    <3>2. InFlight' = InFlight \ {i} /\ i \in InFlight
      BY <1>2, <2>t, <2>f, <3>1
     
      DEF Fail, FirstError, SiblingsStop, InFlight, Busy, TypeOK, IInv,
          ClaimsValid, ExclusiveClaim, Working
    <3>3. Map!FailWith(i, e)
      BY <2>f, <2>i, <3>2 DEF Fail, FirstError, SiblingsStop, Map!FailWith,
      Sequential
    <3> QED
      BY <3>3 DEF Map!MapNext
  <2>4. ASSUME NEW w \in Worker, RaceEnter(w)
        PROVE  [Map!MapNext]_Map!mapVars
    <3>1. CASE Cancelled
      <4>1. InFlight' = InFlight
        BY <2>t, <2>4, <3>1
        DEF RaceEnter, Fail, FirstError, SiblingsStop, InFlight, Busy, TypeOK
      <4>2. CASE parent
        BY <2>4, <2>i, <3>1, <4>1, <4>2
        DEF RaceEnter, Fail, FirstError, SiblingsStop, Map!MapNext, Map!Halt,
            Sequential
      <4>3. CASE ~parent
        <5>1. firstErr # None
          BY <1>2, <3>1, <4>3 DEF IInv, ErrorStops, Cancelled
        <5> QED
          BY <2>4, <2>i, <3>1, <4>1, <5>1
          DEF RaceEnter, Fail, FirstError, SiblingsStop, Map!mapVars, Sequential
      <4> QED
        BY <4>2, <4>3
    <3>2. CASE ~Cancelled
      <4>0. PICK i \in Item : i = held[w]
        BY <1>2, <2>t, <2>a, <2>4, RunParallelAssumption, FlowErrorsAssumption
        DEF RaceEnter, TypeOK, IInv, ClaimsValid, ExclusiveClaim, Working
      <4>1. /\ i < n /\ out[i] = None /\ cursor = i + 1
            /\ \A v \in Worker : Working(v) /\ held[v] = i => v = w
        BY <1>2, <2>t, <2>a, <2>4, <4>0, RunParallelAssumption, FlowErrorsAssumption
        DEF RaceEnter, TypeOK, IInv, ClaimsValid, ExclusiveClaim, Working
      <4>2. firstErr = None /\ ~parent
        BY <1>2, <2>t, <2>4, <3>2
        DEF IInv, ErrorStops, Cancelled, RaceEnter, TypeOK
      <4>3. Cardinality(InFlight) < (IF Sequential THEN 1 ELSE concurrency)
        BY <1>2, <2>4, RoomToBegin DEF RaceEnter
      <4>4. InFlight' = InFlight \cup {i} /\ i \notin InFlight
        BY <2>t, <2>4, <3>2, <4>0, <4>1
        DEF RaceEnter, InFlight, Busy, TypeOK, Working
      <4>5. \A j \in Item : j < i => j \in InFlight \/ out[j] # None
        <5> SUFFICES ASSUME NEW j \in Item, j < i, out[j] = None
                     PROVE  j \in InFlight
          OBVIOUS
        <5>1. j < n /\ j < cursor /\ out[j] # j
          BY <2>t, <2>a, <4>1 DEF TypeOK, Item
        <5>2. PICK v \in Worker : Working(v) /\ held[v] = j
          BY <1>2, <4>2, <5>1 DEF IInv, NoneLost
        <5>3. pc[v] # "enter"
          BY <1>2, <2>a, <2>t, <4>1, <5>2 DEF IInv, ClaimsValid, TypeOK
        <5> QED
          BY <5>2, <5>3 DEF Working, InFlight, Busy
      <4>6. Map!Begin(i)
        BY <2>4, <2>i, <3>2, <4>1, <4>2, <4>3, <4>4, <4>5
        DEF RaceEnter, Map!Begin, Sequential
      <4> QED
        BY <4>6 DEF Map!MapNext
    <3> QED
      BY <3>1, <3>2
  <2>5. ASSUME NEW w \in Worker, SettleOk(w)
        PROVE  [Map!MapNext]_Map!mapVars
    <3>1. PICK i \in Item : i = held[w]
      BY <1>2, <2>t, <2>a, <2>5, RunParallelAssumption, FlowErrorsAssumption
      DEF SettleOk, TypeOK, IInv, ClaimsValid, ExclusiveClaim, Working
    <3>2. InFlight' = InFlight \ {i} /\ i \in InFlight
      BY <1>2, <2>t, <2>5, <3>1
      DEF SettleOk, InFlight, Busy, TypeOK, IInv, ClaimsValid, ExclusiveClaim,
          Working
    <3>3. Map!Succeed(i)
      BY <2>5, <2>i, <3>1, <3>2 DEF SettleOk, Map!Succeed, Sequential
    <3> QED
      BY <3>3 DEF Map!MapNext
  <2>6. ASSUME NEW w \in Worker, NEW e \in Error, SettleErr(w, e)
        PROVE  [Map!MapNext]_Map!mapVars
    BY <2>f, <2>6 DEF SettleErr
  <2>7. ASSUME NEW w \in Worker, Interrupt(w)
        PROVE  [Map!MapNext]_Map!mapVars
    BY <2>a, <2>f, <2>7 DEF Interrupt
  <2>8. CASE Return
    <3>1. InFlight = {} /\ InFlight' = InFlight
      BY <2>8 DEF Return, InFlight, Busy
    <3>2. CASE firstErr # None
      BY <2>8, <2>i, <3>1, <3>2
      DEF Return, Map!MapNext, Map!Finish, Sequential
    <3>3. CASE firstErr = None
      <4>1. parent \/ \A j \in Item : j < n => out[j] = j
        <5>1. CompleteUnlessCancelled'
          BY <1>2
        <5>2. status' = "ok" /\ n \in Nat
          BY <2>t, <2>8, <3>3 DEF Return, TypeOK
        <5> QED
          BY <2>a, <2>8, <5>1, <5>2 DEF CompleteUnlessCancelled, Return, Item
      <4> QED
        BY <2>8, <2>i, <3>1, <3>3, <4>1
        DEF Return, Map!MapNext, Map!Finish, Sequential
    <3> QED
      BY <3>2, <3>3
  <2>9. CASE UNCHANGED vars
    BY <2>9 DEF vars, Map!mapVars, Sequential
  <2> QED
    BY <1>2, <2>1, <2>2, <2>3, <2>4, <2>5, <2>6, <2>7, <2>8, <2>9
    DEF Next, Step, Settle, Returned
<1> QED
  BY <1>1, <1>2, Invariance, Completeness, PTL
  DEF Spec, ImplementsMap, Map!MapSpec

================================================================================
