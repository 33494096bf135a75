--------------------------- MODULE DelegationProofs ---------------------------
(***************************************************************************)
(* ForkJoin and Subflow for any number of branches, workers, hook sets,     *)
(* retries and errors: what join and reduce are told of the last attempt,   *)
(* that a settled branch makes no fork retry, and that nothing begins its   *)
(* work after a stop.  Every attempt of a fork is a call of the mapper of   *)
(* its own, so that RunParallel's invariant holds of each of them anew.     *)
(***************************************************************************)
EXTENDS Delegation, RunParallelProofs, RetryingProofs

(***************************************************************************)
(* The inductive invariant, beside RunParallel's IInv.                      *)
(***************************************************************************)

\* Where the retry loop can stand in each phase: between two attempts of a
\* fork the mapper has returned an error, before the first there is no worker.
LoopStands ==
  /\ loop.attempt <= loop.max
  /\ loop.at \in {"on_retry", "wait"} => loop.attempt < loop.max
  /\ loop.at = "on_retry" => loop.hook \in Hook
  /\ phase \in {"prep", "resolve"} => loop.at = "attempt"
  /\ phase # "post" /\ outcome = None => loop.at # "done"
  /\ phase = "exec" /\ loop.at \in {"on_retry", "wait", "fallback"}
       /\ kind = "fork_join" => status = "err"
  /\ phase \in {"prep", "resolve"} \/ kind = "subflow" =>
       \A w \in Worker : pc[w] = "exited"
  /\ flows => \A w \in Worker : visits[w].at \in {"start", "work", "done"}

\* A closure that asks the hooks holds a branch that failed and is to be
\* settled; one that still visits its branch holds one that has not failed.
ClosuresStand ==
  \A w \in Worker :
    /\ asked[w] # 0 => pc[w] = "busy" /\ held[w] \in lost /\ ~failFast
    /\ outcome = None /\ pc[w] = "busy" /\ asked[w] = 0 => held[w] \notin lost

\* A None slot stands for a branch that failed and was put to the hooks; a
\* branch that failed has its None, failed the attempt, or is being settled.
LostStands ==
  /\ nulls \subseteq lost
  /\ \A i \in nulls : out[i] = i /\ ~failFast /\ (HookCount > 0 => i \in reported)
  /\ \A i \in lost : \/ i \in nulls
                     \/ firstErr # None
                     \/ \E w \in Worker : pc[w] = "busy" /\ held[w] = i

\* A context that is kept, or still in a branch's hands, is of this attempt; one
\* that is null was made so by its branch.
WroteStands ==
  /\ kind = "subflow" => wrote[0] \subseteq {loop.attempt}
  /\ kind = "fork_join" /\ status # "err" =>
       /\ \A i \in Item : out[i] = i => wrote[i] \subseteq {loop.attempt}
       /\ \A w \in Worker : pc[w] = "busy" => wrote[held[w]] \subseteq {loop.attempt}
  /\ \A i \in blank : out[i] = i /\ wrote[i] # {}

\* Without fail_fast the mapper hears of no error but the hooks' own.
RefusedStand ==
  kind = "fork_join" /\ ~failFast =>
    /\ raised \subseteq refused \cup {Aborted}
    /\ loop.error # None => loop.error \in refused

DelegationInv ==
  /\ DelegationTypeOK
  /\ LoopStands
  /\ ClosuresStand
  /\ LostStands
  /\ WroteStands
  /\ RefusedStand

Both == IInv /\ DelegationInv

--------------------------------------------------------------------------------
\* The constants the steps need.
LEMMA DelegationConstants ==
  /\ Item \subseteq Nat /\ None \notin Item /\ Worker \subseteq Nat
  /\ 0 \in Item /\ 1 \in Worker
  /\ HookCount \in Nat /\ MaxRetries \in Nat
  /\ MaxItems \in Nat /\ MaxConcurrency \in Nat /\ MaxConcurrency >= MaxItems
  /\ Aborted \in Error /\ None \notin Error /\ None \notin Outcome
  /\ Timeout # None /\ "ok" # None /\ "ok" \notin Error
  /\ Outcome = Error \cup {"ok"}
BY RunParallelAssumption, DelegationAssumption, FlowErrorsAssumption, RetryingAssumption
DEF Item, Worker, Error, UserError, Outcome

\* The states of a visit, and what a fresh and a finished one are.
VisitState ==
  [at : {"start", "work", "on_error", "end", "done"}, error : Error \cup {None}]

LEMMA VisitEnds ==
  /\ Branch!Fresh \in VisitState /\ Branch!Fresh.at = "start"
  /\ NoVisit \in VisitState /\ NoVisit.at = "done"
BY DEF Branch!Fresh, Branch!Done, NoVisit, VisitState

\* A visit stays a visit, of a node or of a flow, and its work begins only
\* under a token that is not cancelled.
LEMMA VisitStepsStand ==
  ASSUME NEW v \in VisitState, NEW c \in BOOLEAN,
         flows => v.at \in {"start", "work", "done"},
         NEW u \in VisitSteps(v, c)
  PROVE  /\ u \in VisitState
         /\ flows => u.at \in {"start", "work", "done"}
         /\ u.at = "work" => ~c
<1>1. CASE flows
  <2>1. u \in Branch!FlowSteps(v, c)
    BY <1>1 DEF VisitSteps
  <2>2. CASE v.at = "start"
    BY <2>1, <2>2 DEF Branch!FlowSteps, Branch!Done, Branch!EntryRefused, VisitState
  <2>3. CASE v.at = "work"
    BY <2>1, <2>3 DEF Branch!FlowSteps, Branch!Done, VisitState
  <2>4. CASE v.at = "done"
    BY <2>1, <2>4 DEF Branch!FlowSteps
  <2> QED
    BY <1>1, <2>2, <2>3, <2>4
<1>2. CASE ~flows
  <2>1. u \in Branch!Steps(v, c)
    BY <1>2 DEF VisitSteps
  <2>2. CASE v.at = "start"
    BY <1>2, <2>1, <2>2 DEF Branch!Steps, Branch!Conclude, Branch!EntryRefused, VisitState
  <2>3. CASE v.at = "work"
    BY <1>2, <2>1, <2>3 DEF Branch!Steps, Branch!Conclude, VisitState
  <2>4. CASE v.at = "on_error"
    BY <1>2, <2>1, <2>4 DEF Branch!Steps, VisitState
  <2>5. CASE v.at = "end"
    BY <1>2, <2>1, <2>5 DEF Branch!Steps, Branch!Done, VisitState
  <2>6. CASE v.at = "done"
    BY <2>1, <2>6 DEF Branch!Steps
  <2> QED
    BY <2>2, <2>3, <2>4, <2>5, <2>6 DEF VisitState
<1> QED
  BY <1>1, <1>2

\* The limit is one the mapper can be called with.
LEMMA LimitBounded ==
  ASSUME NEW bound \in 0 .. MaxConcurrency, NEW k \in 0 .. MaxItems
  PROVE  Limit(bound, k) \in 0 .. MaxConcurrency
BY DelegationConstants, DelegationAssumption DEF Limit

\* What a busy worker holds is a branch, its own, that has no slot yet.
LEMMA BusyHolds ==
  ASSUME IInv, NEW w \in Worker, pc[w] = "busy"
  PROVE  /\ held[w] \in Item /\ out[held[w]] = None /\ out[held[w]] # held[w]
         /\ \A v \in Worker : v # w /\ pc[v] = "busy" => held[v] # held[w]
         /\ status = "running"
<1>1. TypeOK /\ ExclusiveClaim /\ ReturnIsFinal
  BY DEF IInv, ClaimsValid
<1>2. held[w] \in 0 .. n - 1
  BY <1>1 DEF ExclusiveClaim, Working
<1>3. held[w] \in Item
  BY <1>1, <1>2, RunParallelAssumption DEF TypeOK, Item
<1>4. status = "running"
  BY <1>1 DEF ReturnIsFinal
<1> QED
  BY <1>1, <1>2, <1>3, <1>4, DelegationConstants DEF ExclusiveClaim, Working

\* A call of the mapper that begins is in an initial state of RunParallel.
LEMMA NewMapEstablishes ==
  ASSUME TypeOK, NEW k \in 0 .. MaxItems, NEW limit \in 0 .. MaxConcurrency,
         NewMap(k, limit)
  PROVE  IInv'
<1>1. Init'
  BY DEF NewMap, Init, TypeOK
<1>2. Init' => IInv'
  BY InitEstablishesIInv, PTL
<1> QED
  BY <1>1, <1>2

\* A ForkJoin or a Subflow starts in the invariant.
LEMMA DelegationInitEstablishes == DelegationInit => Both
<1> SUFFICES ASSUME DelegationInit PROVE Both
  OBVIOUS
<1>1. IInv /\ TypeOK
  BY InitEstablishesIInv DEF DelegationInit, IInv
<1>2. PICK max \in 0 .. MaxRetries, waits \in BOOLEAN : loop = StartRetrying(max, waits)
  BY DEF DelegationInit
<1>3. /\ loop \in RetryState(0 .. MaxRetries)
      /\ loop.max = max /\ loop.at = "attempt" /\ loop.attempt = 0
  BY <1>2, StartStands
<1>4. loop.error = None
  BY <1>2 DEF StartRetrying
<1>5. \A w \in Worker : pc[w] = "exited"
  <2>1. WorkerCount = 0
    BY DEF DelegationInit, WorkerCount
  <2>2. \A w \in Worker : ~(w <= 0)
    BY RunParallelAssumption DEF Worker
  <2> QED
    BY <2>1, <2>2 DEF DelegationInit, Init
<1>6. DelegationTypeOK
  <2>1. visits \in [Worker -> VisitState]
    BY VisitEnds DEF DelegationInit
  <2>2. asked \in [Worker -> 0 .. HookCount] /\ resolved \in [by : {"this", "other"}, count : 0 .. MaxItems]
    BY DelegationConstants DEF DelegationInit, NotResolved
  <2>3. kind \in {"fork_join", "subflow"} /\ failFast \in BOOLEAN /\ flows \in BOOLEAN
    BY DEF DelegationInit
  <2> QED
    BY <1>3, <2>1, <2>2, <2>3 DEF DelegationInit, DelegationTypeOK, VisitState
<1>7. LoopStands
  <2>1. flows => \A w \in Worker : visits[w].at \in {"start", "work", "done"}
    BY VisitEnds DEF DelegationInit
  <2> QED
    BY <1>3, <1>5, <2>1 DEF DelegationInit, LoopStands
<1>8. ClosuresStand /\ LostStands
  BY <1>5 DEF DelegationInit, ClosuresStand, LostStands
<1>9. WroteStands
  BY <1>5, DelegationConstants DEF DelegationInit, WroteStands
<1>10. RefusedStand
  BY <1>4 DEF DelegationInit, Init, RefusedStand
<1> QED
  BY <1>1, <1>6, <1>7, <1>8, <1>9, <1>10 DEF Both, DelegationInv

--------------------------------------------------------------------------------
(***************************************************************************)
(* The branches of an attempt.                                              *)
(***************************************************************************)

\* A step of the mapper that touches no closure and no slot.
LEMMA QuietKeeps ==
  ASSUME Both, UNCHANGED own, UNCHANGED <<out, raised>>,
         phase \in {"prep", "resolve"} \/ kind = "subflow" => pc' = pc,
         \A w \in Worker : (pc'[w] = "busy" <=> pc[w] = "busy"),
         \A w \in Worker : pc[w] = "busy" => held'[w] = held[w],
         firstErr # None => firstErr' # None,
         status = "err" => status' = "err"
  PROVE  DelegationInv'
<1>1. UNCHANGED <<kind, failFast, flows, resolved, phase, loop, visits, asked, nulls,
                  blank, outcome, wrote, lost, reported, refused, cut>>
  BY DEF own, settings, inner, history
<1>2. DelegationTypeOK'
  BY <1>1 DEF Both, DelegationInv, DelegationTypeOK
<1>3. LoopStands'
  BY <1>1 DEF Both, DelegationInv, LoopStands
<1>4. ClosuresStand'
  BY <1>1 DEF Both, DelegationInv, ClosuresStand
<1>5. LostStands'
  BY <1>1 DEF Both, DelegationInv, LostStands
<1>6. WroteStands'
  BY <1>1 DEF Both, DelegationInv, WroteStands
<1>7. RefusedStand'
  BY <1>1 DEF Both, DelegationInv, RefusedStand
<1> QED
  BY <1>2, <1>3, <1>4, <1>5, <1>6, <1>7 DEF DelegationInv

\* The steps that are such.
LEMMA QuietStepsKeep ==
  ASSUME Both, \/ ParentCancel /\ UNCHANGED own
               \/ MapReturns
               \/ \E w \in Worker : Drive(w)
  PROVE  Both'
<1>t. TypeOK
  BY DEF Both, IInv
<1>1. CASE ParentCancel /\ UNCHANGED own
  <2>1. UNCHANGED <<out, raised, pc, held, firstErr, status>> /\ [Next]_vars
    BY <1>1 DEF ParentCancel, Next
  <2> QED
    BY <1>1, <2>1, QuietKeeps, StepKeepsIInv DEF Both
<1>2. CASE MapReturns
  <2>1. /\ UNCHANGED own /\ UNCHANGED <<out, raised, pc, held, firstErr>>
        /\ status = "running" /\ [Next]_vars
    BY <1>2 DEF MapReturns, Return, Next
  <2> QED
    BY <2>1, QuietKeeps, StepKeepsIInv DEF Both
<1>3. ASSUME NEW w \in Worker, Drive(w) PROVE Both'
  <2>1. UNCHANGED own /\ [Next]_vars /\ kind = "fork_join" /\ phase = "exec"
    BY <1>3 DEF Drive, Trying, Next, Step
  <2>2. UNCHANGED <<out, raised, status>> /\ pc[w] # "busy" /\ pc'[w] # "busy"
    BY <1>3, <1>t DEF Drive, SeqNext, LoopCheck, Claim, TypeOK
  <2>3. \A v \in Worker : v # w => pc'[v] = pc[v] /\ held'[v] = held[v]
    BY <1>3, <1>t DEF Drive, SeqNext, LoopCheck, Claim, TypeOK
  <2>4. firstErr # None => firstErr' # None
    BY <1>3, DelegationConstants DEF Drive, SeqNext, LoopCheck, Claim
  <2>5. DelegationInv'
    BY <2>1, <2>2, <2>3, <2>4, QuietKeeps
  <2> QED
    BY <2>1, <2>5, StepKeepsIInv DEF Both
<1> QED
  BY <1>1, <1>2, <1>3

\* A step of one closure, or of the visit in it: the loop stays where it is.
LEMMA ClosureStepStands ==
  ASSUME Both, Trying("fork_join"), outcome = None,
         UNCHANGED <<settings, resolved, phase, loop, outcome, cut>>,
         visits' \in [Worker -> VisitState],
         flows => \A w \in Worker : visits'[w].at \in {"start", "work", "done"},
         asked' \in [Worker -> 0 .. HookCount],
         nulls' \subseteq Item, blank' \subseteq Item,
         wrote' \in [Item -> SUBSET (0 .. MaxRetries)],
         lost' \subseteq Item, reported' \subseteq Item, refused' \subseteq Error
  PROVE  DelegationTypeOK' /\ LoopStands'
<1>1. UNCHANGED <<kind, failFast, flows, resolved, phase, loop, outcome, cut>>
  BY DEF settings
<1>2. DelegationTypeOK'
  BY <1>1 DEF Both, DelegationInv, DelegationTypeOK, VisitState
<1>3. LoopStands'
  BY <1>1 DEF Both, DelegationInv, LoopStands, Trying
<1> QED
  BY <1>2, <1>3

\* A closure that is freed leaves the visit of its worker typed.
LEMMA FreedStands ==
  ASSUME Both, NEW w \in Worker, Freed(w), flows' = flows
  PROVE  /\ visits' \in [Worker -> VisitState]
         /\ flows => \A v \in Worker : visits'[v].at \in {"start", "work", "done"}
         /\ asked' \in [Worker -> 0 .. HookCount]
         /\ asked'[w] = 0 /\ visits'[w].at = "done"
         /\ \A v \in Worker : v # w => asked'[v] = asked[v] /\ visits'[v] = visits[v]
<1>1. visits \in [Worker -> VisitState] /\ asked \in [Worker -> 0 .. HookCount]
  BY DEF Both, DelegationInv, DelegationTypeOK, VisitState
<1>2. flows => \A v \in Worker : visits[v].at \in {"start", "work", "done"}
  BY DEF Both, DelegationInv, LoopStands
<1>3. 0 \in 0 .. HookCount
  BY DelegationConstants
<1>4. visits' = [visits EXCEPT ![w] = NoVisit] /\ asked' = [asked EXCEPT ![w] = 0]
  BY DEF Freed
<1> QED
  BY <1>1, <1>2, <1>3, <1>4, VisitEnds

\* A closure returns a value: its branch did not fail, or is settled as None.
LEMMA SlotKeeps ==
  ASSUME Both, Trying("fork_join"), outcome = None, NEW w \in Worker,
         SettleOk(w), Freed(w),
         UNCHANGED <<settings, resolved, phase, loop, outcome, wrote, refused, cut>>,
         blank' = blank \/ (wrote[held[w]] # {} /\ blank' = blank \cup {held[w]}),
         reported \subseteq reported', reported' \subseteq Item,
         \/ nulls' = nulls /\ lost' = lost /\ held[w] \notin lost
         \/ /\ nulls' = nulls \cup {held[w]} /\ lost' = lost \cup {held[w]}
            /\ ~failFast /\ (HookCount > 0 => held[w] \in reported')
  PROVE  DelegationInv'
<1>1. UNCHANGED <<kind, failFast, flows, resolved, phase, loop, outcome, cut>>
  BY DEF settings
<1>t. TypeOK /\ DelegationTypeOK
  BY DEF Both, IInv, DelegationInv
<1>2. pc[w] = "busy" /\ out' = [out EXCEPT ![held[w]] = held[w]]
      /\ pc' = [pc EXCEPT ![w] = "loop"] /\ UNCHANGED <<firstErr, held, status, raised>>
  BY DEF SettleOk
<1>3. /\ held[w] \in Item /\ out[held[w]] # held[w] /\ status = "running"
      /\ \A v \in Worker : v # w /\ pc[v] = "busy" => held[v] # held[w]
  BY <1>2, BusyHolds DEF Both
<1>4. /\ out'[held[w]] = held[w] /\ \A i \in Item : i # held[w] => out'[i] = out[i]
      /\ pc'[w] # "busy" /\ \A v \in Worker : v # w => pc'[v] = pc[v]
  BY <1>t, <1>2, <1>3 DEF TypeOK
<1>5. asked'[w] = 0 /\ \A v \in Worker : v # w => asked'[v] = asked[v]
  BY <1>1, FreedStands
<1>6. nulls' \subseteq Item /\ lost' \subseteq Item /\ blank' \subseteq Item
  BY <1>t, <1>3 DEF DelegationTypeOK
<1>7. DelegationTypeOK' /\ LoopStands'
  <2>1. wrote' \in [Item -> SUBSET (0 .. MaxRetries)] /\ refused' \subseteq Error
    BY <1>t DEF DelegationTypeOK
  <2> QED
    BY <1>1, <1>6, <2>1, FreedStands, ClosureStepStands
<1>8. ClosuresStand'
  BY <1>1, <1>2, <1>3, <1>4, <1>5 DEF Both, DelegationInv, ClosuresStand
<1>9. LostStands'
  <2>1. nulls' \subseteq lost'
    BY DEF Both, DelegationInv, LostStands
  <2>2. \A i \in nulls' : out'[i] = i /\ ~failFast /\ (HookCount > 0 => i \in reported')
    BY <1>4, <1>6 DEF Both, DelegationInv, LostStands
  <2>3. \A i \in lost' : \/ i \in nulls'
                         \/ firstErr # None
                         \/ \E v \in Worker : pc'[v] = "busy" /\ held[v] = i
    BY <1>4 DEF Both, DelegationInv, LostStands
  <2> QED
    BY <1>1, <1>2, <2>1, <2>2, <2>3 DEF LostStands
<1>10. WroteStands'
  <2>1. wrote[held[w]] \subseteq {loop.attempt} /\ kind = "fork_join"
    BY <1>2, <1>3 DEF Both, DelegationInv, WroteStands, Trying
  <2>2. \A i \in blank' : out'[i] = i /\ wrote[i] # {}
    BY <1>4, <1>6 DEF Both, DelegationInv, WroteStands
  <2> QED
    BY <1>1, <1>2, <1>4, <2>1, <2>2 DEF Both, DelegationInv, WroteStands
<1>11. RefusedStand'
  BY <1>1, <1>2 DEF Both, DelegationInv, RefusedStand
<1> QED
  BY <1>7, <1>8, <1>9, <1>10, <1>11 DEF DelegationInv

\* A closure ends with an error, its own or Aborted: the attempt has failed.
LEMMA ErrorKeeps ==
  ASSUME Both, Trying("fork_join"), outcome = None, NEW w \in Worker, NEW e \in Error,
         pc[w] = "busy", Fail(w, e), Freed(w),
         UNCHANGED <<settings, resolved, phase, loop, outcome, nulls, blank, wrote>>,
         UNCHANGED <<out, held, status>>, cut' \in BOOLEAN,
         lost \subseteq lost', lost' \subseteq lost \cup {held[w]},
         reported \subseteq reported', reported' \subseteq Item,
         refused \subseteq refused', refused' \subseteq Error,
         ~failFast => raised' \subseteq refused' \cup {Aborted}
  PROVE  DelegationInv'
<1>1. UNCHANGED <<kind, failFast, flows, resolved, phase, loop, outcome>>
  BY DEF settings
<1>t. TypeOK /\ DelegationTypeOK
  BY DEF Both, IInv, DelegationInv
<1>3. /\ held[w] \in Item /\ status = "running"
      /\ \A v \in Worker : v # w /\ pc[v] = "busy" => held[v] # held[w]
  BY BusyHolds DEF Both
<1>4. pc'[w] # "busy" /\ \A v \in Worker : v # w => pc'[v] = pc[v]
  BY <1>t DEF TypeOK, Fail
<1>5. asked'[w] = 0 /\ \A v \in Worker : v # w => asked'[v] = asked[v]
  BY <1>1, FreedStands
<1>6. firstErr' # None
  BY DelegationConstants DEF Fail, FirstError
<1>7. DelegationTypeOK' /\ LoopStands'
  <2>1. visits' \in [Worker -> VisitState] /\ asked' \in [Worker -> 0 .. HookCount]
    BY <1>1, FreedStands
  <2>2. flows => \A v \in Worker : visits'[v].at \in {"start", "work", "done"}
    BY <1>1, FreedStands
  <2>3. DelegationTypeOK'
    BY <1>t, <1>1, <1>3, <2>1 DEF DelegationTypeOK, VisitState
  <2>4. LoopStands'
    BY <1>1, <2>2 DEF Both, DelegationInv, LoopStands, Trying
  <2> QED
    BY <2>3, <2>4
<1>8. ClosuresStand'
  BY <1>1, <1>3, <1>4, <1>5 DEF Both, DelegationInv, ClosuresStand
<1>9. LostStands'
  BY <1>1, <1>6 DEF Both, DelegationInv, LostStands
<1>10. WroteStands'
  BY <1>1, <1>4 DEF Both, DelegationInv, WroteStands
<1>11. RefusedStand'
  BY <1>1 DEF Both, DelegationInv, RefusedStand
<1> QED
  BY <1>7, <1>8, <1>9, <1>10, <1>11 DEF DelegationInv

\* A closure waits for the answer of a hook about a branch that has failed.
LEMMA AskKeeps ==
  ASSUME Both, Trying("fork_join"), outcome = None, NEW w \in Worker, pc[w] = "busy",
         ~failFast, NEW h \in 1 .. HookCount,
         asked' = [asked EXCEPT ![w] = h], visits' = [visits EXCEPT ![w] = NoVisit],
         UNCHANGED <<vars, settings, resolved, phase, loop, nulls, blank, outcome>>,
         UNCHANGED <<wrote, refused, cut>>, lost' = lost \cup {held[w]},
         reported \subseteq reported', reported' \subseteq Item
  PROVE  DelegationInv'
<1>1. UNCHANGED <<kind, failFast, flows, resolved, phase, loop, outcome>>
  BY DEF settings
<1>2. UNCHANGED <<out, firstErr, pc, held, status, raised>>
  BY DEF vars
<1>t. DelegationTypeOK
  BY DEF Both, DelegationInv
<1>3. /\ held[w] \in Item
      /\ \A v \in Worker : v # w /\ pc[v] = "busy" => held[v] # held[w]
  BY BusyHolds DEF Both
<1>4. h # 0 /\ h \in 0 .. HookCount
  BY DelegationConstants
<1>5. /\ asked' \in [Worker -> 0 .. HookCount]
      /\ asked'[w] = h /\ \A v \in Worker : v # w => asked'[v] = asked[v]
  BY <1>t, <1>4 DEF DelegationTypeOK
<1>6. DelegationTypeOK' /\ LoopStands'
  <2>1. visits' \in [Worker -> VisitState]
    BY <1>t, VisitEnds DEF DelegationTypeOK, VisitState
  <2>2. flows => \A v \in Worker : visits[v].at \in {"start", "work", "done"}
    BY DEF Both, DelegationInv, LoopStands
  <2>3. flows => \A v \in Worker : visits'[v].at \in {"start", "work", "done"}
    BY <1>t, <2>2, VisitEnds DEF DelegationTypeOK, VisitState
  <2>4. /\ nulls' \subseteq Item /\ blank' \subseteq Item /\ lost' \subseteq Item
        /\ wrote' \in [Item -> SUBSET (0 .. MaxRetries)] /\ refused' \subseteq Error
    BY <1>t, <1>3 DEF DelegationTypeOK
  <2> QED
    BY <1>5, <2>1, <2>3, <2>4, ClosureStepStands
<1>7. ClosuresStand'
  BY <1>1, <1>2, <1>3, <1>4, <1>5 DEF Both, DelegationInv, ClosuresStand
<1>8. LostStands'
  BY <1>1, <1>2 DEF Both, DelegationInv, LostStands
<1>9. WroteStands'
  BY <1>1, <1>2 DEF Both, DelegationInv, WroteStands
<1>10. RefusedStand'
  BY <1>1, <1>2 DEF Both, DelegationInv, RefusedStand
<1> QED
  BY <1>6, <1>7, <1>8, <1>9, <1>10 DEF DelegationInv

\* A branch begins: its context is a copy of its own, and no branch with its
\* index has failed in this attempt.
LEMMA EnterKeeps ==
  ASSUME Both, outcome = None, NEW w \in Worker, EnterBranch(w)
  PROVE  Both'
<1>1. UNCHANGED <<kind, failFast, flows, resolved, phase, loop, asked, nulls, blank,
                  outcome, lost, reported, refused, cut>>
  BY DEF EnterBranch, settings
<1>2. [Next]_vars /\ RaceEnter(w) /\ Trying("fork_join")
  BY DEF EnterBranch, Next, Step
<1>t. TypeOK /\ DelegationTypeOK
  BY DEF Both, IInv, DelegationInv
<1>3. pc[w] = "enter" /\ UNCHANGED <<out, held, status, raised>>
  BY <1>2 DEF RaceEnter
<1>4. /\ held[w] \in Item /\ out[held[w]] # held[w]
      /\ \A v \in Worker : pc[v] = "busy" => held[v] # held[w]
  <2>1. held[w] \in 0 .. n - 1 /\ out[held[w]] = None
    BY <1>3 DEF Both, IInv, ClaimsValid, ExclusiveClaim, Working
  <2>2. held[w] \in Item
    BY <1>t, <2>1, RunParallelAssumption DEF TypeOK, Item
  <2>3. \A v \in Worker : pc[v] = "busy" => held[v] # held[w]
    BY <1>3 DEF Both, IInv, ClaimsValid, ExclusiveClaim, Working
  <2> QED
    BY <2>1, <2>2, <2>3, DelegationConstants
<1>5. \A v \in Worker : v # w => pc'[v] = pc[v]
  BY <1>t, <1>2 DEF RaceEnter, Fail, TypeOK
<1>6. asked[w] = 0
  BY <1>3 DEF Both, DelegationInv, ClosuresStand
<1>7. CASE Cancelled
  <2>1. UNCHANGED <<visits, wrote>>
    BY <1>7 DEF EnterBranch
  <2>2. UNCHANGED own
    BY <1>1, <2>1 DEF own, settings, inner, history
  <2>3. pc'[w] = "exited" /\ firstErr' # None
    BY <1>7, <1>t, <1>2, DelegationConstants DEF RaceEnter, Fail, FirstError, TypeOK
  <2>4. \A v \in Worker : pc'[v] = "busy" <=> pc[v] = "busy"
    BY <1>3, <1>5, <2>3
  <2>5. ~(phase \in {"prep", "resolve"} \/ kind = "subflow")
    BY <1>2 DEF Trying
  <2>6. DelegationInv'
    BY <1>3, <2>2, <2>3, <2>4, <2>5, QuietKeeps
  <2> QED
    BY <1>2, <2>6, StepKeepsIInv DEF Both
<1>8. CASE ~Cancelled
  <2>1. /\ visits' = [visits EXCEPT ![w] = Branch!Fresh]
        /\ wrote' = [wrote EXCEPT ![held[w]] = {}]
    BY <1>8 DEF EnterBranch, FreshContext
  <2>2. pc'[w] = "busy" /\ UNCHANGED firstErr
    BY <1>8, <1>t, <1>2 DEF RaceEnter, TypeOK
  <2>3. firstErr = None
    BY <1>8, <1>3 DEF Both, IInv, ErrorStops, Cancelled
  <2>4. held[w] \notin lost
    BY <1>3, <1>4, <2>3 DEF Both, DelegationInv, LostStands
  <2>5. DelegationTypeOK' /\ LoopStands'
    <3>1. visits' \in [Worker -> VisitState]
      BY <1>t, <2>1, VisitEnds DEF DelegationTypeOK, VisitState
    <3>2. flows => \A v \in Worker : visits[v].at \in {"start", "work", "done"}
      BY DEF Both, DelegationInv, LoopStands
    <3>3. flows => \A v \in Worker : visits'[v].at \in {"start", "work", "done"}
      BY <1>t, <2>1, <3>2, VisitEnds DEF DelegationTypeOK, VisitState
    <3>4. wrote' \in [Item -> SUBSET (0 .. MaxRetries)]
      BY <1>t, <2>1 DEF DelegationTypeOK
    <3>5. /\ asked' \in [Worker -> 0 .. HookCount]
          /\ nulls' \subseteq Item /\ blank' \subseteq Item
          /\ lost' \subseteq Item /\ reported' \subseteq Item /\ refused' \subseteq Error
      BY <1>t, <1>1 DEF DelegationTypeOK
    <3> QED
      BY <1>1, <1>2, <3>1, <3>3, <3>4, <3>5, ClosureStepStands DEF settings
  <2>6. ClosuresStand'
    BY <1>1, <1>3, <1>5, <1>6, <2>2, <2>4 DEF Both, DelegationInv, ClosuresStand
  <2>7. LostStands'
    BY <1>1, <1>3, <1>5, <2>2 DEF Both, DelegationInv, LostStands
  <2>8. WroteStands'
    <3>1. \A i \in Item : wrote'[i] = {} \/ (i # held[w] /\ wrote'[i] = wrote[i])
      BY <1>t, <2>1 DEF DelegationTypeOK
    <3>2. kind = "fork_join"
      BY <1>2 DEF Trying
    <3>3. status # "err" => \A i \in Item : out[i] = i => wrote'[i] \subseteq {loop.attempt}
      BY <3>1, <3>2 DEF Both, DelegationInv, WroteStands
    <3>4. wrote'[held[w]] = {}
      BY <1>t, <1>4, <2>1 DEF DelegationTypeOK
    <3>5. \A v \in Worker : pc[v] = "busy" => wrote'[held[v]] = wrote[held[v]]
      <4>1. \A v \in Worker : pc[v] = "busy" => held[v] \in Item /\ held[v] # held[w]
        BY <1>4, BusyHolds DEF Both
      <4> QED
        BY <1>t, <2>1, <4>1 DEF DelegationTypeOK
    <3>6. status # "err" => \A v \in Worker : pc'[v] = "busy" => wrote'[held[v]] \subseteq {loop.attempt}
      BY <1>5, <3>2, <3>4, <3>5 DEF Both, DelegationInv, WroteStands
    <3>7. \A i \in blank : out[i] = i /\ wrote'[i] # {}
      <4>1. blank \subseteq Item /\ \A i \in blank : out[i] = i /\ wrote[i] # {}
        BY <1>t DEF Both, DelegationInv, DelegationTypeOK, WroteStands
      <4> QED
        BY <1>t, <1>4, <2>1, <4>1 DEF DelegationTypeOK
    <3> QED
      BY <1>1, <1>3, <3>2, <3>3, <3>6, <3>7 DEF WroteStands
  <2>9. RefusedStand'
    BY <1>1, <1>3 DEF Both, DelegationInv, RefusedStand
  <2>10. IInv'
    BY <1>2, StepKeepsIInv DEF Both
  <2> QED
    BY <2>5, <2>6, <2>7, <2>8, <2>9, <2>10 DEF Both, DelegationInv
<1> QED
  BY <1>7, <1>8

\* The visit of a branch goes on, and does not end.
LEMMA BranchGoesOn ==
  ASSUME Both, Trying("fork_join"), outcome = None, NEW w \in Worker, pc[w] = "busy",
         asked[w] = 0, NEW u \in VisitSteps(visits[w], Cancelled), u.at # "done",
         visits' = [visits EXCEPT ![w] = u], Writes(u, held[w]),
         UNCHANGED <<vars, settings, resolved, phase, loop, asked, nulls, blank>>,
         UNCHANGED <<outcome, lost, reported, refused, cut>>
  PROVE  DelegationInv'
<1>1. UNCHANGED <<kind, failFast, flows, resolved, phase, loop, outcome>>
  BY DEF settings
<1>2. UNCHANGED <<out, firstErr, pc, held, status, raised>>
  BY DEF vars
<1>t. TypeOK /\ DelegationTypeOK
  BY DEF Both, IInv, DelegationInv
<1>3. held[w] \in Item /\ kind = "fork_join"
  BY BusyHolds DEF Both, Trying
<1>4. flows => \A v \in Worker : visits[v].at \in {"start", "work", "done"}
  BY DEF Both, DelegationInv, LoopStands
<1>5. u \in VisitState /\ (flows => u.at \in {"start", "work", "done"})
  <2>1. visits[w] \in VisitState /\ Cancelled \in BOOLEAN
    BY <1>t DEF DelegationTypeOK, VisitState, TypeOK, Cancelled
  <2> QED
    BY <1>4, <2>1, VisitStepsStand
<1>6. loop.attempt \in 0 .. MaxRetries
  <2>1. loop.attempt \in Nat /\ loop.max \in 0 .. MaxRetries /\ loop.attempt <= loop.max
    BY <1>t DEF DelegationTypeOK, RetryState, Both, DelegationInv, LoopStands
  <2> QED
    BY <2>1, DelegationConstants
<1>7. /\ wrote' \in [Item -> SUBSET (0 .. MaxRetries)]
      /\ \A i \in Item : /\ wrote'[i] \subseteq wrote[i] \cup {loop.attempt}
                        /\ wrote[i] \subseteq wrote'[i]
  BY <1>t, <1>3, <1>6 DEF Writes, DelegationTypeOK
<1>8. DelegationTypeOK' /\ LoopStands'
  <2>1. visits' \in [Worker -> VisitState]
    BY <1>t, <1>5 DEF DelegationTypeOK, VisitState
  <2>2. flows => \A v \in Worker : visits'[v].at \in {"start", "work", "done"}
    BY <1>t, <1>4, <1>5 DEF DelegationTypeOK
  <2>3. /\ asked' \in [Worker -> 0 .. HookCount]
        /\ nulls' \subseteq Item /\ blank' \subseteq Item
        /\ lost' \subseteq Item /\ reported' \subseteq Item /\ refused' \subseteq Error
    BY <1>t DEF DelegationTypeOK
  <2> QED
    BY <1>1, <1>7, <2>1, <2>2, <2>3, ClosureStepStands
<1>9. ClosuresStand'
  BY <1>1, <1>2 DEF Both, DelegationInv, ClosuresStand
<1>10. LostStands'
  BY <1>1, <1>2 DEF Both, DelegationInv, LostStands
<1>11. WroteStands'
  <2>1. status # "err" => \A i \in Item : out[i] = i => wrote'[i] \subseteq {loop.attempt}
    BY <1>3, <1>7 DEF Both, DelegationInv, WroteStands
  <2>2. \A v \in Worker : pc[v] = "busy" => held[v] \in Item
    BY BusyHolds DEF Both
  <2>3. status # "err" => \A v \in Worker : pc[v] = "busy" => wrote'[held[v]] \subseteq {loop.attempt}
    BY <1>3, <1>7, <2>2 DEF Both, DelegationInv, WroteStands
  <2>4. \A i \in blank : out[i] = i /\ wrote'[i] # {}
    BY <1>t, <1>7 DEF Both, DelegationInv, DelegationTypeOK, WroteStands
  <2> QED
    BY <1>1, <1>2, <1>3, <2>1, <2>3, <2>4 DEF WroteStands
<1>12. RefusedStand'
  BY <1>1, <1>2 DEF Both, DelegationInv, RefusedStand
<1> QED
  BY <1>8, <1>9, <1>10, <1>11, <1>12 DEF DelegationInv

\* The hooks of a branch: the mapper takes no step, or one of its own.
LEMMA AskIsMapperStep ==
  ASSUME NEW w \in Worker, NEW h, AskOnError(w, h)
  PROVE  [Next]_vars
BY DEF AskOnError, NullSlot, Next, Settle

\* The visit of a branch takes a step.
LEMMA BranchVisitKeeps ==
  ASSUME Both, outcome = None, NEW w \in Worker, BranchVisit(w)
  PROVE  Both'
<1>1. /\ Trying("fork_join") /\ pc[w] = "busy" /\ asked[w] = 0
      /\ UNCHANGED <<settings, resolved, phase, loop, outcome, reported, refused, cut>>
      /\ failFast' = failFast
  BY DEF BranchVisit, settings
<1>t. TypeOK /\ DelegationTypeOK
  BY DEF Both, IInv, DelegationInv
<1>2. held[w] \in Item /\ held[w] \notin lost
  BY <1>1, BusyHolds DEF Both, DelegationInv, ClosuresStand
<1>3. PICK u \in VisitSteps(visits[w], Cancelled) :
        /\ Writes(u, held[w])
        /\ lost' = IF u.at = "done" /\ u.error \notin {None, Aborted}
                   THEN lost \cup {held[w]} ELSE lost
        /\ \/ /\ u.at # "done"
              /\ visits' = [visits EXCEPT ![w] = u]
              /\ UNCHANGED <<vars, asked, nulls, blank>>
           \/ /\ u.at = "done"
              /\ \/ u.error = None /\ BranchSucceeds(w)
                 \/ u.error # None /\ Propagated(u.error) /\ BranchFails(w, u.error)
                 \/ u.error # None /\ ~Propagated(u.error) /\ AskOnError(w, 1)
  BY DEF BranchVisit
<1>4. u \in VisitState
  <2>1. visits[w] \in VisitState /\ Cancelled \in BOOLEAN
    BY <1>t DEF DelegationTypeOK, VisitState, TypeOK, Cancelled
  <2>2. flows => visits[w].at \in {"start", "work", "done"}
    BY DEF Both, DelegationInv, LoopStands
  <2> QED
    BY <2>1, <2>2, VisitStepsStand
<1>5. u.error \in Error \cup {None}
  BY <1>4 DEF VisitState
<1>6. CASE u.at # "done"
  <2>1. /\ Writes(u, held[w]) /\ visits' = [visits EXCEPT ![w] = u]
        /\ UNCHANGED <<vars, asked, nulls, blank>> /\ lost' = lost
    BY <1>3, <1>6
  <2>2. UNCHANGED <<vars, settings, resolved, phase, loop, asked, nulls, blank>>
        /\ UNCHANGED <<outcome, lost, reported, refused, cut>>
    BY <1>1, <2>1
  <2>3. DelegationInv'
    BY <1>1, <1>6, <2>1, <2>2, BranchGoesOn
  <2>4. IInv'
    BY <2>1, StepKeepsIInv DEF Both
  <2> QED
    BY <2>3, <2>4 DEF Both
<1>d. u.at = "done" => wrote' = wrote
  BY <1>3 DEF Writes
<1>r. reported \subseteq reported' /\ reported' \subseteq Item /\ refused' \subseteq Error
      /\ refused \subseteq refused'
  BY <1>t, <1>1 DEF DelegationTypeOK
<1>7. CASE u.at = "done" /\ u.error = None
  <2>1. BranchSucceeds(w) /\ lost' = lost
    BY <1>3, <1>7, <1>5
  <2>2. /\ SettleOk(w) /\ Freed(w) /\ nulls' = nulls
        /\ blank' = blank \/ (wrote[held[w]] # {} /\ blank' = blank \cup {held[w]})
    BY <2>1 DEF BranchSucceeds
  <2>3. UNCHANGED <<settings, resolved, phase, loop, outcome, wrote, refused, cut>>
    BY <1>1, <1>d, <1>7
  <2>4. DelegationInv'
    BY <1>1, <1>2, <1>r, <2>1, <2>2, <2>3, SlotKeeps
  <2>5. [Next]_vars
    BY <2>2 DEF Next, Settle
  <2> QED
    BY <2>4, <2>5, StepKeepsIInv DEF Both
<1>8. CASE u.at = "done" /\ u.error # None /\ Propagated(u.error)
  <2> DEFINE e == u.error
  <2>0. e \in Error
    BY <1>5, <1>8
  <2>1. BranchFails(w, e)
    BY <1>3, <1>8
  <2> HIDE DEF e
  <2>2. SettleErr(w, e) /\ Fail(w, e) /\ Freed(w) /\ raised' = raised \cup {e}
        /\ UNCHANGED <<nulls, blank>> /\ UNCHANGED <<out, held, status>>
    BY <2>1 DEF BranchFails, SettleErr
  <2>3. UNCHANGED <<settings, resolved, phase, loop, outcome, nulls, blank, wrote>>
    BY <1>1, <1>d, <1>8, <2>2
  <2>4. ~failFast => e = Aborted
    BY <1>8 DEF Propagated, e
  <2>5. ~failFast => raised' \subseteq refused' \cup {Aborted}
    BY <1>1, <2>2, <2>4 DEF Both, DelegationInv, RefusedStand, Trying
  <2>6. lost \subseteq lost' /\ lost' \subseteq lost \cup {held[w]}
    BY <1>3
  <2>7. cut' \in BOOLEAN
    BY <1>t, <1>1 DEF DelegationTypeOK
  <2>8. DelegationInv'
    BY <1>1, <1>r, <2>0, <2>2, <2>3, <2>5, <2>6, <2>7, ErrorKeeps
  <2>9. [Next]_vars
    BY <2>0, <2>2 DEF Next, Settle
  <2> QED
    BY <2>8, <2>9, StepKeepsIInv DEF Both
<1>9. CASE u.at = "done" /\ u.error # None /\ ~Propagated(u.error)
  <2>1. AskOnError(w, 1) /\ lost' = lost \cup {held[w]} /\ ~failFast
    BY <1>3, <1>9 DEF Propagated
  <2>2. [Next]_vars
    BY <2>1, AskIsMapperStep
  <2>3. CASE 1 <= HookCount /\ asked' = [asked EXCEPT ![w] = 1]
             /\ visits' = [visits EXCEPT ![w] = NoVisit] /\ UNCHANGED <<vars, nulls, blank>>
    <3>1. 1 \in 1 .. HookCount
      BY <2>3, DelegationConstants
    <3>2. UNCHANGED <<vars, settings, resolved, phase, loop, nulls, blank, outcome>>
          /\ UNCHANGED <<wrote, refused, cut>>
      BY <1>1, <1>d, <1>9, <2>3
    <3>3. DelegationInv'
      BY <1>1, <1>r, <2>1, <2>3, <3>1, <3>2, AskKeeps
    <3> QED
      BY <2>2, <3>3, StepKeepsIInv DEF Both
  <2>4. CASE 1 > HookCount /\ NullSlot(w)
    <3>1. SettleOk(w) /\ Freed(w) /\ nulls' = nulls \cup {held[w]} /\ blank' = blank
      BY <2>4 DEF NullSlot
    <3>2. UNCHANGED <<settings, resolved, phase, loop, outcome, wrote, refused, cut>>
      BY <1>1, <1>d, <1>9
    <3>3. ~(HookCount > 0)
      BY <2>4, DelegationConstants
    <3>4. DelegationInv'
      BY <1>1, <1>r, <2>1, <3>1, <3>2, <3>3, SlotKeeps
    <3> QED
      BY <2>2, <3>4, StepKeepsIInv DEF Both
  <2> QED
    BY <2>1, <2>3, <2>4 DEF AskOnError
<1> QED
  BY <1>6, <1>7, <1>8, <1>9

\* The on_error hook of the fork answers.
LEMMA ForkHookKeeps ==
  ASSUME Both, outcome = None, NEW w \in Worker, ForkHook(w)
  PROVE  Both'
<1>1. /\ Trying("fork_join") /\ pc[w] = "busy" /\ asked[w] # 0
      /\ UNCHANGED <<settings, resolved, phase, loop, outcome, wrote, lost, cut>>
      /\ failFast' = failFast /\ reported' = reported \cup {held[w]}
  BY DEF ForkHook, settings
<1>t. TypeOK /\ DelegationTypeOK
  BY DEF Both, IInv, DelegationInv
<1>2. held[w] \in Item /\ held[w] \in lost /\ ~failFast
  BY <1>1, BusyHolds DEF Both, DelegationInv, ClosuresStand
<1>3. lost' = lost \cup {held[w]} /\ lost' = lost
  BY <1>1, <1>2
<1>r. reported \subseteq reported' /\ reported' \subseteq Item /\ held[w] \in reported'
  BY <1>t, <1>1, <1>2 DEF DelegationTypeOK
<1>s. ASSUME NullSlot(w), UNCHANGED refused PROVE Both'
  <2>1. SettleOk(w) /\ Freed(w) /\ nulls' = nulls \cup {held[w]} /\ blank' = blank
    BY <1>s DEF NullSlot
  <2>2. UNCHANGED <<settings, resolved, phase, loop, outcome, wrote, refused, cut>>
    BY <1>1, <1>s
  <2>4. DelegationInv'
    BY <1>1, <1>2, <1>3, <1>r, <2>1, <2>2, SlotKeeps
  <2>5. [Next]_vars
    BY <2>1 DEF Next, Settle
  <2> QED
    BY <2>4, <2>5, StepKeepsIInv DEF Both
<1>4. CASE AskOnError(w, asked[w] + 1) /\ UNCHANGED refused
  <2> DEFINE h == asked[w] + 1
  <2>1. AskOnError(w, h) /\ asked[w] \in Nat
    BY <1>t, <1>4, DelegationConstants DEF DelegationTypeOK
  <2>2. h \in Nat \ {0}
    BY <2>1
  <2> HIDE DEF h
  <2>3. CASE h <= HookCount /\ asked' = [asked EXCEPT ![w] = h]
             /\ visits' = [visits EXCEPT ![w] = NoVisit] /\ UNCHANGED <<vars, nulls, blank>>
    <3>1. h \in 1 .. HookCount
      BY <2>2, <2>3, DelegationConstants
    <3>2. UNCHANGED <<vars, settings, resolved, phase, loop, nulls, blank, outcome>>
          /\ UNCHANGED <<wrote, refused, cut>>
      BY <1>1, <1>4, <2>3
    <3>3. DelegationInv'
      BY <1>1, <1>2, <1>3, <1>r, <2>3, <3>1, <3>2, AskKeeps
    <3>4. [Next]_vars
      BY <2>3
    <3> QED
      BY <3>3, <3>4, StepKeepsIInv DEF Both
  <2>4. CASE NullSlot(w)
    BY <1>4, <1>s, <2>4
  <2> QED
    BY <2>1, <2>3, <2>4 DEF AskOnError
<1>5. CASE NullSlot(w) /\ UNCHANGED refused
  BY <1>5, <1>s
<1>6. ASSUME NEW e \in Error, BranchFails(w, e), refused' = refused \cup {e}
      PROVE  Both'
  <2>1. SettleErr(w, e) /\ Fail(w, e) /\ Freed(w) /\ raised' = raised \cup {e}
        /\ UNCHANGED <<nulls, blank>> /\ UNCHANGED <<out, held, status>>
    BY <1>6 DEF BranchFails, SettleErr
  <2>2. UNCHANGED <<settings, resolved, phase, loop, outcome, nulls, blank, wrote>>
    BY <1>1, <2>1
  <2>3. raised' \subseteq refused' \cup {Aborted}
    BY <1>1, <1>2, <1>6, <2>1 DEF Both, DelegationInv, RefusedStand, Trying
  <2>4. lost \subseteq lost' /\ lost' \subseteq lost \cup {held[w]}
        /\ refused \subseteq refused' /\ refused' \subseteq Error /\ cut' \in BOOLEAN
    BY <1>t, <1>1, <1>6 DEF DelegationTypeOK
  <2>5. DelegationInv'
    BY <1>1, <1>r, <2>1, <2>2, <2>3, <2>4, ErrorKeeps
  <2>6. [Next]_vars
    BY <2>1 DEF Next, Settle
  <2> QED
    BY <2>5, <2>6, StepKeepsIInv DEF Both
<1> QED
  BY <1>4, <1>5, <1>6 DEF ForkHook

\* The mapper drops a branch.
LEMMA DroppedKeeps ==
  ASSUME Both, outcome = None, NEW w \in Worker, Dropped(w)
  PROVE  Both'
<1>1. /\ Trying("fork_join") /\ Interrupt(w) /\ Freed(w)
      /\ UNCHANGED <<settings, resolved, phase, loop, outcome, nulls, blank, wrote>>
      /\ UNCHANGED <<lost, reported, refused>> /\ cut' = (cut \/ MidVisit({w}))
  BY DEF Dropped
<1>2. pc[w] = "busy" /\ Fail(w, Aborted) /\ UNCHANGED <<out, held, status>>
      /\ raised' = raised
  BY <1>1 DEF Interrupt
<1>3. /\ cut' \in BOOLEAN /\ reported' \subseteq Item /\ refused' \subseteq Error
  <2>1. cut \in BOOLEAN /\ reported \subseteq Item /\ refused \subseteq Error
    BY DEF Both, DelegationInv, DelegationTypeOK
  <2>2. MidVisit({w}) \in BOOLEAN
    BY DEF MidVisit
  <2> QED
    BY <1>1, <2>1, <2>2
<1>4. ~failFast => raised' \subseteq refused' \cup {Aborted}
  BY <1>1, <1>2 DEF Both, DelegationInv, RefusedStand, Trying
<1>5. DelegationInv'
  BY <1>1, <1>2, <1>3, <1>4, DelegationConstants, ErrorKeeps
<1>6. [Next]_vars
  BY <1>1 DEF Next
<1> QED
  BY <1>5, <1>6, StepKeepsIInv DEF Both

--------------------------------------------------------------------------------
(***************************************************************************)
(* The attempts.                                                            *)
(***************************************************************************)

\* An attempt that begins finds nothing of the one before it: the mapper of a
\* fork starts afresh, and so does the context of a subflow.
LEMMA AttemptKeeps ==
  ASSUME Both, NEW k \in 0 .. MaxItems, NEW limit \in 0 .. MaxConcurrency,
         Attempt(k, limit), UNCHANGED <<settings, refused, cut>>,
         \A w \in Worker : pc[w] = "exited",
         phase' = "exec", outcome' = outcome,
         resolved' \in [by : {"this", "other"}, count : 0 .. MaxItems],
         loop' \in RetryState(0 .. MaxRetries), loop'.at = "attempt",
         loop'.attempt <= loop'.max,
         kind = "fork_join" /\ ~failFast /\ loop'.error # None =>
           loop'.error \in refused
  PROVE  Both'
<1>1. UNCHANGED <<kind, failFast, flows, outcome, refused, cut>>
  BY DEF settings
<1>t. TypeOK /\ DelegationTypeOK
  BY DEF Both, IInv, DelegationInv
<1>2. nulls' = {} /\ blank' = {} /\ lost' = {} /\ reported' = {} /\ asked' = asked
  BY DEF Attempt
<1>3. \A w \in Worker : asked[w] = 0
  BY DEF Both, DelegationInv, ClosuresStand
<1>v. flows => \A w \in Worker : visits[w].at \in {"start", "work", "done"}
  BY DEF Both, DelegationInv, LoopStands
<1>4. CASE kind = "fork_join"
  <2>1. NewMap(k, limit) /\ UNCHANGED <<visits, wrote>>
    BY <1>4 DEF Attempt
  <2>2. IInv'
    BY <1>t, <2>1, NewMapEstablishes
  <2>3. /\ \A i \in Item : out'[i] = None
        /\ \A w \in Worker : pc'[w] # "busy"
        /\ raised' = {}
    BY <2>1 DEF NewMap
  <2>4. DelegationTypeOK'
    BY <1>t, <1>1, <1>2, <2>1 DEF DelegationTypeOK
  <2>5. LoopStands'
    BY <1>1, <1>4, <1>v, <2>1 DEF LoopStands
  <2>6. ClosuresStand'
    BY <1>2, <1>3, <2>3 DEF ClosuresStand
  <2>7. LostStands'
    BY <1>2 DEF LostStands
  <2>8. WroteStands'
    BY <1>1, <1>2, <1>4, <2>3, DelegationConstants DEF WroteStands
  <2>9. RefusedStand'
    BY <1>1, <2>3 DEF RefusedStand
  <2> QED
    BY <2>2, <2>4, <2>5, <2>6, <2>7, <2>8, <2>9 DEF Both, DelegationInv
<1>5. CASE kind = "subflow"
  <2>1. /\ visits' = [visits EXCEPT ![1] = Branch!Fresh]
        /\ wrote' = [wrote EXCEPT ![0] = {}]
        /\ UNCHANGED vars
    BY <1>5 DEF Attempt, FreshContext
  <2>2. IInv'
    BY <2>1, StepKeepsIInv DEF Both
  <2>3. pc' = pc /\ wrote'[0] = {} /\ wrote' \in [Item -> SUBSET (0 .. MaxRetries)]
    BY <1>t, <2>1, DelegationConstants DEF vars, DelegationTypeOK
  <2>4. visits' \in [Worker -> VisitState]
    BY <1>t, <2>1, VisitEnds, DelegationConstants DEF DelegationTypeOK, VisitState
  <2>5. DelegationTypeOK'
    BY <1>t, <1>1, <1>2, <2>3, <2>4 DEF DelegationTypeOK, VisitState
  <2>6. flows => \A w \in Worker : visits'[w].at \in {"start", "work", "done"}
    BY <1>t, <1>v, <2>1, VisitEnds, DelegationConstants DEF DelegationTypeOK, VisitState
  <2>7. LoopStands'
    BY <1>1, <1>5, <2>3, <2>6 DEF LoopStands
  <2>8. ClosuresStand' /\ LostStands'
    BY <1>2, <1>3, <2>3 DEF ClosuresStand, LostStands
  <2>9. WroteStands' /\ RefusedStand'
    BY <1>1, <1>2, <1>5, <2>3 DEF WroteStands, RefusedStand
  <2> QED
    BY <2>2, <2>5, <2>7, <2>8, <2>9 DEF Both, DelegationInv
<1> QED
  BY <1>t, <1>4, <1>5 DEF DelegationTypeOK

\* exec makes its first attempt.
LEMMA ExecKeeps ==
  ASSUME Both, outcome = None, Exec
  PROVE  Both'
<1>t. TypeOK /\ DelegationTypeOK
  BY DEF Both, IInv, DelegationInv
<1>1. PICK bound \in 0 .. MaxConcurrency :
        Attempt(resolved.count, Limit(bound, resolved.count))
  BY DEF Exec
<1>2. resolved.count \in 0 .. MaxItems
  BY <1>t DEF DelegationTypeOK
<1>3. Limit(bound, resolved.count) \in 0 .. MaxConcurrency
  BY <1>2, LimitBounded
<1>4. /\ phase = "resolve" /\ phase' = "exec" /\ resolved' = NotResolved
      /\ UNCHANGED <<settings, loop, outcome, refused, cut>>
  BY DEF Exec
<1>5. resolved' \in [by : {"this", "other"}, count : 0 .. MaxItems]
  BY <1>4, DelegationConstants DEF NotResolved
<1>6. /\ \A w \in Worker : pc[w] = "exited"
      /\ loop \in RetryState(0 .. MaxRetries) /\ loop.at = "attempt"
      /\ loop.attempt <= loop.max
  BY <1>t, <1>4 DEF Both, DelegationInv, LoopStands, DelegationTypeOK
<1>7. kind = "fork_join" /\ ~failFast /\ loop.error # None => loop.error \in refused
  BY DEF Both, DelegationInv, RefusedStand
<1> QED
  BY <1>1, <1>2, <1>3, <1>4, <1>5, <1>6, <1>7, AttemptKeeps

\* The loop leaves an attempt, or a stop between two, for another stop or for
\* good; the mapper has returned before.
LEMMA OverKeeps ==
  ASSUME Both, outcome = None, phase = "exec", AttemptOver,
         UNCHANGED <<settings, resolved, refused, cut>>,
         \A w \in Worker : pc[w] = "exited",
         loop' \in RetryState(0 .. MaxRetries), loop'.attempt <= loop'.max,
         loop'.at \in {"on_retry", "wait"} => loop'.attempt < loop'.max,
         loop'.at = "on_retry" => loop'.hook \in Hook,
         loop'.attempt = loop.attempt,
         loop'.at # "done" /\ kind = "fork_join" => status = "err",
         \/ loop'.at # "done" /\ UNCHANGED <<phase, outcome>>
         \/ phase' = "post" /\ UNCHANGED outcome
         \/ phase' = phase /\ outcome' \in Error,
         kind = "fork_join" /\ ~failFast /\ loop'.error # None =>
           loop'.error \in refused
  PROVE  Both'
<1>1. UNCHANGED <<kind, failFast, flows, resolved, refused, cut>>
  BY DEF settings
<1>2. /\ visits' = [visits EXCEPT ![1] = NoVisit]
      /\ UNCHANGED <<vars, asked, nulls, blank, wrote, lost, reported>>
  BY DEF AttemptOver
<1>t. DelegationTypeOK
  BY DEF Both, DelegationInv
<1>3. UNCHANGED <<out, firstErr, pc, held, status, raised>>
  BY <1>2 DEF vars
<1>4. IInv'
  BY <1>2, StepKeepsIInv DEF Both
<1>5. visits' \in [Worker -> VisitState]
  BY <1>t, <1>2, VisitEnds, DelegationConstants DEF DelegationTypeOK, VisitState
<1>6. flows => \A w \in Worker : visits'[w].at \in {"start", "work", "done"}
  <2>1. flows => \A w \in Worker : visits[w].at \in {"start", "work", "done"}
    BY DEF Both, DelegationInv, LoopStands
  <2> QED
    BY <1>t, <1>2, <2>1, VisitEnds, DelegationConstants DEF DelegationTypeOK, VisitState
<1>7. phase' \in {"exec", "post"} /\ outcome' \in Error \cup {None}
  OBVIOUS
<1>8. DelegationTypeOK'
  BY <1>t, <1>1, <1>2, <1>5, <1>7 DEF DelegationTypeOK, VisitState
<1>9. LoopStands'
  <2>1. phase' # "post" /\ outcome' = None => loop'.at # "done"
    BY DelegationConstants
  <2>2. phase' = "exec" /\ loop'.at \in {"on_retry", "wait", "fallback"}
          /\ kind = "fork_join" => status = "err"
    OBVIOUS
  <2> QED
    BY <1>1, <1>3, <1>6, <1>7, <2>1, <2>2 DEF LoopStands
<1>10. ClosuresStand' /\ LostStands'
  BY <1>1, <1>2, <1>3 DEF Both, DelegationInv, ClosuresStand, LostStands
<1>11. WroteStands'
  BY <1>1, <1>2, <1>3 DEF Both, DelegationInv, WroteStands
<1>12. RefusedStand'
  BY <1>1, <1>3 DEF Both, DelegationInv, RefusedStand
<1> QED
  BY <1>4, <1>8, <1>9, <1>10, <1>11, <1>12 DEF Both, DelegationInv

\* What the retry loop waits for has settled.
LEMMA LoopKeeps ==
  ASSUME Both, outcome = None, phase = "exec", NEW o \in Outcome, LoopGoesOn(o),
         kind = "fork_join" =>
           \/ status = "err"
           \/ status = "ok" /\ loop.at = "attempt" /\ o = "ok",
         kind = "fork_join" /\ ~failFast /\ loop.at = "attempt" /\ ~NeverRetried(o) =>
           o \in refused
  PROVE  Both'
<1> DEFINE r == Resume(loop, o)
<1>t. TypeOK /\ DelegationTypeOK /\ LoopStands
  BY DEF Both, IInv, DelegationInv
<1>1. loop \in RetryState(0 .. MaxRetries) /\ Suspended(loop)
  BY <1>t DEF DelegationTypeOK, LoopStands, Suspended
<1>2. /\ r \in RetryState(0 .. MaxRetries) /\ r.max = loop.max
      /\ Follows(loop, r) /\ (r.at # "done" => Suspended(r))
  BY <1>1, ResumeFollows
<1>3. /\ r.at = "done" => r.result = o
      /\ r.at # "attempt" => r.attempt = loop.attempt
      /\ r.error = loop.error \/ (loop.at = "attempt" /\ ~NeverRetried(o) /\ r.error = o)
      /\ loop.at = "attempt" /\ o = "ok" => r.at = "done"
  BY <1>1, ResumeKeeps
<1>4. /\ loop' = r
      /\ UNCHANGED <<settings, resolved, refused, cut>>
      /\ \/ /\ r.at = "attempt"
            /\ Attempt(n, concurrency)
            /\ UNCHANGED <<phase, outcome>>
         \/ /\ r.at \in {"on_retry", "wait", "fallback"}
            /\ AttemptOver
            /\ UNCHANGED <<phase, outcome>>
         \/ /\ r.at = "done"
            /\ AttemptOver
            /\ IF r.result = "ok" THEN phase' = "post" /\ UNCHANGED outcome
                                  ELSE outcome' = r.result /\ UNCHANGED phase
  BY DEF LoopGoesOn
<1> HIDE DEF r
<1>5. loop.attempt \in Nat /\ loop.max \in Nat /\ loop.attempt <= loop.max
      /\ (loop.at \in {"on_retry", "wait"} => loop.attempt < loop.max)
  BY <1>t, <1>1, DelegationConstants DEF RetryState, LoopStands
<1>6. r.at = "attempt" => r.attempt <= r.max
  BY <1>1, <1>2, <1>5 DEF Follows, Tells
<1>7. r.at \in {"on_retry", "wait"} => r.attempt < r.max
  BY <1>1, <1>2, <1>5 DEF Follows, Tells
<1>8. r.at # "attempt" => r.attempt <= r.max
  BY <1>2, <1>3, <1>5
<1>9. r.at = "on_retry" => r.hook \in Hook
  BY <1>2 DEF Suspended
<1>10. \A w \in Worker : pc[w] = "exited"
  <2>1. CASE kind = "subflow"
    BY <1>t, <2>1 DEF LoopStands
  <2>2. CASE kind = "fork_join"
    BY <2>2 DEF Both, IInv, ReturnIsFinal
  <2> QED
    BY <1>t, <2>1, <2>2 DEF DelegationTypeOK
<1>11. kind = "fork_join" /\ ~failFast /\ r.error # None => r.error \in refused
  BY <1>3 DEF Both, DelegationInv, RefusedStand
<1>12. r.at # "done" /\ kind = "fork_join" => status = "err"
  BY <1>3
<1>13. CASE r.at = "attempt"
  <2>1. n \in 0 .. MaxItems /\ concurrency \in 0 .. MaxConcurrency
    BY <1>t DEF TypeOK
  <2>2. Attempt(n, concurrency) /\ phase' = "exec" /\ outcome' = outcome
    BY <1>4, <1>13
  <2>3. UNCHANGED <<settings, refused, cut>>
    BY <1>4
  <2>4. resolved' \in [by : {"this", "other"}, count : 0 .. MaxItems]
    BY <1>t, <1>4 DEF DelegationTypeOK
  <2>5. /\ loop' \in RetryState(0 .. MaxRetries) /\ loop'.at = "attempt"
        /\ loop'.attempt <= loop'.max
    BY <1>2, <1>4, <1>6, <1>13
  <2>6. kind = "fork_join" /\ ~failFast /\ loop'.error # None => loop'.error \in refused
    BY <1>4, <1>11
  <2> QED
    BY <1>10, <2>1, <2>2, <2>3, <2>4, <2>5, <2>6, AttemptKeeps
<1>14. CASE r.at # "attempt"
  <2>1. AttemptOver
    BY <1>4, <1>14
  <2>2. \/ loop'.at # "done" /\ UNCHANGED <<phase, outcome>>
        \/ phase' = "post" /\ UNCHANGED outcome
        \/ phase' = phase /\ outcome' \in Error
    BY <1>3, <1>4, <1>14, DelegationConstants
  <2>3. /\ loop' \in RetryState(0 .. MaxRetries) /\ loop'.attempt <= loop'.max
        /\ loop'.at \in {"on_retry", "wait"} => loop'.attempt < loop'.max
        /\ loop'.at = "on_retry" => loop'.hook \in Hook
        /\ loop'.attempt = loop.attempt
    BY <1>2, <1>3, <1>4, <1>7, <1>8, <1>9, <1>14
  <2>4. loop'.at # "done" /\ kind = "fork_join" => status = "err"
    BY <1>4, <1>12
  <2>5. kind = "fork_join" /\ ~failFast /\ loop'.error # None => loop'.error \in refused
    BY <1>4, <1>11
  <2> QED
    BY <1>4, <1>10, <2>1, <2>2, <2>3, <2>4, <2>5, OverKeeps
<1> QED
  BY <1>13, <1>14

\* An attempt of a fork ends, or what lies between two attempts of either.
LEMMA LoopStepsKeep ==
  ASSUME Both, outcome = None, AttemptEnds \/ LoopUser \/ WaitOver
  PROVE  Both'
<1>t. TypeOK /\ LoopStands /\ RefusedStand
  BY DEF Both, IInv, DelegationInv
<1>1. CASE AttemptEnds
  <2> DEFINE o == IF status = "ok" THEN "ok" ELSE firstErr
  <2>1. Trying("fork_join") /\ status # "running" /\ LoopGoesOn(o)
    BY <1>1 DEF AttemptEnds
  <2>2. status # "ok" => status = "err" /\ firstErr \in Error
    BY <1>t, <2>1 DEF Both, IInv, ReturnIsFinal, TypeOK
  <2>3. o \in Outcome
    BY <2>2, DelegationConstants
  <2>4. ~failFast /\ ~NeverRetried(o) => o \in refused
    <3> SUFFICES ASSUME ~failFast, ~NeverRetried(o) PROVE o \in refused
      OBVIOUS
    <3>1. o # "ok" /\ o # Aborted
      BY DEF NeverRetried
    <3>2. o = firstErr /\ firstErr # None
      BY <2>2, <3>1, DelegationConstants
    <3>3. firstErr \in raised
      BY <3>1, <3>2 DEF Both, IInv, ErrorHasCause
    <3> QED
      BY <1>t, <2>1, <3>1, <3>2, <3>3 DEF RefusedStand, Trying
  <2>5. status = "err" \/ (status = "ok" /\ loop.at = "attempt" /\ o = "ok")
    BY <2>1, <2>2 DEF Trying
  <2>6. phase = "exec"
    BY <2>1 DEF Trying
  <2> HIDE DEF o
  <2> QED
    BY <2>1, <2>3, <2>4, <2>5, <2>6, LoopKeeps
<1>2. CASE LoopUser
  <2>1. PICK o \in Outcome : LoopGoesOn(o)
    BY <1>2 DEF LoopUser
  <2>2. phase = "exec" /\ loop.at \in {"on_retry", "fallback"}
    BY <1>2 DEF LoopUser
  <2>3. kind = "fork_join" => status = "err"
    BY <1>t, <2>2 DEF LoopStands
  <2> QED
    BY <2>1, <2>2, <2>3, LoopKeeps
<1>3. CASE WaitOver
  <2>1. phase = "exec" /\ loop.at = "wait" /\ LoopGoesOn("ok")
    BY <1>3 DEF WaitOver
  <2>2. kind = "fork_join" => status = "err"
    BY <1>t, <2>1 DEF LoopStands
  <2>3. "ok" \in Outcome
    BY DelegationConstants
  <2> QED
    BY <2>1, <2>2, <2>3, LoopKeeps
<1> QED
  BY <1>1, <1>2, <1>3

\* The visit of a Subflow's flow takes a step.
LEMMA SubflowVisitKeeps ==
  ASSUME Both, outcome = None, SubflowVisit
  PROVE  Both'
<1>t. TypeOK /\ DelegationTypeOK /\ LoopStands
  BY DEF Both, IInv, DelegationInv
<1>1. Trying("subflow")
  BY DEF SubflowVisit
<1>2. PICK u \in VisitSteps(visits[1], parent) :
        \/ /\ u.at # "done"
           /\ visits' = [visits EXCEPT ![1] = u]
           /\ Writes(u, 0)
           /\ UNCHANGED <<vars, settings, resolved, asked, nulls, blank,
                          phase, loop, outcome, lost, reported, refused, cut>>
        \/ u.at = "done" /\ LoopGoesOn(IF u.error = None THEN "ok" ELSE u.error)
  BY DEF SubflowVisit
<1>3. u \in VisitState /\ (flows => u.at \in {"start", "work", "done"})
  <2>1. visits[1] \in VisitState /\ parent \in BOOLEAN
    BY <1>t, DelegationConstants DEF DelegationTypeOK, VisitState, TypeOK
  <2>2. flows => visits[1].at \in {"start", "work", "done"}
    BY <1>t, DelegationConstants DEF LoopStands
  <2> QED
    BY <2>1, <2>2, VisitStepsStand
<1>4. CASE u.at # "done"
  <2>1. /\ visits' = [visits EXCEPT ![1] = u]
        /\ Writes(u, 0)
        /\ UNCHANGED <<vars, settings, resolved, asked, nulls, blank,
                       phase, loop, outcome, lost, reported, refused, cut>>
    BY <1>2, <1>4
  <2>2. UNCHANGED <<kind, failFast, flows, resolved, phase, loop, outcome>>
        /\ UNCHANGED <<out, firstErr, pc, held, status, raised>>
        /\ UNCHANGED <<asked, nulls, blank, lost, reported, refused, cut>>
    BY <2>1 DEF vars, settings
  <2>3. IInv'
    BY <2>1, StepKeepsIInv DEF Both
  <2>4. loop.attempt \in 0 .. MaxRetries
    <3>1. loop.attempt \in Nat /\ loop.max \in 0 .. MaxRetries /\ loop.attempt <= loop.max
      BY <1>t DEF DelegationTypeOK, RetryState, LoopStands
    <3> QED
      BY <3>1, DelegationConstants
  <2>5. /\ wrote' \in [Item -> SUBSET (0 .. MaxRetries)]
        /\ wrote'[0] \subseteq wrote[0] \cup {loop.attempt}
        /\ \A i \in Item : wrote[i] \subseteq wrote'[i]
    BY <1>t, <2>1, <2>4, DelegationConstants DEF Writes, DelegationTypeOK
  <2>6. visits' \in [Worker -> VisitState]
    BY <1>t, <1>3, <2>1 DEF DelegationTypeOK, VisitState
  <2>7. DelegationTypeOK'
    BY <1>t, <2>2, <2>5, <2>6 DEF DelegationTypeOK, VisitState
  <2>8. flows => \A w \in Worker : visits'[w].at \in {"start", "work", "done"}
    BY <1>t, <1>3, <2>1 DEF DelegationTypeOK, LoopStands
  <2>9. LoopStands'
    BY <1>t, <2>2, <2>8 DEF LoopStands
  <2>10. ClosuresStand' /\ LostStands'
    BY <2>2 DEF Both, DelegationInv, ClosuresStand, LostStands
  <2>11. WroteStands'
    <3>1. \A i \in blank : out[i] = i /\ wrote'[i] # {}
      BY <1>t, <2>5 DEF Both, DelegationInv, DelegationTypeOK, WroteStands
    <3> QED
      BY <1>1, <2>2, <2>5, <3>1 DEF Both, DelegationInv, WroteStands, Trying
  <2>12. RefusedStand'
    BY <2>2 DEF Both, DelegationInv, RefusedStand
  <2> QED
    BY <2>3, <2>7, <2>9, <2>10, <2>11, <2>12 DEF Both, DelegationInv
<1>5. CASE u.at = "done"
  <2> DEFINE o == IF u.error = None THEN "ok" ELSE u.error
  <2>1. LoopGoesOn(o)
    BY <1>2, <1>5
  <2>2. o \in Outcome
    BY <1>3, DelegationConstants DEF VisitState
  <2>3. kind # "fork_join" /\ phase = "exec"
    BY <1>1 DEF Trying
  <2> HIDE DEF o
  <2> QED
    BY <2>1, <2>2, <2>3, LoopKeeps
<1> QED
  BY <1>4, <1>5

--------------------------------------------------------------------------------
(***************************************************************************)
(* prep, post, and the race.                                                *)
(***************************************************************************)

\* prep, the prep of another run, and post: nothing of an attempt changes.
LEMMA UserStepsKeep ==
  ASSUME Both, outcome = None, PrepFork \/ PrepSubflow \/ OtherPrep \/ Post
  PROVE  Both'
<1>t. DelegationTypeOK
  BY DEF Both, DelegationInv
<1>1. UNCHANGED <<vars, settings, loop, inner, history>>
  BY DEF PrepFork, PrepSubflow, OtherPrep, Post
<1>2. UNCHANGED <<kind, failFast, flows, loop, visits, asked, nulls, blank>>
      /\ UNCHANGED <<wrote, lost, reported, refused, cut>>
      /\ UNCHANGED <<out, firstErr, pc, held, status, raised>>
  BY <1>1 DEF vars, settings, inner, history
<1>3. /\ phase' = phase \/ (phase = "prep" /\ phase' = "resolve")
      /\ outcome' \in Error \cup {"ok", None}
      /\ resolved' \in [by : {"this", "other"}, count : 0 .. MaxItems]
  <2>1. CASE PrepFork \/ PrepSubflow \/ Post
    BY <1>t, <2>1 DEF PrepFork, PrepSubflow, Post, DelegationTypeOK
  <2>2. CASE OtherPrep
    BY <2>2 DEF OtherPrep
  <2> QED
    BY <2>1, <2>2
<1>4. IInv'
  BY <1>1, StepKeepsIInv DEF Both
<1>5. DelegationTypeOK'
  BY <1>t, <1>2, <1>3 DEF DelegationTypeOK
<1>6. LoopStands'
  BY <1>2, <1>3 DEF Both, DelegationInv, LoopStands
<1>7. ClosuresStand' /\ LostStands'
  BY <1>2 DEF Both, DelegationInv, ClosuresStand, LostStands
<1>8. WroteStands' /\ RefusedStand'
  BY <1>2 DEF Both, DelegationInv, WroteStands, RefusedStand
<1> QED
  BY <1>4, <1>5, <1>6, <1>7, <1>8 DEF Both, DelegationInv

\* The race is lost: the visits and the hooks are dropped, and no step follows.
LEMMA LoseRaceKeeps ==
  ASSUME Both, outcome = None, LoseRace
  PROVE  Both'
<1>t. DelegationTypeOK
  BY DEF Both, DelegationInv
<1>1. /\ UNCHANGED <<vars, settings, resolved, phase, loop, nulls, blank>>
      /\ UNCHANGED <<wrote, lost, reported, refused>>
      /\ visits' = [w \in Worker |-> NoVisit] /\ asked' = [w \in Worker |-> 0]
      /\ outcome' \in {Timeout, Aborted}
      /\ cut' = (cut \/ MidVisit(Worker))
  BY DEF LoseRace
<1>2. UNCHANGED <<kind, failFast, flows, resolved, phase, loop, nulls, blank>>
      /\ UNCHANGED <<out, firstErr, pc, held, status, raised>>
  BY <1>1 DEF vars, settings
<1>3. IInv'
  BY <1>1, StepKeepsIInv DEF Both
<1>4. DelegationTypeOK'
  <2>1. visits' \in [Worker -> VisitState] /\ asked' \in [Worker -> 0 .. HookCount]
    BY <1>1, VisitEnds, DelegationConstants
  <2>2. cut' \in BOOLEAN
    BY <1>t, <1>1 DEF DelegationTypeOK, MidVisit
  <2>3. outcome' \in Error \cup {Timeout, "ok", None}
    BY <1>1, DelegationConstants
  <2> QED
    BY <1>t, <1>1, <1>2, <2>1, <2>2, <2>3 DEF DelegationTypeOK, VisitState
<1>5. outcome' # None
  BY <1>1, DelegationConstants
<1>6. LoopStands'
  <2>1. \A w \in Worker : visits'[w].at = "done"
    BY <1>1, VisitEnds
  <2> QED
    BY <1>2, <1>5, <2>1 DEF Both, DelegationInv, LoopStands
<1>7. ClosuresStand' /\ LostStands'
  BY <1>1, <1>2, <1>5 DEF Both, DelegationInv, ClosuresStand, LostStands
<1>8. WroteStands' /\ RefusedStand'
  BY <1>1, <1>2 DEF Both, DelegationInv, WroteStands, RefusedStand
<1> QED
  BY <1>3, <1>4, <1>6, <1>7, <1>8 DEF Both, DelegationInv

\* A step of a ForkJoin or a Subflow keeps the invariant.
LEMMA DelegationStepKeeps == Both /\ [DelegationNext]_dvars => Both'
<1> SUFFICES ASSUME Both, [DelegationNext]_dvars PROVE Both'
  OBVIOUS
<1>1. CASE UNCHANGED dvars
  <2>1. UNCHANGED own /\ UNCHANGED vars
    BY <1>1 DEF dvars
  <2>2. UNCHANGED <<out, raised, pc, held, firstErr, status>>
    BY <2>1 DEF vars
  <2> QED
    BY <2>1, <2>2, QuietKeeps, StepKeepsIInv DEF Both
<1>2. CASE outcome = None /\ (PrepFork \/ PrepSubflow \/ OtherPrep \/ Post)
  BY <1>2, UserStepsKeep
<1>3. CASE outcome = None /\ (Exec \/ LoseRace)
  BY <1>3, ExecKeeps, LoseRaceKeeps
<1>4. CASE outcome = None /\ (AttemptEnds \/ LoopUser \/ WaitOver \/ SubflowVisit)
  BY <1>4, LoopStepsKeep, SubflowVisitKeeps
<1>5. CASE (ParentCancel /\ UNCHANGED own) \/ MapReturns
  BY <1>5, QuietStepsKeep
<1>6. ASSUME NEW w \in Worker, outcome = None, Drive(w) \/ EnterBranch(w)
      PROVE  Both'
  BY <1>6, QuietStepsKeep, EnterKeeps
<1>7. ASSUME NEW w \in Worker, outcome = None, BranchVisit(w) \/ ForkHook(w) \/ Dropped(w)
      PROVE  Both'
  BY <1>7, BranchVisitKeeps, ForkHookKeeps, DroppedKeeps
<1> QED
  BY <1>1, <1>2, <1>3, <1>4, <1>5, <1>6, <1>7
  DEF DelegationNext, DelegationReturned, Engine, Mapper

--------------------------------------------------------------------------------
(***************************************************************************)
(* The theorems.                                                            *)
(***************************************************************************)

\* Every reachable state satisfies the invariant of the mapper, attempt after
\* attempt, and the invariant of the node around it.
THEOREM DelegationInvariance == DelegationSpec => []Both
BY DelegationInitEstablishes, DelegationStepKeeps, PTL DEF DelegationSpec

\* The state of a ForkJoin or a Subflow stays well formed, whatever attempts,
\* hooks and cancels it goes through.
THEOREM DelegationTyped == DelegationSpec => []DelegationTypeOK
<1>1. Both => DelegationTypeOK
  BY DEF Both, DelegationInv
<1> QED
  BY <1>1, DelegationInvariance, PTL

\* When the mapper has returned Ok no closure is left, so a branch that failed
\* has its None; a slot that is empty was not begun because of a cancel.
LEMMA BothHears == Both => JoinHearsLastAttempt
<1> SUFFICES ASSUME Both PROVE JoinHearsLastAttempt
  OBVIOUS
<1>1. kind = "subflow" => wrote[0] \subseteq {loop.attempt}
  BY DEF Both, DelegationInv, WroteStands
<1>2. ASSUME kind = "fork_join", status = "ok", NEW i \in 0 .. n - 1
      PROVE  IF ~GivenNone(i)
             THEN i \notin lost /\ wrote[i] \subseteq {loop.attempt}
             ELSE \/ i \in lost /\ ~failFast /\ (HookCount > 0 => i \in reported)
                  \/ i \in blank \ lost /\ wrote[i] = {loop.attempt}
                  \/ parent /\ out[i] = None /\ i \notin lost
  <2>1. i \in Item
    BY RunParallelAssumption DEF Both, IInv, TypeOK, Item
  <2>2. firstErr = None /\ \A w \in Worker : pc[w] = "exited"
    BY <1>2 DEF Both, IInv, ReturnIsFinal
  <2>3. /\ nulls \subseteq lost
        /\ i \in nulls => ~failFast /\ (HookCount > 0 => i \in reported)
        /\ i \in lost => i \in nulls
    BY <2>2 DEF Both, DelegationInv, LostStands
  <2>4. /\ out[i] = i => wrote[i] \subseteq {loop.attempt}
        /\ i \in blank => out[i] = i /\ wrote[i] # {}
    BY <1>2, <2>1 DEF Both, DelegationInv, WroteStands
  <2>5. out[i] = i \/ out[i] = None
    BY <2>1 DEF Both, IInv, SlotsFilled
  <2>6. out[i] = i \/ parent
    BY <1>2, IInvComplete DEF Both, CompleteUnlessCancelled
  <2>7. CASE i \in lost
    BY <2>3, <2>7 DEF GivenNone
  <2>8. CASE i \notin lost /\ i \in blank
    BY <2>4, <2>8 DEF GivenNone
  <2>9. CASE i \notin lost /\ i \notin blank
    BY <2>1, <2>3, <2>4, <2>5, <2>6, <2>9, DelegationConstants DEF GivenNone
  <2> QED
    BY <2>7, <2>8, <2>9
<1> QED
  BY <1>1, <1>2 DEF JoinHearsLastAttempt

\* join and reduce hear of the last attempt, and of all of it: a context of an
\* earlier attempt, or of a branch that failed, never reaches them, and no
\* failure is left out, for any number of branches, attempts and hooks.
THEOREM JoinTruth == DelegationSpec => []JoinHearsLastAttempt
BY BothHears, DelegationInvariance, PTL

\* A fork without fail_fast is made to retry only by an error of its own hooks.
THEOREM SettledNotRetried == DelegationSpec => []SettledForkIsNotRetried
<1>1. Both => SettledForkIsNotRetried
  BY DEF Both, DelegationInv, RefusedStand, SettledForkIsNotRetried
<1> QED
  BY <1>1, DelegationInvariance, PTL

\* A retry loop that goes on puts no visit at its work.
LEMMA LoopBeginsNoWork ==
  ASSUME Both, NEW w \in Worker, visits'[w].at = "work",
         \/ AttemptOver
         \/ \E k, limit \in Nat : Attempt(k, limit)
  PROVE  visits[w].at = "work"
<1>1. visits \in [Worker -> VisitState]
  BY DEF Both, DelegationInv, DelegationTypeOK, VisitState
<1>2. \/ visits' = visits
      \/ visits' = [visits EXCEPT ![1] = NoVisit]
      \/ visits' = [visits EXCEPT ![1] = Branch!Fresh]
  BY DEF AttemptOver, Attempt
<1> QED
  BY <1>1, <1>2, VisitEnds

\* A closure that is freed, or waits for a hook, is at no work.
LEMMA FreedBeginsNoWork ==
  ASSUME Both, NEW v \in Worker, NEW w \in Worker, visits'[w].at = "work",
         visits' = [visits EXCEPT ![v] = NoVisit]
  PROVE  visits[w].at = "work"
<1>1. visits \in [Worker -> VisitState]
  BY DEF Both, DelegationInv, DelegationTypeOK, VisitState
<1> QED
  BY <1>1, VisitEnds

\* Once the token is cancelled, or a branch has failed, no visit begins its
\* work, nor does a Subflow's flow: the token of every visit is looked at in
\* the step that would begin it.
THEOREM NoLateWork == DelegationSpec => NoWorkAfterStop
<1> DEFINE Quiet == (IF kind = "fork_join" THEN Cancelled ELSE parent) =>
              \A w \in Worker : visits'[w].at = "work" => visits[w].at = "work"
<1>1. Both /\ [DelegationNext]_dvars => [Quiet]_dvars
  <2> SUFFICES ASSUME Both, DelegationNext, NEW w \in Worker, visits'[w].at = "work",
                      IF kind = "fork_join" THEN Cancelled ELSE parent
               PROVE  visits[w].at = "work" \/ UNCHANGED dvars
    OBVIOUS
  <2>t. /\ visits \in [Worker -> VisitState] /\ n \in Nat /\ concurrency \in Nat
        /\ Cancelled \in BOOLEAN /\ parent \in BOOLEAN
        /\ resolved.count \in 0 .. MaxItems
        /\ flows => \A v \in Worker : visits[v].at \in {"start", "work", "done"}
    BY DelegationConstants
    DEF Both, IInv, TypeOK, Cancelled, DelegationInv, DelegationTypeOK, VisitState, LoopStands
  <2>0. visits' = visits => visits[w].at = "work"
    OBVIOUS
  <2>1. CASE DelegationReturned
    BY <2>1 DEF DelegationReturned
  <2>2. CASE (ParentCancel /\ UNCHANGED own) \/ MapReturns \/ \E v \in Worker : Drive(v)
    BY <2>0, <2>2 DEF MapReturns, Drive, own, inner
  <2>3. CASE PrepFork \/ PrepSubflow \/ OtherPrep \/ Post
    BY <2>0, <2>3 DEF PrepFork, PrepSubflow, OtherPrep, Post, inner
  <2>g. ASSUME NEW o, LoopGoesOn(o) PROVE visits[w].at = "work"
    <3>1. AttemptOver \/ Attempt(n, concurrency)
      BY <2>g DEF LoopGoesOn
    <3> QED
      BY <2>t, <3>1, LoopBeginsNoWork
  <2>4. CASE AttemptEnds \/ LoopUser \/ WaitOver
    BY <2>4, <2>g DEF AttemptEnds, LoopUser, WaitOver
  <2>5. CASE Exec
    <3>1. PICK bound \in 0 .. MaxConcurrency :
            Attempt(resolved.count, Limit(bound, resolved.count))
      BY <2>5 DEF Exec
    <3>2. Limit(bound, resolved.count) \in 0 .. MaxConcurrency
      BY <2>t, LimitBounded
    <3>3. resolved.count \in Nat /\ Limit(bound, resolved.count) \in Nat
      BY <2>t, <3>2, DelegationConstants
    <3> QED
      BY <3>1, <3>3, LoopBeginsNoWork
  <2>6. CASE SubflowVisit
    <3>1. PICK u \in VisitSteps(visits[1], parent) :
            \/ visits' = [visits EXCEPT ![1] = u]
            \/ LoopGoesOn(IF u.error = None THEN "ok" ELSE u.error)
      BY <2>6 DEF SubflowVisit
    <3>2. u.at # "work"
      <4>1. parent
        BY <2>6 DEF SubflowVisit, Trying
      <4> QED
        BY <2>t, <4>1, VisitStepsStand, DelegationConstants
    <3>3. CASE visits' = [visits EXCEPT ![1] = u]
      BY <2>t, <3>2, <3>3
    <3> QED
      BY <2>g, <3>1, <3>3
  <2>7. CASE LoseRace
    BY <2>7, VisitEnds DEF LoseRace
  <2>8. ASSUME NEW v \in Worker, EnterBranch(v) PROVE visits[w].at = "work"
    <3>1. visits' = visits \/ visits' = [visits EXCEPT ![v] = Branch!Fresh]
      BY <2>8 DEF EnterBranch
    <3> QED
      BY <2>t, <3>1, VisitEnds
  <2>9. ASSUME NEW v \in Worker, BranchVisit(v) PROVE visits[w].at = "work"
    <3>1. Cancelled
      BY <2>9 DEF BranchVisit, Trying
    <3>2. PICK u \in VisitSteps(visits[v], Cancelled) :
            \/ visits' = [visits EXCEPT ![v] = u]
            \/ BranchSucceeds(v) \/ BranchFails(v, u.error) \/ AskOnError(v, 1)
      BY <2>9 DEF BranchVisit
    <3>3. u.at # "work"
      BY <2>t, <3>1, VisitStepsStand
    <3>4. CASE visits' = [visits EXCEPT ![v] = u]
      BY <2>t, <3>3, <3>4
    <3>5. CASE BranchSucceeds(v) \/ BranchFails(v, u.error) \/ AskOnError(v, 1)
      <4>1. visits' = [visits EXCEPT ![v] = NoVisit]
        BY <3>5 DEF BranchSucceeds, BranchFails, AskOnError, NullSlot, Freed
      <4> QED
        BY <4>1, FreedBeginsNoWork
    <3> QED
      BY <3>2, <3>4, <3>5
  <2>10. ASSUME NEW v \in Worker, ForkHook(v) \/ Dropped(v)
         PROVE  visits[w].at = "work"
    <3>1. visits' = [visits EXCEPT ![v] = NoVisit]
      BY <2>10 DEF ForkHook, Dropped, BranchFails, AskOnError, NullSlot, Freed
    <3> QED
      BY <3>1, FreedBeginsNoWork
  <2> QED
    BY <2>1, <2>2, <2>3, <2>4, <2>5, <2>6, <2>7, <2>8, <2>9, <2>10
    DEF DelegationNext, Engine, Mapper
<1> QED
  BY <1>1, DelegationInvariance, PTL DEF DelegationSpec, NoWorkAfterStop

================================================================================
