---------------------------- MODULE BatchNodeProofs ----------------------------
(***************************************************************************)
(* A batch node is a mapper whose closures are retry loops: every step of   *)
(* BatchNode is a step of RunParallel or leaves it alone, so that what is   *)
(* proved of the mapper holds of the node, and the node's own invariants    *)
(* follow from it.                                                          *)
(***************************************************************************)
EXTENDS BatchNode, RunParallelProofs, RetryingProofs

(***************************************************************************)
(* The inductive invariant, beside RunParallel's IInv.                      *)
(***************************************************************************)

\* A closure awaits its retry loop or an on_error hook while the mapper polls
\* it, and nothing else does.
ClosureMatches ==
  \A w \in Worker :
    /\ pc[w] = "busy" => (hook[w] = 0 <=> loop[w].at # "done")
    /\ pc[w] # "busy" => hook[w] = 0 /\ loop[w].at = "done"
    /\ hook[w] # 0 => held[w] \in lost

\* Where the retry loop of a busy worker stands, against the history.
LoopStands(w) ==
  /\ loop[w].max = maxRetries
  /\ loop[w].attempt <= maxRetries
  /\ loop[w].at \in {"on_retry", "wait"} => loop[w].attempt < maxRetries
  /\ loop[w].at = "on_retry" => loop[w].hook \in Hook
  /\ loop[w].at = "fallback" => loop[w].attempt = maxRetries
  /\ attempts[held[w]] = loop[w].attempt + 1
  /\ \A h \in Hook :
       announced[held[w]][h] =
         IF loop[w].at = "wait" \/ (loop[w].at = "on_retry" /\ h < loop[w].hook)
         THEN loop[w].attempt + 1 ELSE loop[w].attempt

LoopMatches == \A w \in Worker : loop[w].at # "done" => LoopStands(w)

\* An item that was not attempted was not announced either; one that was has
\* its slot, is in progress, or has ended the call.
ItemsMatch ==
  /\ \A w \in Worker : pc[w] = "busy" => attempts[held[w]] # 0
  /\ \A i \in Item :
       /\ attempts[i] = 0 => \A h \in Hook : announced[i][h] = 0
       /\ attempts[i] <= maxRetries + 1
       /\ attempts[i] # 0 =>
            \/ out[i] = i \/ firstErr # None
            \/ \E w \in Worker : pc[w] = "busy" /\ held[w] = i

\* Where a lost item went.
LostMatches ==
  /\ nulls \subseteq lost
  /\ \A i \in nulls : out[i] = i
  /\ HookCount > 0 => nulls \subseteq reported
  /\ \A i \in lost :
       \/ i \in nulls \/ firstErr # None
       \/ \E w \in Worker : hook[w] # 0 /\ held[w] = i
  /\ failFast => nulls = {} /\ \A w \in Worker : hook[w] = 0

BatchInv ==
  /\ BatchTypeOK
  /\ ClosureMatches
  /\ LoopMatches
  /\ ItemsMatch
  /\ LostMatches
  /\ SettledStopsOnlyForHooks

--------------------------------------------------------------------------------

Both == IInv /\ BatchInv

\* The constants the steps need.
LEMMA Constants ==
  /\ Item \subseteq Nat /\ None \notin Item /\ Worker \subseteq Nat
  /\ Hook \subseteq Nat /\ HookCount \in Nat /\ MaxRetries \in Nat
  /\ Aborted \in Error /\ None \notin Error
BY RunParallelAssumption, BatchNodeAssumption, RetryingAssumption,
   FlowErrorsAssumption
DEF Item, Worker, Hook, Error, UserError

\* A retry loop that is not running.
LEMMA NoLoopIsDone ==
  NoLoop \in RetryState(0 .. MaxRetries) /\ NoLoop.at = "done"
<1>1. 0 \in 0 .. MaxRetries /\ FALSE \in BOOLEAN
  BY Constants
<1>2. StartRetrying(0, FALSE) \in RetryState(0 .. MaxRetries)
  BY <1>1, StartStands
<1> DEFINE r == StartRetrying(0, FALSE)
<1>3. r \in RetryState(0 .. MaxRetries)
  BY <1>2
<1> HIDE DEF r
<1>4. /\ Finished(r, None) \in RetryState(0 .. MaxRetries)
      /\ Finished(r, None).at = "done"
  BY <1>3, FinishedStands
<1> QED
  BY <1>4 DEF NoLoop, r

\* What a busy worker holds is its own and not in its slot yet.
LEMMA BusyHolds ==
  ASSUME Both, NEW w \in Worker, pc[w] = "busy"
  PROVE  /\ held[w] \in Item /\ out[held[w]] = None /\ held[w] \notin nulls
         /\ \A v \in Worker : v # w /\ pc[v] = "busy" => held[v] # held[w]
<1>1. TypeOK /\ ExclusiveClaim
  BY DEF Both, IInv, ClaimsValid
<1>2. held[w] \in 0 .. n - 1
  BY <1>1 DEF ExclusiveClaim, Working
<1>3. held[w] \in Item
  BY <1>1, <1>2, RunParallelAssumption DEF TypeOK, Item
<1> QED
  BY <1>1, <1>2, <1>3, Constants
  DEF ExclusiveClaim, Working, Both, BatchInv, LostMatches

\* The retry loop of a busy worker is suspended, and where it goes next.
LEMMA LoopResumes ==
  ASSUME Both, NEW w \in Worker, loop[w].at # "done", NEW o \in Outcome
  PROVE  /\ pc[w] = "busy" /\ hook[w] = 0
         /\ loop[w] \in RetryState(0 .. MaxRetries)
         /\ Resume(loop[w], o) \in RetryState(0 .. MaxRetries)
         /\ Resume(loop[w], o).max = maxRetries
         /\ Follows(loop[w], Resume(loop[w], o))
         /\ Resume(loop[w], o).at # "done" => Suspended(Resume(loop[w], o))
         /\ Resume(loop[w], o).at = "done" /\ Resume(loop[w], o).result # "ok"
              => Resume(loop[w], o).result \in Error
<1>1. BatchTypeOK /\ ClosureMatches /\ LoopMatches /\ TypeOK
  BY DEF Both, BatchInv, IInv
<1>2. pc[w] = "busy" /\ hook[w] = 0
  BY <1>1 DEF ClosureMatches, TypeOK
<1>3. loop[w] \in RetryState(0 .. MaxRetries)
  BY <1>1 DEF BatchTypeOK
<1>4. Suspended(loop[w]) /\ loop[w].max = maxRetries
  BY <1>1 DEF LoopMatches, LoopStands, Suspended
<1> DEFINE r == Resume(loop[w], o)
<1>5. /\ r \in RetryState(0 .. MaxRetries) /\ r.max = maxRetries
      /\ Follows(loop[w], r) /\ (r.at # "done" => Suspended(r))
  BY <1>3, <1>4, ResumeFollows
<1> HIDE DEF r
<1>6. r.result \in Outcome \cup {None}
  BY <1>5 DEF RetryState
<1>7. r.at = "done" => r.result # None
  BY <1>5 DEF Follows, Tells
<1>8. r.at = "done" /\ r.result # "ok" => r.result \in Error
  BY <1>6, <1>7 DEF Outcome, Error
<1> QED
  BY <1>2, <1>3, <1>5, <1>8 DEF r

\* Every step of a batch node is a step of the mapper or leaves it alone.
LEMMA StepIsMapperStep == Both /\ [BatchNext]_bvars => [Next]_vars
<1> SUFFICES ASSUME Both, [BatchNext]_bvars PROVE [Next]_vars
  OBVIOUS
<1>1. CASE UNCHANGED bvars \/ BatchReturned
  BY <1>1 DEF bvars, BatchReturned
<1>2. CASE (ParentCancel \/ Return) \/ ExecFails \/ Post \/ LoseRace
  BY <1>2 DEF Next, ExecFails, Post, LoseRace
<1>3. ASSUME NEW w \in Worker, Drive(w) \/ EnterItem(w) \/ Dropped(w)
      PROVE  [Next]_vars
  BY <1>3 DEF Drive, EnterItem, Dropped, Next, Step
<1>4. ASSUME NEW w \in Worker, NEW h, AskOnError(w, h)
      PROVE  [Next]_vars
  BY <1>4 DEF AskOnError, NullSlot, Next, Settle
<1>5. ASSUME NEW w \in Worker, NEW o \in Outcome, loop[w].at # "done", Resumes(w, o)
      PROVE  [Next]_vars
  <2> DEFINE r == Resume(loop[w], o)
  <2>1. r.at = "done" /\ r.result # "ok" => r.result \in Error
    BY <1>5, LoopResumes
  <2>2. \/ UNCHANGED vars \/ SettleOk(w) \/ AskOnError(w, 1)
        \/ r.at = "done" /\ r.result # "ok" /\ SettleErr(w, r.result)
    BY <1>5 DEF Resumes
  <2> QED
    BY <1>4, <2>1, <2>2 DEF Next, Settle
<1>6. ASSUME NEW w \in Worker, ItemBody(w) \/ RetryHook(w) \/ WaitOver(w)
      PROVE  [Next]_vars
  BY <1>5, <1>6 DEF ItemBody, RetryHook, WaitOver, Outcome
<1>7. ASSUME NEW w \in Worker, ErrorHook(w)
      PROVE  [Next]_vars
  BY <1>4, <1>7 DEF ErrorHook, NullSlot, Next, Settle
<1> QED
  BY <1>1, <1>2, <1>3, <1>6, <1>7 DEF BatchNext, Mapper

--------------------------------------------------------------------------------
\* The node starts in the invariant.
LEMMA BatchInitEstablishes == BatchInit => Both
<1> SUFFICES ASSUME BatchInit PROVE Both
  OBVIOUS
<1>1. IInv
  BY InitEstablishesIInv DEF BatchInit
<1>2. BatchTypeOK
  BY BatchNodeAssumption, RetryingAssumption, NoLoopIsDone
  DEF BatchInit, BatchTypeOK
<1>3. \A w \in Worker : pc[w] # "busy"
  BY DEF BatchInit, Init
<1>4. ClosureMatches /\ LoopMatches
  BY <1>3, NoLoopIsDone DEF BatchInit, ClosureMatches, LoopMatches
<1>5. ItemsMatch /\ LostMatches
  BY <1>2, <1>3 DEF BatchInit, ItemsMatch, LostMatches, BatchTypeOK
<1>6. SettledStopsOnlyForHooks
  BY DEF BatchInit, Init, SettledStopsOnlyForHooks
<1> QED
  BY <1>1, <1>2, <1>4, <1>5, <1>6 DEF Both, BatchInv

\* A step that touches no closure and no slot keeps the invariant.
LEMMA QuietKeeps ==
  ASSUME Both, UNCHANGED <<settings, closures, history, out>>,
         outcome' \in Error \cup {Timeout, "ok", None},
         \A w \in Worker : /\ pc'[w] = "busy" <=> pc[w] = "busy"
                           /\ pc[w] = "busy" => held'[w] = held[w],
         firstErr' \in {firstErr, Aborted}
  PROVE  BatchInv'
<1> USE DEF settings, closures, history
<1>1. BatchTypeOK /\ BatchTypeOK'
  BY DEF Both, BatchInv, BatchTypeOK
<1>2. ClosureMatches'
  BY DEF Both, BatchInv, ClosureMatches
<1>3. LoopMatches'
  <2> SUFFICES ASSUME NEW w \in Worker, loop[w].at # "done"
               PROVE  LoopStands(w)'
    BY DEF LoopMatches
  <2>1. held'[w] = held[w] /\ LoopStands(w)
    BY DEF Both, BatchInv, LoopMatches, ClosureMatches
  <2> QED
    BY <2>1 DEF LoopStands
<1>4. ItemsMatch'
  <2>1. ASSUME NEW i \in Item, attempts[i] # 0, out[i] # i, firstErr' = None
        PROVE  \E w \in Worker : pc'[w] = "busy" /\ held'[w] = i
    <3>1. firstErr = None
      BY <2>1, Constants
    <3>2. PICK w \in Worker : pc[w] = "busy" /\ held[w] = i
      BY <2>1, <3>1 DEF Both, BatchInv, ItemsMatch
    <3> QED
      BY <3>2
  <2>2. \A w \in Worker : pc'[w] = "busy" => attempts[held'[w]] # 0
    BY DEF Both, BatchInv, ItemsMatch
  <2> QED
    BY <2>1, <2>2 DEF Both, BatchInv, ItemsMatch
<1>5. LostMatches'
  BY <1>2, Constants DEF Both, BatchInv, LostMatches, ClosureMatches
<1>6. SettledStopsOnlyForHooks'
  BY DEF Both, BatchInv, SettledStopsOnlyForHooks
<1> QED
  BY <1>1, <1>2, <1>3, <1>4, <1>5, <1>6 DEF BatchInv

\* The closure of w returns or is dropped: its item has its slot, or the call
\* has an error.
Slot(w)   == out' = [out EXCEPT ![held[w]] = held[w]] /\ firstErr' = firstErr
NoSlot(w) == out' = out /\ firstErr' # None /\ nulls' = nulls

LEMMA SettleKeeps ==
  ASSUME Both, NEW w \in Worker, pc[w] = "busy", Freed(w),
         UNCHANGED <<settings, outcome, attempts, held>>,
         pc'[w] # "busy", \A v \in Worker : v # w => pc'[v] = pc[v],
         announced' \in [Item -> [Hook -> Nat]],
         \A i \in Item : i # held[w] => announced'[i] = announced[i],
         reported \subseteq reported', reported' \subseteq Item,
         refused \subseteq refused', refused' \subseteq Error,
         lost' \in {lost, lost \cup {held[w]}},
         \/ Slot(w) /\ hook[w] = 0 /\ lost' = lost /\ nulls' = nulls
         \/ /\ Slot(w) /\ held[w] \in lost' /\ ~failFast
            /\ nulls' = nulls \cup {held[w]}
            /\ HookCount > 0 => held[w] \in reported'
         \/ NoSlot(w),
         ~failFast /\ firstErr' # firstErr => firstErr' = Aborted \/ firstErr' \in refused'
  PROVE  BatchInv'
<1> USE DEF settings
<1>h. /\ held[w] \in Item /\ out[held[w]] = None /\ held[w] \notin nulls
      /\ \A v \in Worker : v # w /\ pc[v] = "busy" => held[v] # held[w]
  BY BusyHolds
<1>t. BatchTypeOK /\ TypeOK
  BY DEF Both, BatchInv, IInv
<1>l. /\ loop' = [loop EXCEPT ![w] = NoLoop] /\ hook' = [hook EXCEPT ![w] = 0]
      /\ loop \in [Worker -> RetryState(0 .. MaxRetries)]
      /\ hook \in [Worker -> 0 .. HookCount]
      /\ NoLoop.at = "done"
  BY <1>t, NoLoopIsDone DEF Freed, BatchTypeOK
<1>1. BatchTypeOK'
  <2>1. loop' \in [Worker -> RetryState(0 .. MaxRetries)]
        /\ hook' \in [Worker -> 0 .. HookCount]
    BY <1>l, Constants, NoLoopIsDone
  <2>2. nulls' \subseteq Item /\ lost' \subseteq Item
    BY <1>h, <1>t DEF BatchTypeOK, NoSlot
  <2> QED
    BY <1>t, <2>1, <2>2 DEF BatchTypeOK
<1>2. ClosureMatches'
  BY <1>l DEF Both, BatchInv, ClosureMatches
<1>3. LoopMatches'
  <2> SUFFICES ASSUME NEW v \in Worker, loop'[v].at # "done" PROVE LoopStands(v)'
    BY DEF LoopMatches
  <2>1. v # w /\ loop'[v] = loop[v] /\ held'[v] = held[v] /\ LoopStands(v)
    BY <1>l DEF Both, BatchInv, LoopMatches
  <2>2. pc[v] = "busy"
    BY <1>l, <2>1 DEF Both, BatchInv, ClosureMatches
  <2>3. held[v] \in Item /\ held[v] # held[w]
    BY <1>h, <2>1, <2>2, BusyHolds
  <2> QED
    BY <2>1, <2>3 DEF LoopStands
<1>4. ItemsMatch'
  <2>1. ASSUME NEW i \in Item
        PROVE  /\ attempts[i] = 0 => \A h \in Hook : announced'[i][h] = 0
               /\ attempts[i] <= maxRetries + 1
    <3>1. CASE i # held[w]
      BY <3>1 DEF Both, BatchInv, ItemsMatch
    <3>2. CASE i = held[w]
      BY <3>2 DEF Both, BatchInv, ItemsMatch
    <3> QED
      BY <3>1, <3>2
  <2>2. ASSUME NEW i \in Item, attempts[i] # 0, out'[i] # i, firstErr' = None
        PROVE  \E v \in Worker : pc'[v] = "busy" /\ held'[v] = i
    <3>1. i # held[w] /\ out[i] # i /\ firstErr = None
      BY <1>h, <1>t, <2>2 DEF Slot, NoSlot, TypeOK
    <3>2. PICK v \in Worker : pc[v] = "busy" /\ held[v] = i
      BY <2>2, <3>1 DEF Both, BatchInv, ItemsMatch
    <3> QED
      BY <3>1, <3>2
  <2>3. \A v \in Worker : pc'[v] = "busy" => attempts[held'[v]] # 0
    BY DEF Both, BatchInv, ItemsMatch
  <2> QED
    BY <2>1, <2>2, <2>3 DEF ItemsMatch
<1>5. LostMatches'
  <2>1. nulls' \subseteq lost' /\ (failFast => nulls' = {} /\ \A v \in Worker : hook'[v] = 0)
    BY <1>l DEF Both, BatchInv, LostMatches, NoSlot
  <2>2. \A i \in nulls' : out'[i] = i
    BY <1>h, <1>t DEF Both, BatchInv, LostMatches, Slot, NoSlot, TypeOK, BatchTypeOK
  <2>3. HookCount > 0 => nulls' \subseteq reported'
    BY DEF Both, BatchInv, LostMatches, NoSlot
  <2>4. ASSUME NEW i \in lost', i \notin nulls', firstErr' = None
        PROVE  \E v \in Worker : hook'[v] # 0 /\ held'[v] = i
    <3>1. firstErr = None /\ i \notin nulls
      BY <2>4 DEF Slot, NoSlot
    <3>2. CASE i \in lost
      <4>1. PICK v \in Worker : hook[v] # 0 /\ held[v] = i
        BY <3>1, <3>2 DEF Both, BatchInv, LostMatches
      <4>2. v # w
        BY <2>4, <4>1 DEF NoSlot
      <4> QED
        BY <1>l, <4>1, <4>2
    <3>3. CASE i \notin lost
      BY <2>4, <3>1, <3>3 DEF NoSlot
    <3> QED
      BY <3>2, <3>3
  <2> QED
    BY <2>1, <2>2, <2>3, <2>4 DEF LostMatches
<1>6. SettledStopsOnlyForHooks'
  BY DEF Both, BatchInv, SettledStopsOnlyForHooks
<1> QED
  BY <1>1, <1>2, <1>3, <1>4, <1>5, <1>6 DEF BatchInv

--------------------------------------------------------------------------------
\* A closure's first poll starts its retry loop on an item nobody attempted.
LEMMA EnterKeeps ==
  ASSUME Both, NEW w \in Worker, EnterItem(w), ~Cancelled
  PROVE  BatchInv'
<1> USE DEF settings
<1>t. BatchTypeOK /\ TypeOK /\ IInv /\ BatchInv
  BY DEF Both, BatchInv, IInv
<1> DEFINE i == held[w]
<1>e. /\ pc[w] = "enter" /\ pc' = [pc EXCEPT ![w] = "busy"]
      /\ loop' = [loop EXCEPT ![w] = StartRetrying(maxRetries, waits)]
      /\ attempts' = [attempts EXCEPT ![i] = @ + 1]
      /\ UNCHANGED <<held, out, firstErr, settings, hook, nulls, outcome,
                     announced, lost, reported, refused>>
  BY DEF EnterItem, RaceEnter
<1>h. i \in Item /\ out[i] = None /\ hook[w] = 0 /\ loop[w].at = "done"
      /\ \A v \in Worker : pc[v] = "busy" => v # w /\ held[v] # i
  <2>1. i \in 0 .. n - 1 /\ out[i] = None
        /\ \A v \in Worker : pc[v] = "busy" => v # w /\ held[v] # i
    BY <1>t, <1>e DEF IInv, ClaimsValid, ExclusiveClaim, Working
  <2> QED
    BY <1>t, <1>e, <2>1, RunParallelAssumption
    DEF TypeOK, Item, BatchInv, ClosureMatches
<1>s. firstErr = None
  BY <1>t, <1>e DEF IInv, ErrorStops, Cancelled
<1>0. attempts[i] = 0 /\ \A h \in Hook : announced[i][h] = 0
  <2>1. attempts[i] = 0
    BY <1>t, <1>h, <1>s, Constants DEF BatchInv, ItemsMatch
  <2> QED
    BY <1>t, <1>h, <2>1 DEF BatchInv, ItemsMatch
<1> DEFINE r == StartRetrying(maxRetries, waits)
<1>r. /\ r \in RetryState(0 .. MaxRetries) /\ r.max = maxRetries
      /\ r.at = "attempt" /\ r.attempt = 0
  <2>1. maxRetries \in 0 .. MaxRetries /\ waits \in BOOLEAN
    BY <1>t DEF BatchTypeOK
  <2> QED
    BY <2>1, StartStands
<1> HIDE DEF r
<1>v. /\ loop'[w] = r /\ attempts'[i] = 1 /\ pc'[w] = "busy"
      /\ \A v \in Worker : v # w => loop'[v] = loop[v] /\ pc'[v] = pc[v]
      /\ \A j \in Item : j # i => attempts'[j] = attempts[j]
  BY <1>t, <1>e, <1>h, <1>0 DEF BatchTypeOK, TypeOK, r
<1>1. BatchTypeOK'
  <2>1. loop' \in [Worker -> RetryState(0 .. MaxRetries)]
    BY <1>t, <1>e, <1>r DEF BatchTypeOK, r
  <2>2. attempts' \in [Item -> Nat]
    BY <1>t, <1>e, <1>h DEF BatchTypeOK
  <2> QED
    BY <1>t, <1>e, <2>1, <2>2 DEF BatchTypeOK
<1>2. ClosureMatches'
  BY <1>t, <1>e, <1>h, <1>r, <1>v DEF BatchInv, ClosureMatches
<1>3. LoopMatches'
  <2> SUFFICES ASSUME NEW v \in Worker, loop'[v].at # "done" PROVE LoopStands(v)'
    BY DEF LoopMatches
  <2>1. CASE v = w
    BY <1>t, <1>e, <1>h, <1>0, <1>r, <1>v, <2>1 DEF LoopStands, BatchTypeOK
  <2>2. CASE v # w
    <3>1. loop'[v] = loop[v] /\ LoopStands(v) /\ pc[v] = "busy"
      BY <1>t, <1>v, <2>2 DEF BatchInv, LoopMatches, ClosureMatches
    <3>2. held[v] \in Item /\ held[v] # i
      BY <1>h, <3>1, BusyHolds
    <3> QED
      BY <1>e, <1>v, <3>1, <3>2 DEF LoopStands
  <2> QED
    BY <2>1, <2>2
<1>4. ItemsMatch'
  <2>1. ASSUME NEW v \in Worker, pc'[v] = "busy"
        PROVE  attempts'[held'[v]] # 0
    <3>1. CASE v = w
      BY <1>e, <1>v, <3>1
    <3>2. CASE v # w
      <4>1. pc[v] = "busy" /\ held[v] \in Item /\ held[v] # i
        BY <1>h, <1>v, <2>1, <3>2, BusyHolds
      <4> QED
        BY <1>t, <1>e, <1>v, <4>1 DEF BatchInv, ItemsMatch
    <3> QED
      BY <3>1, <3>2
  <2>2. ASSUME NEW j \in Item
        PROVE  /\ attempts'[j] = 0 => \A h \in Hook : announced'[j][h] = 0
               /\ attempts'[j] <= maxRetries' + 1
    <3>1. CASE j = i
      BY <1>t, <1>e, <1>v, <3>1 DEF BatchTypeOK
    <3>2. CASE j # i
      BY <1>t, <1>e, <1>v, <3>2 DEF BatchInv, ItemsMatch
    <3> QED
      BY <3>1, <3>2
  <2>3. ASSUME NEW j \in Item, attempts'[j] # 0
        PROVE  \/ out'[j] = j \/ firstErr' # None
               \/ \E v \in Worker : pc'[v] = "busy" /\ held'[v] = j
    <3>1. CASE j = i
      BY <1>e, <1>v, <3>1
    <3>2. CASE j # i
      <4>1. \/ out[j] = j \/ firstErr # None
            \/ \E v \in Worker : pc[v] = "busy" /\ held[v] = j
        BY <1>t, <1>v, <2>3, <3>2 DEF BatchInv, ItemsMatch
      <4> QED
        BY <1>e, <1>h, <1>v, <4>1
    <3> QED
      BY <3>1, <3>2
  <2> QED
    BY <2>1, <2>2, <2>3 DEF ItemsMatch
<1>5. LostMatches'
  BY <1>t, <1>e DEF BatchInv, LostMatches
<1>6. SettledStopsOnlyForHooks'
  BY <1>t, <1>e DEF BatchInv, SettledStopsOnlyForHooks
<1> QED
  BY <1>1, <1>2, <1>3, <1>4, <1>5, <1>6 DEF BatchInv

\* An on_retry hook that settles is counted, for the item and the hook.
LEMMA AnnouncedCounts ==
  ASSUME Both, NEW w \in Worker, NEW o \in Outcome, loop[w].at # "done",
         Resumes(w, o)
  PROVE  /\ announced' \in [Item -> [Hook -> Nat]]
         /\ \A h \in Hook :
              announced'[held[w]][h] =
                IF loop[w].at = "on_retry" /\ h = loop[w].hook
                THEN announced[held[w]][h] + 1 ELSE announced[held[w]][h]
         /\ \A j \in Item : j # held[w] => announced'[j] = announced[j]
<1> DEFINE i == held[w]
           L == loop[w]
<1>1. /\ BatchTypeOK /\ i \in Item
      /\ L.at = "on_retry" => L.hook \in Hook
  BY LoopResumes, BusyHolds DEF Both, BatchInv, LoopMatches, LoopStands
<1>2. announced' = IF L.at = "on_retry" THEN [announced EXCEPT ![i][L.hook] = @ + 1]
                   ELSE announced
  BY DEF Resumes
<1> HIDE DEF i, L
<1>3. CASE L.at = "on_retry"
  <2> DEFINE row == [announced[i] EXCEPT ![L.hook] = @ + 1]
  <2>1. row \in [Hook -> Nat]
    BY <1>1, <1>3 DEF BatchTypeOK
  <2>2. announced' = [announced EXCEPT ![i] = row]
    BY <1>2, <1>3
  <2>3. \A h \in Hook : row[h] = IF h = L.hook THEN announced[i][h] + 1
                                 ELSE announced[i][h]
    BY <1>1 DEF BatchTypeOK
  <2> HIDE DEF row
  <2> QED
    BY <1>1, <1>3, <2>1, <2>2, <2>3 DEF BatchTypeOK, i, L
<1>4. CASE L.at # "on_retry"
  BY <1>1, <1>2, <1>4 DEF BatchTypeOK, i, L
<1> QED
  BY <1>3, <1>4

\* A retry loop goes on to its next stop.
LEMMA ContinueKeeps ==
  ASSUME Both, NEW w \in Worker, NEW o \in Outcome, loop[w].at # "done",
         Resumes(w, o), Resume(loop[w], o).at # "done"
  PROVE  BatchInv'
<1> USE DEF settings
<1> DEFINE i == held[w]
           L == loop[w]
           r == Resume(loop[w], o)
<1>t. BatchTypeOK /\ TypeOK /\ BatchInv
  BY DEF Both, BatchInv, IInv
<1>f. /\ pc[w] = "busy" /\ hook[w] = 0
      /\ L \in RetryState(0 .. MaxRetries) /\ r \in RetryState(0 .. MaxRetries)
      /\ r.max = maxRetries /\ Follows(L, r) /\ Suspended(r)
  BY LoopResumes
<1>h. i \in Item /\ \A v \in Worker : v # w /\ pc[v] = "busy" => held[v] # i
  BY <1>f, BusyHolds
<1>e. /\ loop' = [loop EXCEPT ![w] = r]
      /\ attempts' = IF r.at = "attempt" THEN [attempts EXCEPT ![i] = @ + 1]
                     ELSE attempts
      /\ announced' = IF L.at = "on_retry"
                      THEN [announced EXCEPT ![i][L.hook] = @ + 1]
                      ELSE announced
      /\ UNCHANGED <<vars, hook, nulls, settings, outcome, lost, reported, refused>>
  BY DEF Resumes
<1>s. LoopStands(w)
  BY <1>t DEF BatchInv, LoopMatches
<1> HIDE DEF L, r
<1>n. /\ L.attempt \in Nat /\ L.hook \in Nat /\ r.attempt \in Nat /\ r.hook \in Nat
      /\ maxRetries \in Nat /\ attempts[i] \in Nat
      /\ \A h \in Hook : announced[i][h] \in Nat
  BY <1>t, <1>f, <1>h DEF RetryState, BatchTypeOK
<1>l. /\ L.max = maxRetries /\ L.attempt <= maxRetries
      /\ L.at \in {"on_retry", "wait"} => L.attempt < maxRetries
      /\ L.at = "on_retry" => L.hook \in Hook
      /\ attempts[i] = L.attempt + 1
      /\ \A h \in Hook :
           announced[i][h] = IF L.at = "wait" \/ (L.at = "on_retry" /\ h < L.hook)
                             THEN L.attempt + 1 ELSE L.attempt
  BY <1>s DEF LoopStands, L
<1>a. /\ announced' \in [Item -> [Hook -> Nat]]
      /\ \A h \in Hook :
           announced'[i][h] = IF L.at = "on_retry" /\ h = L.hook
                              THEN announced[i][h] + 1 ELSE announced[i][h]
      /\ \A j \in Item : j # i => announced'[j] = announced[j]
  BY AnnouncedCounts DEF L
<1>c. /\ attempts' \in [Item -> Nat]
      /\ attempts'[i] = IF r.at = "attempt" THEN attempts[i] + 1 ELSE attempts[i]
      /\ \A j \in Item : j # i => attempts'[j] = attempts[j]
  BY <1>t, <1>e, <1>h DEF BatchTypeOK
<1>v. /\ loop' \in [Worker -> RetryState(0 .. MaxRetries)] /\ loop'[w] = r
      /\ \A v \in Worker : v # w => loop'[v] = loop[v]
  BY <1>t, <1>e, <1>f DEF BatchTypeOK
<1>u. /\ UNCHANGED <<pc, held, out, firstErr, n>>
      /\ UNCHANGED <<hook, nulls, settings, outcome, lost, reported, refused>>
  BY <1>e DEF vars
<1>r. /\ r.attempt <= maxRetries
      /\ r.at \in {"on_retry", "wait"} => r.attempt < maxRetries
      /\ r.at = "on_retry" => r.hook \in Hook
      /\ r.at = "fallback" => r.attempt = maxRetries
      /\ attempts'[i] = r.attempt + 1
      /\ \A h \in Hook :
           announced'[i][h] = IF r.at = "wait" \/ (r.at = "on_retry" /\ h < r.hook)
                              THEN r.attempt + 1 ELSE r.attempt
  <2>0. /\ HookCount \in Nat /\ \A h \in Hook : h \in Nat /\ 1 <= h /\ h <= HookCount
        /\ r.at # "done" /\ (r.at = "on_retry" => r.hook \in Hook)
    BY <1>f, RetryingAssumption DEF Hook, Suspended
  <2>1. CASE L.at = "attempt" /\ L.attempt = L.max /\ r.at = "fallback"
             /\ r.attempt = L.attempt
    BY <1>n, <1>l, <1>a, <1>c, <2>0, <2>1
  <2>2. CASE L.at = "attempt" /\ L.attempt # L.max /\ Tells(L, r, 1)
    BY <1>n, <1>l, <1>a, <1>c, <2>0, <2>2 DEF Tells
  <2>3. CASE L.at = "on_retry" /\ Tells(L, r, L.hook + 1)
    <3>1. /\ L.attempt < maxRetries /\ L.hook \in Hook
          /\ \A h \in Hook : announced'[i][h] = IF h <= L.hook THEN L.attempt + 1
                                                            ELSE L.attempt
      <4>1. L.attempt < maxRetries /\ L.hook \in Hook
        BY <1>l, <2>3
      <4>2. \A h \in Hook : h <= L.hook <=> h < L.hook \/ h = L.hook
        BY <1>n, <2>0
      <4>3. ASSUME NEW h \in Hook
            PROVE  announced'[i][h] = IF h <= L.hook THEN L.attempt + 1 ELSE L.attempt
        <5>1. CASE h = L.hook
          <6>1. announced[i][h] = L.attempt
            BY <1>l, <1>n, <2>3, <5>1
          <6> QED
            BY <1>a, <2>3, <4>2, <5>1, <6>1
        <5>2. CASE h # L.hook
          BY <1>l, <1>a, <2>3, <4>2, <5>2
        <5> QED
          BY <5>1, <5>2
      <4> QED
        BY <4>1, <4>3
    <3>2. CASE L.hook + 1 <= HookCount /\ r.at = "on_retry" /\ r.hook = L.hook + 1
               /\ r.attempt = L.attempt
      <4>1. L.hook + 1 \in Nat /\ \A h \in Hook : h < L.hook + 1 <=> h <= L.hook
        BY <2>0, <3>1
      <4>2. attempts'[i] = r.attempt + 1 /\ r.attempt < maxRetries
        BY <1>n, <1>l, <1>c, <3>1, <3>2
      <4>3. \A h \in Hook : announced'[i][h] =
              IF h < r.hook THEN r.attempt + 1 ELSE r.attempt
        BY <3>1, <3>2, <4>1
      <4> QED
        BY <1>l, <2>0, <3>2, <4>2, <4>3
    <3>3. CASE L.hook + 1 > HookCount /\ r.at = "wait" /\ r.attempt = L.attempt
      BY <1>n, <1>l, <1>c, <2>0, <3>1, <3>3
    <3>4. CASE L.hook + 1 > HookCount /\ r.at = "attempt"
               /\ r.attempt = L.attempt + 1
      BY <1>n, <1>l, <1>c, <2>0, <3>1, <3>4
    <3> QED
      BY <2>3, <3>2, <3>3, <3>4 DEF Tells
  <2>4. CASE L.at = "wait" /\ r.at = "attempt" /\ r.attempt = L.attempt + 1
    BY <1>n, <1>l, <1>a, <1>c, <2>0, <2>4
  <2> QED
    BY <1>f, <2>0, <2>1, <2>2, <2>3, <2>4 DEF Follows
<1>1. BatchTypeOK'
  BY <1>t, <1>a, <1>c, <1>u, <1>v DEF BatchTypeOK
<1>2. ClosureMatches'
  BY <1>t, <1>f, <1>u, <1>v DEF BatchInv, ClosureMatches, Suspended
<1>3. LoopMatches'
  <2> SUFFICES ASSUME NEW v \in Worker, loop'[v].at # "done" PROVE LoopStands(v)'
    BY DEF LoopMatches
  <2>1. CASE v = w
    BY <1>f, <1>r, <1>u, <1>v, <2>1 DEF LoopStands
  <2>2. CASE v # w
    <3>1. loop'[v] = loop[v] /\ LoopStands(v) /\ pc[v] = "busy"
      BY <1>t, <1>v, <2>2 DEF BatchInv, LoopMatches, ClosureMatches
    <3>2. held[v] \in Item /\ held[v] # i
      BY <1>h, <2>2, <3>1, BusyHolds
    <3> QED
      BY <1>a, <1>c, <1>u, <3>1, <3>2 DEF LoopStands
  <2> QED
    BY <2>1, <2>2
<1>4. ItemsMatch'
  <2>1. ASSUME NEW j \in Item
        PROVE  /\ attempts'[j] = 0 => \A h \in Hook : announced'[j][h] = 0
               /\ attempts'[j] <= maxRetries + 1
               /\ attempts[j] = 0 <=> attempts'[j] = 0
    <3>1. CASE j = i
      BY <1>n, <1>l, <1>r, <3>1
    <3>2. CASE j # i
      BY <1>t, <1>a, <1>c, <3>2 DEF BatchInv, ItemsMatch
    <3> QED
      BY <3>1, <3>2
  <2>2. \A v \in Worker : pc[v] = "busy" => held[v] \in Item /\ attempts[held[v]] # 0
    BY <1>t, BusyHolds DEF BatchInv, ItemsMatch
  <2> QED
    BY <1>t, <1>u, <2>1, <2>2 DEF BatchInv, ItemsMatch
<1>5. LostMatches'
  BY <1>t, <1>u DEF BatchInv, LostMatches
<1>6. SettledStopsOnlyForHooks'
  BY <1>t, <1>u DEF BatchInv, SettledStopsOnlyForHooks
<1> QED
  BY <1>1, <1>2, <1>3, <1>4, <1>5, <1>6 DEF BatchInv

\* A failed item that was put to every hook has a null slot.
LEMMA NullKeeps ==
  ASSUME Both, NEW w \in Worker, pc[w] = "busy", ~failFast, NullSlot(w),
         UNCHANGED <<settings, outcome, attempts>>,
         announced' \in [Item -> [Hook -> Nat]],
         \A i \in Item : i # held[w] => announced'[i] = announced[i],
         reported \subseteq reported', reported' \subseteq Item,
         HookCount > 0 => held[w] \in reported',
         refused' = refused, lost' = lost \cup {held[w]}
  PROVE  BatchInv'
<1>1. TypeOK /\ BatchTypeOK
  BY DEF Both, BatchInv, IInv
<1>2. /\ Freed(w) /\ Slot(w) /\ nulls' = nulls \cup {held[w]} /\ held' = held
      /\ pc' = [pc EXCEPT ![w] = "loop"]
  BY DEF NullSlot, SettleOk, Slot
<1>3. pc'[w] # "busy" /\ \A v \in Worker : v # w => pc'[v] = pc[v]
  BY <1>1, <1>2 DEF TypeOK
<1>4. firstErr' = firstErr
  BY <1>2 DEF Slot
<1>5. held[w] \in lost' /\ refused' \subseteq Error
  BY <1>1 DEF BatchTypeOK
<1> QED
  BY <1>2, <1>3, <1>4, <1>5, SettleKeeps

\* A failed item is put to an on_error hook.
LEMMA AskKeeps ==
  ASSUME Both, NEW w \in Worker, pc[w] = "busy", ~failFast,
         NEW k \in Hook, hook' = [hook EXCEPT ![w] = k],
         loop' = [loop EXCEPT ![w] = NoLoop],
         UNCHANGED <<vars, settings, outcome, nulls, attempts>>,
         announced' \in [Item -> [Hook -> Nat]],
         \A i \in Item : i # held[w] => announced'[i] = announced[i],
         reported \subseteq reported', reported' \subseteq Item,
         refused' = refused, lost' = lost \cup {held[w]}
  PROVE  BatchInv'
<1> USE DEF settings
<1>t. BatchTypeOK /\ TypeOK /\ BatchInv
  BY DEF Both, BatchInv, IInv
<1>h. /\ held[w] \in Item
      /\ \A v \in Worker : v # w /\ pc[v] = "busy" => held[v] # held[w]
  BY BusyHolds
<1>u. UNCHANGED <<pc, held, out, firstErr, n>>
  BY DEF vars
<1>k. k # 0 /\ k \in 0 .. HookCount
  BY RetryingAssumption DEF Hook
<1>v. /\ loop' \in [Worker -> RetryState(0 .. MaxRetries)]
      /\ hook' \in [Worker -> 0 .. HookCount]
      /\ hook'[w] = k /\ loop'[w].at = "done"
      /\ \A v \in Worker : v # w => loop'[v] = loop[v] /\ hook'[v] = hook[v]
  BY <1>t, <1>k, NoLoopIsDone DEF BatchTypeOK
<1>1. BatchTypeOK'
  BY <1>t, <1>h, <1>v DEF BatchTypeOK
<1>2. ClosureMatches'
  BY <1>t, <1>u, <1>k, <1>v DEF BatchInv, ClosureMatches
<1>3. LoopMatches'
  <2> SUFFICES ASSUME NEW v \in Worker, loop'[v].at # "done" PROVE LoopStands(v)'
    BY DEF LoopMatches
  <2>1. v # w /\ loop'[v] = loop[v] /\ LoopStands(v) /\ pc[v] = "busy"
    BY <1>t, <1>v DEF BatchInv, LoopMatches, ClosureMatches
  <2>2. held[v] \in Item /\ held[v] # held[w]
    BY <1>h, <2>1, BusyHolds
  <2> QED
    BY <1>u, <2>1, <2>2 DEF LoopStands
<1>4. ItemsMatch'
  <2>1. ASSUME NEW j \in Item, attempts[j] = 0
        PROVE  \A h \in Hook : announced'[j][h] = 0
    BY <1>t, <2>1 DEF BatchInv, ItemsMatch
  <2> QED
    BY <1>t, <1>u, <2>1 DEF BatchInv, ItemsMatch
<1>5. LostMatches'
  <2>1. ASSUME NEW j \in lost', j \notin nulls, firstErr = None
        PROVE  \E v \in Worker : hook'[v] # 0 /\ held[v] = j
    <3>1. CASE j = held[w]
      BY <1>k, <1>v, <3>1
    <3>2. CASE j # held[w]
      <4>1. PICK v \in Worker : hook[v] # 0 /\ held[v] = j
        BY <1>t, <2>1, <3>2 DEF BatchInv, LostMatches
      <4> QED
        BY <1>v, <3>2, <4>1
    <3> QED
      BY <3>1, <3>2
  <2> QED
    BY <1>t, <1>u, <2>1 DEF BatchInv, LostMatches
<1>6. SettledStopsOnlyForHooks'
  BY <1>t, <1>u DEF BatchInv, SettledStopsOnlyForHooks
<1> QED
  BY <1>1, <1>2, <1>3, <1>4, <1>5, <1>6 DEF BatchInv

\* The hooks from the k-th on are asked, or the slot stays null: both keep it.
LEMMA AskOnErrorKeeps ==
  ASSUME Both, NEW w \in Worker, pc[w] = "busy", ~failFast,
         NEW k \in Nat \ {0}, AskOnError(w, k),
         UNCHANGED <<settings, outcome, attempts>>,
         announced' \in [Item -> [Hook -> Nat]],
         \A i \in Item : i # held[w] => announced'[i] = announced[i],
         reported \subseteq reported', reported' \subseteq Item,
         k > HookCount /\ HookCount > 0 => held[w] \in reported',
         refused' = refused, lost' = lost \cup {held[w]}
  PROVE  BatchInv'
<1>1. CASE k <= HookCount /\ hook' = [hook EXCEPT ![w] = k]
           /\ loop' = [loop EXCEPT ![w] = NoLoop] /\ UNCHANGED <<vars, nulls>>
  <2>1. k \in Hook
    BY <1>1, RetryingAssumption DEF Hook
  <2> QED
    BY <1>1, <2>1, AskKeeps
<1>2. CASE k > HookCount /\ NullSlot(w)
  BY <1>2, NullKeeps
<1>3. k <= HookCount \/ k > HookCount
  BY RetryingAssumption
<1> QED
  BY <1>1, <1>2, <1>3, RetryingAssumption DEF AskOnError, HooksLeft

\* A retry loop returns.
LEMMA DoneKeeps ==
  ASSUME Both, NEW w \in Worker, NEW o \in Outcome, loop[w].at # "done",
         Resumes(w, o), Resume(loop[w], o).at = "done"
  PROVE  BatchInv'
<1> DEFINE i == held[w]
           r == Resume(loop[w], o)
<1>t. BatchTypeOK /\ TypeOK
  BY DEF Both, BatchInv, IInv
<1>f. /\ pc[w] = "busy" /\ hook[w] = 0 /\ i \in Item
      /\ r.result # "ok" => r.result \in Error
  BY LoopResumes, BusyHolds
<1>a. /\ announced' \in [Item -> [Hook -> Nat]]
      /\ \A j \in Item : j # i => announced'[j] = announced[j]
  BY AnnouncedCounts
<1> DEFINE failed == r.result # "ok"
<1>e. /\ attempts' = attempts
      /\ lost' = IF failed /\ r.result # Aborted THEN lost \cup {i} ELSE lost
      /\ UNCHANGED <<settings, outcome, reported, refused>>
      /\ \/ ~failed /\ SettleOk(w) /\ Freed(w) /\ nulls' = nulls
         \/ failed /\ Propagated(r.result) /\ SettleErr(w, r.result) /\ Freed(w)
            /\ nulls' = nulls
         \/ failed /\ ~Propagated(r.result) /\ AskOnError(w, 1)
  BY DEF Resumes
<1> HIDE DEF r
<1>r. reported' \subseteq Item /\ refused' \subseteq Error
  BY <1>t, <1>e DEF BatchTypeOK
<1>1. CASE ~failed /\ SettleOk(w) /\ Freed(w) /\ nulls' = nulls
  <2>1. Slot(w) /\ held' = held /\ pc' = [pc EXCEPT ![w] = "loop"]
    BY <1>1 DEF SettleOk, Slot
  <2>2. pc'[w] # "busy" /\ (\A v \in Worker : v # w => pc'[v] = pc[v])
        /\ firstErr' = firstErr
    BY <1>t, <2>1 DEF TypeOK, Slot
  <2> QED
    BY <1>f, <1>a, <1>e, <1>r, <1>1, <2>1, <2>2, SettleKeeps
<1>2. CASE failed /\ Propagated(r.result) /\ SettleErr(w, r.result) /\ Freed(w)
           /\ nulls' = nulls
  <2>1. /\ held' = held /\ out' = out /\ pc' = [pc EXCEPT ![w] = "exited"]
        /\ firstErr' = IF firstErr = None THEN r.result ELSE firstErr
    BY <1>2 DEF SettleErr, Fail, FirstError
  <2>2. NoSlot(w)
    BY <1>f, <1>2, <2>1, Constants DEF NoSlot
  <2>3. pc'[w] # "busy" /\ \A v \in Worker : v # w => pc'[v] = pc[v]
    BY <1>t, <2>1 DEF TypeOK
  <2>4. ~failFast /\ firstErr' # firstErr => firstErr' = Aborted
    BY <1>2, <2>1 DEF Propagated
  <2>5. lost' \in {lost, lost \cup {i}}
    BY <1>e
  <2> QED
    BY <1>f, <1>a, <1>e, <1>r, <1>2, <2>1, <2>2, <2>3, <2>4, <2>5, SettleKeeps
<1>3. CASE failed /\ ~Propagated(r.result) /\ AskOnError(w, 1)
  <2>1. ~failFast /\ lost' = lost \cup {i}
    BY <1>e, <1>3 DEF Propagated
  <2>2. ~(1 > HookCount /\ HookCount > 0)
    BY Constants
  <2> QED
    BY <1>f, <1>a, <1>e, <1>r, <1>3, <2>1, <2>2, AskOnErrorKeeps
<1> QED
  BY <1>e, <1>1, <1>2, <1>3

\* An on_error hook answers.
LEMMA ErrorHookKeeps ==
  ASSUME Both, NEW w \in Worker, ErrorHook(w)
  PROVE  BatchInv'
<1> DEFINE i == held[w]
<1>t. BatchTypeOK /\ TypeOK
  BY DEF Both, BatchInv, IInv
<1>f. /\ pc[w] = "busy" /\ hook[w] # 0 /\ hook[w] \in 0 .. HookCount
      /\ i \in Item /\ i \in lost /\ ~failFast
  BY <1>t, BusyHolds
  DEF ErrorHook, Both, BatchInv, BatchTypeOK, ClosureMatches, LostMatches
<1>e. /\ reported' = reported \cup {i} /\ lost' = lost /\ announced' = announced
      /\ attempts' = attempts /\ UNCHANGED <<settings, outcome>>
      /\ \/ AskOnError(w, hook[w] + 1) /\ refused' = refused
         \/ NullSlot(w) /\ refused' = refused
         \/ \E e \in Error : SettleErr(w, e) /\ Freed(w) /\ nulls' = nulls
                             /\ refused' = refused \cup {e}
  BY DEF ErrorHook
<1>r. /\ reported' \subseteq Item /\ announced' \in [Item -> [Hook -> Nat]]
      /\ lost' = lost \cup {i} /\ i \in reported'
  BY <1>t, <1>f, <1>e DEF BatchTypeOK
<1>1. CASE AskOnError(w, hook[w] + 1) /\ refused' = refused
  <2>1. hook[w] + 1 \in Nat \ {0}
    BY <1>f, Constants
  <2> QED
    BY <1>f, <1>e, <1>r, <1>1, <2>1, AskOnErrorKeeps
<1>2. CASE NullSlot(w) /\ refused' = refused
  BY <1>f, <1>e, <1>r, <1>2, NullKeeps
<1>3. ASSUME NEW e \in Error, SettleErr(w, e), Freed(w), nulls' = nulls,
             refused' = refused \cup {e}
      PROVE  BatchInv'
  <2>1. /\ held' = held /\ out' = out /\ pc' = [pc EXCEPT ![w] = "exited"]
        /\ firstErr' = IF firstErr = None THEN e ELSE firstErr
    BY <1>3 DEF SettleErr, Fail, FirstError
  <2>2. NoSlot(w)
    BY <1>3, <2>1, Constants DEF NoSlot
  <2>3. pc'[w] # "busy" /\ \A v \in Worker : v # w => pc'[v] = pc[v]
    BY <1>t, <2>1 DEF TypeOK
  <2>4. firstErr' # firstErr => firstErr' \in refused'
    BY <1>3, <2>1
  <2>5. refused \subseteq refused' /\ refused' \subseteq Error
    BY <1>t, <1>3 DEF BatchTypeOK
  <2> QED
    BY <1>f, <1>e, <1>r, <1>3, <2>1, <2>2, <2>3, <2>4, <2>5, SettleKeeps
<1> QED
  BY <1>e, <1>1, <1>2, <1>3

\* A closure is dropped.
LEMMA DroppedKeeps ==
  ASSUME Both, NEW w \in Worker, Dropped(w)
  PROVE  BatchInv'
<1>t. BatchTypeOK /\ TypeOK
  BY DEF Both, BatchInv, IInv
<1>1. /\ pc[w] = "busy" /\ Freed(w)
      /\ held' = held /\ out' = out /\ pc' = [pc EXCEPT ![w] = "exited"]
      /\ firstErr' = IF firstErr = None THEN Aborted ELSE firstErr
      /\ UNCHANGED <<settings, nulls, outcome, history>>
  BY DEF Dropped, Interrupt, Fail, FirstError
<1>2. NoSlot(w)
  BY <1>1, Constants DEF NoSlot
<1>3. pc'[w] # "busy" /\ \A v \in Worker : v # w => pc'[v] = pc[v]
  BY <1>t, <1>1 DEF TypeOK
<1>4. firstErr' # firstErr => firstErr' = Aborted
  BY <1>1
<1>5. /\ announced' \in [Item -> [Hook -> Nat]] /\ announced' = announced
      /\ reported' = reported /\ reported' \subseteq Item
      /\ refused' = refused /\ refused' \subseteq Error
      /\ lost' = lost /\ attempts' = attempts
  BY <1>t, <1>1 DEF BatchTypeOK, history
<1> QED
  BY <1>1, <1>2, <1>3, <1>4, <1>5, SettleKeeps

\* The steps of the mapper that start no retry loop, and those of the call.
LEMMA QuietStepsKeep ==
  ASSUME Both, \/ (ParentCancel \/ Return) /\ UNCHANGED batch
               \/ ExecFails \/ Post \/ LoseRace
               \/ \E w \in Worker : Drive(w) \/ (EnterItem(w) /\ Cancelled)
  PROVE  BatchInv'
<1> USE DEF batch
<1>t. BatchTypeOK /\ TypeOK
  BY DEF Both, BatchInv, IInv
<1>1. CASE (ParentCancel \/ Return) /\ UNCHANGED batch
  BY <1>t, <1>1, QuietKeeps DEF ParentCancel, Return, BatchTypeOK
<1>2. CASE ExecFails \/ Post \/ LoseRace
  <2>1. outcome' \in Error \cup {Timeout, "ok", None}
    BY <1>t, <1>2, Constants DEF ExecFails, Post, LoseRace, TypeOK
  <2>2. UNCHANGED <<vars, settings, closures, history>>
    BY <1>2 DEF ExecFails, Post, LoseRace
  <2>3. UNCHANGED <<out, pc, held, firstErr>>
    BY <2>2 DEF vars
  <2> QED
    BY <2>1, <2>2, <2>3, QuietKeeps
<1>3. ASSUME NEW w \in Worker, Drive(w) PROVE BatchInv'
  <2>1. /\ UNCHANGED <<settings, closures, outcome, history, out>>
        /\ pc[w] # "busy"
        /\ \E p \in {"exited", "enter", "claim"} : pc' = [pc EXCEPT ![w] = p]
        /\ \A v \in Worker : v # w => held'[v] = held[v]
        /\ firstErr' \in {firstErr, Aborted}
    BY <1>t, <1>3 DEF Drive, SeqNext, LoopCheck, Claim, TypeOK
  <2>2. \A v \in Worker : /\ pc'[v] = "busy" <=> pc[v] = "busy"
                          /\ pc[v] = "busy" => held'[v] = held[v]
    BY <1>t, <2>1 DEF TypeOK
  <2>3. outcome' \in Error \cup {Timeout, "ok", None}
    BY <1>t, <2>1 DEF BatchTypeOK
  <2> QED
    BY <2>1, <2>2, <2>3, QuietKeeps
<1>4. ASSUME NEW w \in Worker, EnterItem(w), Cancelled PROVE BatchInv'
  <2>1. /\ UNCHANGED <<settings, closures, outcome, history, out, held>>
        /\ pc[w] = "enter" /\ pc' = [pc EXCEPT ![w] = "exited"]
        /\ firstErr' \in {firstErr, Aborted}
    BY <1>4
    DEF EnterItem, RaceEnter, Fail, FirstError, closures, history
  <2>2. \A v \in Worker : pc'[v] = "busy" <=> pc[v] = "busy"
    BY <1>t, <2>1 DEF TypeOK
  <2>3. outcome' \in Error \cup {Timeout, "ok", None}
    BY <1>t, <2>1 DEF BatchTypeOK
  <2> QED
    BY <2>1, <2>2, <2>3, QuietKeeps
<1> QED
  BY <1>1, <1>2, <1>3, <1>4

\* Every step keeps the two invariants.
LEMMA BatchStepKeeps == Both /\ [BatchNext]_bvars => Both'
<1> SUFFICES ASSUME Both, [BatchNext]_bvars PROVE Both'
  OBVIOUS
<1>1. IInv'
  BY StepIsMapperStep, StepKeepsIInv DEF Both
<1>2. CASE UNCHANGED bvars \/ BatchReturned
  <2>1. UNCHANGED <<vars, settings, closures, outcome, history>>
    BY <1>2 DEF bvars, batch, BatchReturned
  <2>2. UNCHANGED <<out, pc, held, firstErr>>
    BY <2>1 DEF vars
  <2>3. outcome' \in Error \cup {Timeout, "ok", None}
    BY <2>1 DEF Both, BatchInv, BatchTypeOK
  <2>4. BatchInv'
    BY <2>1, <2>2, <2>3, QuietKeeps
  <2> QED
    BY <1>1, <2>4 DEF Both
<1>3. ASSUME NEW w \in Worker, EnterItem(w) PROVE BatchInv'
  BY <1>3, QuietStepsKeep, EnterKeeps
<1>4. ASSUME NEW w \in Worker, NEW o \in Outcome, loop[w].at # "done", Resumes(w, o)
      PROVE  BatchInv'
  BY <1>4, ContinueKeeps, DoneKeeps
<1>5. ASSUME NEW w \in Worker, ItemBody(w) \/ RetryHook(w) \/ WaitOver(w)
      PROVE  BatchInv'
  BY <1>4, <1>5 DEF ItemBody, RetryHook, WaitOver, Outcome
<1>6. CASE BatchNext
  <2>1. BatchInv'
    BY <1>2, <1>3, <1>5, <1>6, QuietStepsKeep, ErrorHookKeeps, DroppedKeeps
    DEF BatchNext, Mapper, Both
  <2> QED
    BY <1>1, <2>1 DEF Both
<1> QED
  BY <1>2, <1>6

--------------------------------------------------------------------------------
\* The state of a batch node stays well formed, and its closures, histories and
\* null slots stay in step with the mapper (BatchNode.tla, BatchInv).
THEOREM BatchInvariance == BatchSpec => [](IInv /\ BatchInv)
<1>1. BatchInit => Both
  BY BatchInitEstablishes
<1>2. Both /\ [BatchNext]_bvars => Both'
  BY BatchStepKeeps
<1>3. Both => IInv /\ BatchInv
  BY DEF Both
<1> QED
  BY <1>1, <1>2, <1>3, PTL DEF BatchSpec

\* The state of the closures, the null slots and the histories has its type
\* (node.rs 148-189).
THEOREM BatchTyped == BatchSpec => []BatchTypeOK
<1>1. IInv /\ BatchInv => BatchTypeOK
  BY DEF BatchInv
<1> QED
  BY <1>1, BatchInvariance, PTL

\* A batch node uses the mapper as the mapper expects to be used, so that every
\* theorem about RunParallel is one about batch nodes (node.rs 148-189).
THEOREM Composition == BatchSpec => UsesMapper
<1>1. BatchInit => Init
  BY DEF BatchInit
<1>2. Both /\ [BatchNext]_bvars => [Next]_vars
  BY StepIsMapperStep
<1>3. BatchInit => Both
  BY BatchInitEstablishes
<1>4. Both /\ [BatchNext]_bvars => Both'
  BY BatchStepKeeps
<1> QED
  BY <1>1, <1>2, <1>3, <1>4, PTL DEF BatchSpec, UsesMapper, Spec

\* A batch node that succeeds accounts for every item, and each that failed was
\* put to the on_error hooks (node.rs 155-189).
THEOREM EveryItemAccounted == BatchSpec => []OkAccountsForEveryItem
<1>1. IInv /\ BatchInv => OkAccountsForEveryItem
  <2> SUFFICES ASSUME IInv, BatchInv, status = "ok" PROVE OkAccountsForEveryItem
    BY DEF OkAccountsForEveryItem
  <2>1. firstErr = None /\ \A w \in Worker : pc[w] = "exited"
    BY DEF IInv, ReturnIsFinal
  <2>2. \A w \in Worker : hook[w] = 0
    BY <2>1 DEF BatchInv, ClosureMatches
  <2>3. \A i \in Item : i \in nulls <=> i \in lost
    BY <2>1, <2>2 DEF BatchInv, LostMatches
  <2>4. ASSUME NEW i \in 0 .. n - 1
        PROVE  \/ out[i] = i /\ (i \in nulls <=> i \in lost)
               \/ parent /\ out[i] = None /\ attempts[i] = 0
    <3>1. i \in Item
      BY RunParallelAssumption DEF IInv, TypeOK, Item
    <3>2. out[i] = i \/ attempts[i] = 0
      BY <2>1, <3>1 DEF BatchInv, ItemsMatch
    <3>3. out[i] = i \/ out[i] = None
      BY <3>1 DEF IInv, SlotsFilled
    <3>4. out[i] = i \/ parent
      BY IInvComplete DEF CompleteUnlessCancelled
    <3> QED
      BY <2>3, <3>1, <3>2, <3>3, <3>4
  <2>5. lost \subseteq nulls
    BY <2>1, <2>2 DEF BatchInv, LostMatches
  <2>6. (failFast => lost = {}) /\ (HookCount > 0 => lost \subseteq reported)
    BY <2>5 DEF BatchInv, LostMatches
  <2> QED
    BY <2>4, <2>6 DEF OkAccountsForEveryItem
<1> QED
  BY <1>1, BatchInvariance, PTL

\* The retry loops of the workers count for their own items (node.rs 156-166,
\* internal.rs 180-214).
THEOREM RetryBudget == BatchSpec => []RetryBudgetPerItem
<1>1. IInv /\ BatchInv => RetryBudgetPerItem
  <2> SUFFICES ASSUME BatchInv PROVE RetryBudgetPerItem
    OBVIOUS
  <2>1. \A i \in Item : attempts[i] <= maxRetries + 1
    BY DEF BatchInv, ItemsMatch
  <2>2. ASSUME NEW w \in Worker, loop[w].at \in {"attempt", "fallback"}
        PROVE  /\ \A h \in Hook : announced[held[w]][h] + 1 = attempts[held[w]]
               /\ loop[w].at = "fallback" => attempts[held[w]] = maxRetries + 1
    BY <2>2 DEF BatchInv, LoopMatches, LoopStands
  <2> QED
    BY <2>1, <2>2 DEF RetryBudgetPerItem
<1> QED
  BY <1>1, BatchInvariance, PTL

\* Without fail_fast only a cancel, an Aborted of user code or an on_error hook
\* stops the other items (node.rs 167-176).
THEOREM SettledRunsOn == BatchSpec => []SettledStopsOnlyForHooks
<1>1. IInv /\ BatchInv => SettledStopsOnlyForHooks
  BY DEF BatchInv
<1> QED
  BY <1>1, BatchInvariance, PTL

================================================================================
