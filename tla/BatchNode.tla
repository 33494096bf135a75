------------------------------- MODULE BatchNode -------------------------------
(***************************************************************************)
(* What a batch node does inside the race of its lifecycle once prep has    *)
(* returned the items: the batch branch of `exec_with_retry` (src/node.rs), *)
(* which maps a retry loop (Retrying) over the items with `run_parallel`    *)
(* (RunParallel), and then post.                                            *)
(*                                                                         *)
(* The closure of an item is the retry loop around exec_item and, when that *)
(* fails for good and fail_fast is off, the on_error hooks; all of it can   *)
(* be dropped by the mapper.  The whole can be dropped by the race of the   *)
(* lifecycle, which the timer or the token wins.                            *)
(***************************************************************************)
EXTENDS RunParallel, Retrying

CONSTANTS
  MaxRetries,  \* bound on max_retries
  Timeout      \* FlowError::Timeout

ASSUME BatchNodeAssumption ==
  /\ MaxRetries \in Nat
  /\ Timeout \notin Error \cup {"ok", None}

VARIABLES
  failFast,    \* fail_fast
  maxRetries,  \* max_retries
  waits,       \* wait_ms > 0
  loop,        \* the retry loop of the item each worker is busy with, or a
               \* finished one
  hook,        \* the on_error hook its closure awaits, 0 for none
  nulls,       \* the items whose slot holds Null in the place of a value
  outcome      \* how the race ended: "ok", an error, None before

\* History.
VARIABLES
  attempts,    \* calls of exec_item, per item
  announced,   \* on_retry calls that settled, per item and hook
  lost,        \* the items whose retry loop returned an error, Aborted apart
  reported,    \* the items that were put to on_error
  refused      \* the errors that on_error hooks raised

settings == <<failFast, maxRetries, waits>>
closures == <<loop, hook, nulls>>
history  == <<attempts, announced, lost, reported, refused>>
batch    == <<settings, closures, outcome, history>>
bvars    == <<vars, batch>>

\* No retry loop is running.
NoLoop == Finished(StartRetrying(0, FALSE), None)

BatchTypeOK ==
  /\ failFast \in BOOLEAN /\ waits \in BOOLEAN
  /\ maxRetries \in 0 .. MaxRetries
  /\ loop \in [Worker -> RetryState(0 .. MaxRetries)]
  /\ hook \in [Worker -> 0 .. HookCount]
  /\ nulls \subseteq Item
  /\ outcome \in Error \cup {Timeout, "ok", None}
  /\ attempts \in [Item -> Nat]
  /\ announced \in [Item -> [Hook -> Nat]]
  /\ lost \subseteq Item
  /\ reported \subseteq Item
  /\ refused \subseteq Error

\* race_work let the node in with a live token; it may have been cancelled in
\* prep, which is a cancel before the first step here.
BatchInit ==
  /\ Init
  /\ ~parent
  /\ failFast \in BOOLEAN
  /\ maxRetries \in 0 .. MaxRetries
  /\ waits \in BOOLEAN
  /\ loop = [w \in Worker |-> NoLoop]
  /\ hook = [w \in Worker |-> 0]
  /\ nulls = {}
  /\ outcome = None
  /\ attempts = [i \in Item |-> 0]
  /\ announced = [i \in Item |-> [h \in Hook |-> 0]]
  /\ lost = {}
  /\ reported = {}
  /\ refused = {}

--------------------------------------------------------------------------------
\* The mapper's steps that touch no closure.
Drive(w) ==
  /\ SeqNext(w) \/ LoopCheck(w) \/ Claim(w)
  /\ UNCHANGED batch

\* The closure's first poll reaches the first exec_item; a cancelled token
\* keeps it from being polled.
EnterItem(w) ==
  /\ RaceEnter(w)
  /\ IF Cancelled
     THEN UNCHANGED <<loop, attempts>>
     ELSE /\ loop' = [loop EXCEPT ![w] = StartRetrying(maxRetries, waits)]
          /\ attempts' = [attempts EXCEPT ![held[w]] = @ + 1]
  /\ UNCHANGED <<settings, hook, nulls, outcome, announced, lost, reported, refused>>

\* The closure has returned, or is dropped.
Freed(w) ==
  /\ loop' = [loop EXCEPT ![w] = NoLoop]
  /\ hook' = [hook EXCEPT ![w] = 0]

\* Mutant: the worker leaves its loop with the failed item.
GiveUp(w) ==
  /\ out' = [out EXCEPT ![held[w]] = held[w]]
  /\ pc' = [pc EXCEPT ![w] = "exited"]
  /\ nulls' = nulls \cup {held[w]}
  /\ Freed(w)
  /\ UNCHANGED <<n, concurrency, parent, linked, cursor, firstErr, held,
                 polling, status, raised>>

\* "allSettled-style: failed item -> null slot": to the mapper, a value.
NullSlot(w) ==
  /\ SettleOk(w)
  /\ Freed(w)
  /\ nulls' = nulls \cup {held[w]}

\* Mutant: a hook too many.
HooksLeftLate(h) == h <= HookCount + 1

HooksLeft(h) == h <= HookCount

\* The on_error hooks from the h-th on; when none decides, a null slot.
AskOnError(w, h) ==
  \/ /\ HooksLeft(h)
     /\ hook' = [hook EXCEPT ![w] = h]
     /\ loop' = [loop EXCEPT ![w] = NoLoop]
     /\ UNCHANGED <<vars, nulls>>
  \/ ~HooksLeft(h) /\ NullSlot(w)

\* Mutants: Aborted is settled like other errors; fail_fast is not looked at.
AbortSettled(e)     == failFast
AlwaysPropagated(e) == TRUE

\* The errors of an item that the closure returns to the mapper.
Propagated(e) == e = Aborted \/ failFast

\* What the retry loop of w's item waits for settles with o.
Resumes(w, o) ==
  /\ pc[w] = "busy" /\ Polled(w) /\ hook[w] = 0
  /\ LET i == held[w]
         r == Resume(loop[w], o)
         failed == r.at = "done" /\ r.result # "ok"
     IN  /\ attempts' = IF r.at = "attempt" THEN [attempts EXCEPT ![i] = @ + 1]
                        ELSE attempts
         /\ announced' = IF loop[w].at = "on_retry"
                         THEN [announced EXCEPT ![i][loop[w].hook] = @ + 1]
                         ELSE announced
         /\ lost' = IF failed /\ r.result # Aborted THEN lost \cup {i} ELSE lost
         /\ \/ /\ r.at # "done"
               /\ loop' = [loop EXCEPT ![w] = r]
               /\ UNCHANGED <<vars, hook, nulls>>
            \/ /\ r.at = "done" /\ ~failed
               /\ SettleOk(w) /\ Freed(w)
               /\ UNCHANGED nulls
            \/ /\ failed /\ Propagated(r.result)
               /\ SettleErr(w, r.result) /\ Freed(w)
               /\ UNCHANGED nulls
            \/ failed /\ ~Propagated(r.result) /\ AskOnError(w, 1)
  /\ UNCHANGED <<settings, outcome, reported, refused>>

\* A body (exec_item, exec_item_fallback) or an on_retry hook answers; the
\* pause is over.
ItemBody(w)  == loop[w].at \in {"attempt", "fallback"}
                /\ \E o \in Outcome : Resumes(w, o)
RetryHook(w) == loop[w].at = "on_retry"
                /\ \E o \in Outcome : Resumes(w, o)
WaitOver(w)  == loop[w].at = "wait" /\ Resumes(w, "ok")

\* An on_error hook answers: with nothing, with a policy (which ends the
\* fan-out and is not followed), or with an error, which the closure returns.
ErrorHook(w) ==
  /\ pc[w] = "busy" /\ Polled(w) /\ hook[w] # 0
  /\ reported' = reported \cup {held[w]}
  /\ \/ AskOnError(w, hook[w] + 1) /\ UNCHANGED refused
     \/ NullSlot(w) /\ UNCHANGED refused
     \/ \E e \in Error : /\ SettleErr(w, e) /\ Freed(w)
                         /\ refused' = refused \cup {e}
                         /\ UNCHANGED nulls
  /\ UNCHANGED <<settings, outcome, attempts, announced, lost>>

\* Mutant: only the attempts race the token.
DroppedInAttempt(w) ==
  /\ loop[w].at = "attempt"
  /\ Interrupt(w)
  /\ Freed(w)
  /\ UNCHANGED <<settings, nulls, outcome, history>>

\* The mapper drops a closure where it stands.
Dropped(w) ==
  /\ Interrupt(w)
  /\ Freed(w)
  /\ UNCHANGED <<settings, nulls, outcome, history>>

--------------------------------------------------------------------------------
\* exec fails with the mapper's error, post is not called.
ExecFails ==
  /\ status = "err"
  /\ outcome' = firstErr
  /\ UNCHANGED <<vars, settings, closures, history>>

\* exec returned the array of slots, the empty ones as nulls; post settles.
Post ==
  /\ status = "ok"
  /\ outcome' \in Error \cup {"ok"}
  /\ UNCHANGED <<vars, settings, closures, history>>

\* Every worker was polled and some closure is pending, or post is.
Pending ==
  \/ /\ status = "running" /\ polling = 0
     /\ \A w \in Worker : pc[w] \in {"busy", "exited"}
     /\ \E w \in Worker : pc[w] = "busy"
  \/ status = "ok"

\* The timer, if the node has one, may fire at any time.
LoseRace ==
  /\ Pending
  /\ \/ outcome' = Timeout
     \/ parent /\ outcome' = Aborted
  /\ UNCHANGED <<vars, settings, closures, history>>

Mapper(w) == Drive(w) \/ EnterItem(w) \/ WaitOver(w)

BatchReturned == outcome # None /\ UNCHANGED bvars

BatchNext ==
  \/ /\ outcome = None
     /\ \/ (ParentCancel \/ Return) /\ UNCHANGED batch
        \/ \E w \in Worker : \/ Mapper(w) \/ Dropped(w)
                             \/ ItemBody(w) \/ RetryHook(w) \/ ErrorHook(w)
        \/ ExecFails \/ Post \/ LoseRace
  \/ BatchReturned

BatchSpec == BatchInit /\ [][BatchNext]_bvars

\* The engine is polled; exec_item, the hooks and post may hang.
BatchFair ==
  /\ WF_bvars(outcome = None /\ (ExecFails \/ (Return /\ UNCHANGED batch)))
  /\ \A w \in Worker : /\ WF_bvars(outcome = None /\ Mapper(w))
                       /\ WF_bvars(outcome = None /\ Dropped(w))

BatchSpecFair == BatchSpec /\ BatchFair

--------------------------------------------------------------------------------
(***************************************************************************)
(* Properties.                                                              *)
(***************************************************************************)

\* An Ok result accounts for every item: it has a value; or it has a null and
\* its retry loop failed, and not by Aborted; or the node was cancelled before
\* the item was attempted.  No item is left half done, and none is lost in
\* silence: with fail_fast none failed, and without it each that did was put to
\* the on_error hooks ("failed items become null and fire on_error", README.md
\* 171; node.rs 155-189).
OkAccountsForEveryItem ==
  status = "ok" =>
    /\ \A i \in 0 .. n - 1 :
         \/ out[i] = i /\ (i \in nulls <=> i \in lost)
         \/ parent /\ out[i] = None /\ attempts[i] = 0
    /\ failFast => lost = {}
    /\ HookCount > 0 => lost \subseteq reported

\* Retries are counted per item, whatever its neighbours in the other workers
\* do: no item has more attempts than its budget, each of them but the first is
\* announced once to each hook, and the fallback has the whole budget behind it.
RetryBudgetPerItem ==
  /\ \A i \in Item : attempts[i] <= maxRetries + 1
  /\ \A w \in Worker : loop[w].at \in {"attempt", "fallback"} =>
       /\ \A h \in Hook : announced[held[w]][h] + 1 = attempts[held[w]]
       /\ loop[w].at = "fallback" => attempts[held[w]] = maxRetries + 1

\* Without fail_fast "the rest finish" (README.md 171) unless the node is
\* cancelled, user code raises Aborted, or an on_error hook itself fails: that
\* hook's error then stops the other items after all (node.rs 176).
SettledStopsOnlyForHooks ==
  ~failFast /\ firstErr # None => firstErr = Aborted \/ firstErr \in refused

\* The closures keep to what the mapper expects of them, so that what holds of
\* RunParallel holds of a batch node.
UsesMapper == Spec

\* A failed item ends a fail_fast node although its siblings hang, in an
\* attempt, in the pause or in a hook.
FailFastReturns == (failFast /\ lost # {}) ~> outcome # None

(***************************************************************************)
(* What the documentation says and the code does not do.                    *)
(***************************************************************************)

\* node.rs 171: "cancel always propagates"; README.md 186: "Cancelling fails
\* the run with FlowError::Aborted, propagated from wherever execution was".
\* A node that succeeds has then worked on all its items.
CancelPropagates ==
  outcome = "ok" => \A i \in 0 .. n - 1 : attempts[i] > 0

================================================================================
