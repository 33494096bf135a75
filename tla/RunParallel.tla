------------------------------ MODULE RunParallel ------------------------------
(***************************************************************************)
(* The bounded-parallel mapper `run_parallel` of src/internal.rs, with the  *)
(* two helpers it is built from (`link_signal`, `race_abort`).  It is the   *)
(* engine under batch nodes, parallel BatchFlows and ForkJoin.              *)
(*                                                                         *)
(* One call maps an asynchronous closure `f` over n items.  All workers are *)
(* futures of ONE task (`join_all`), so a worker can be overtaken by a      *)
(* sibling only where it awaits: `polling` names the worker whose poll is   *)
(* under way, 0 when the task is suspended.  The parent token is cancelled  *)
(* from outside the task (another thread, a timer) and therefore between    *)
(* any two steps.                                                           *)
(*                                                                         *)
(* The closure is external: once polled it may stay pending for ever,       *)
(* return a value, or return an error (FlowError::Aborted included).  The   *)
(* value of item i is i itself, which is all that order preservation needs. *)
(***************************************************************************)
EXTENDS Naturals, FiniteSets, FlowErrors

CONSTANTS
  MaxItems,        \* bound on the number of items of a call
  MaxConcurrency   \* bound on the `concurrency` argument

ASSUME RunParallelAssumption ==
  /\ MaxItems \in Nat
  /\ MaxConcurrency \in Nat
  /\ None \notin Nat

VARIABLES
  n,            \* items.len()
  concurrency,  \* the `concurrency` argument
  parent,       \* the parent token is cancelled
  linked,       \* the linked child token was cancelled directly
  cursor,       \* next index to hand out
  out,          \* one slot per item
  firstErr,     \* first_err; in sequential mode, the error `?` returns
  pc,           \* where each worker's loop stands
  held,         \* the index each worker claimed last, None before the first
  polling,      \* the worker being polled, 0 for none
  status,       \* "running", or how the call returned: "ok" or "err"
  raised        \* history: the errors the closures returned themselves

vars == <<n, concurrency, parent, linked, cursor, out, firstErr, pc, held,
          polling, status, raised>>

Item   == 0 .. MaxItems - 1
Worker == 1 .. MaxConcurrency + 1  \* concurrency 0 still has one worker
Error  == UserError

Sequential == concurrency <= 1

\* Mutant: one worker too many.
WorkerTooMany == IF n = 0 THEN 0 ELSE IF concurrency < n THEN concurrency + 1 ELSE n

\* An empty call returns before it makes a worker.
WorkerCount == IF n = 0 THEN 0
               ELSE IF Sequential THEN 1
               ELSE IF concurrency < n THEN concurrency ELSE n

\* A child token is cancelled when its parent is, or directly.
Cancelled == parent \/ linked

TypeOK ==
  /\ n \in 0 .. MaxItems
  /\ concurrency \in 0 .. MaxConcurrency
  /\ parent \in BOOLEAN
  /\ linked \in BOOLEAN
  /\ cursor \in Nat
  /\ out \in [Item -> Item \cup {None}]
  /\ firstErr \in Error \cup {None}
  /\ pc \in [Worker -> {"loop", "claim", "enter", "busy", "exited"}]
  /\ held \in [Worker -> Item \cup {None}]
  /\ polling \in Worker \cup {0}
  /\ status \in {"running", "ok", "err"}
  /\ raised \subseteq Error

Init ==
  /\ n \in 0 .. MaxItems
  /\ concurrency \in 0 .. MaxConcurrency
  /\ parent \in BOOLEAN
  /\ linked = FALSE
  /\ cursor = 0
  /\ out = [i \in Item |-> None]
  /\ firstErr = None
  /\ pc = [w \in Worker |-> IF w <= WorkerCount THEN "loop" ELSE "exited"]
  /\ held = [w \in Worker |-> None]
  /\ polling = 0
  /\ status = "running"
  /\ raised = {}

--------------------------------------------------------------------------------
\* The parent token is cancelled from outside; it outlives the call.
ParentCancel ==
  /\ ~parent
  /\ parent' = TRUE
  /\ UNCHANGED <<n, concurrency, linked, cursor, out, firstErr, pc, held,
                 polling, status, raised>>

\* Worker w takes a step: either it is being polled, or the task polls it now.
Polled(w) == polling \in {0, w}

\* Head of the sequential `for`: the iterator first, then the cancel check.
SeqNext(w) ==
  /\ Polled(w) /\ Sequential
  /\ pc[w] = "loop"
  /\ \/ /\ cursor < n /\ ~Cancelled
        /\ held' = [held EXCEPT ![w] = cursor]
        /\ cursor' = cursor + 1
        /\ pc' = [pc EXCEPT ![w] = "enter"]
        /\ polling' = w
        /\ UNCHANGED firstErr
     \/ /\ cursor >= n \/ Cancelled
        /\ firstErr' = IF cursor < n THEN Aborted ELSE firstErr
        /\ pc' = [pc EXCEPT ![w] = "exited"]
        /\ polling' = 0
        /\ UNCHANGED <<cursor, held>>
  /\ UNCHANGED <<n, concurrency, parent, linked, out, status, raised>>

\* Mutant: `continue` where the code has `break`.
SpinOnCancel(w) ==
  /\ Polled(w) /\ ~Sequential
  /\ pc[w] = "loop"
  /\ pc' = [pc EXCEPT ![w] = IF Cancelled THEN "loop" ELSE "claim"]
  /\ polling' = IF Cancelled THEN 0 ELSE w
  /\ UNCHANGED <<n, concurrency, parent, linked, cursor, out, firstErr, held,
                 status, raised>>

\* Head of a parallel worker's `loop`: a cancelled worker leaves in silence.
LoopCheck(w) ==
  /\ Polled(w) /\ ~Sequential
  /\ pc[w] = "loop"
  /\ pc' = [pc EXCEPT ![w] = IF Cancelled THEN "exited" ELSE "claim"]
  /\ polling' = IF Cancelled THEN 0 ELSE w
  /\ UNCHANGED <<n, concurrency, parent, linked, cursor, out, firstErr, held,
                 status, raised>>

\* Mutant: a load where the code has fetch_add.
CursorStays == cursor

\* The cursor after fetch_add(1).
NextCursor == cursor + 1

\* Mutants: the bound check one too late, one too early.
ExhaustedLate  == cursor > n
ExhaustedEarly == cursor + 1 >= n

Exhausted == cursor >= n

\* cursor.fetch_add(1), and exit when the items are used up.
Claim(w) ==
  /\ Polled(w)
  /\ pc[w] = "claim"
  /\ cursor' = NextCursor
  /\ \/ /\ ~Exhausted
        /\ held' = [held EXCEPT ![w] = cursor]
        /\ pc' = [pc EXCEPT ![w] = "enter"]
        /\ polling' = w
     \/ /\ Exhausted
        /\ pc' = [pc EXCEPT ![w] = "exited"]
        /\ polling' = 0
        /\ UNCHANGED held
  /\ UNCHANGED <<n, concurrency, parent, linked, out, firstErr, status, raised>>

\* Mutant: the last error is kept.
LastError(e) == e

\* `if fe.is_none()`: later errors, the Aborted of the siblings that the first
\* one cancels among them, are dropped.
FirstError(e) == IF firstErr = None THEN e ELSE firstErr

\* Mutant: linked.cancel() is left out.
SiblingsRunOn == linked

\* linked.cancel(); in sequential mode there is no sibling to cancel.
SiblingsStop == linked \/ ~Sequential

\* The error arm: record the error, cancel the siblings, leave the loop (in
\* sequential mode by `?`).
Fail(w, e) ==
  /\ firstErr' = FirstError(e)
  /\ linked' = SiblingsStop
  /\ pc' = [pc EXCEPT ![w] = "exited"]
  /\ polling' = 0

\* race_abort's guard: a token that is already cancelled wins before the
\* closure is polled at all; otherwise the closure gets its first poll.
RaceEnter(w) ==
  /\ Polled(w)
  /\ pc[w] = "enter"
  /\ \/ /\ Cancelled
        /\ Fail(w, Aborted)
     \/ /\ ~Cancelled
        /\ pc' = [pc EXCEPT ![w] = "busy"]
        /\ polling' = 0
        /\ UNCHANGED <<linked, firstErr>>
  /\ UNCHANGED <<n, concurrency, parent, cursor, out, held, status, raised>>

\* The closure is ready with a value: store it and go on with the loop.
SettleOk(w) ==
  /\ Polled(w)
  /\ pc[w] = "busy"
  /\ out' = [out EXCEPT ![held[w]] = held[w]]
  /\ pc' = [pc EXCEPT ![w] = "loop"]
  /\ polling' = w
  /\ UNCHANGED <<n, concurrency, parent, linked, cursor, firstErr, held,
                 status, raised>>

\* The closure is ready with an error (it may return FlowError::Aborted too).
SettleErr(w, e) ==
  /\ Polled(w)
  /\ pc[w] = "busy"
  /\ Fail(w, e)
  /\ raised' = raised \cup {e}
  /\ UNCHANGED <<n, concurrency, parent, cursor, out, held, status>>

\* The closure is pending and the token cancelled: the closure is dropped.
Interrupt(w) ==
  /\ Polled(w)
  /\ pc[w] = "busy"
  /\ Cancelled
  /\ Fail(w, Aborted)
  /\ UNCHANGED <<n, concurrency, parent, cursor, out, held, status, raised>>

\* Every worker has left its loop (an empty call has none): the first error if
\* there is one, else the slots.
Return ==
  /\ status = "running"
  /\ \A w \in Worker : pc[w] = "exited"
  /\ status' = IF firstErr # None THEN "err" ELSE "ok"
  /\ UNCHANGED <<n, concurrency, parent, linked, cursor, out, firstErr, pc,
                 held, polling, raised>>

\* The call has returned.
Returned == status # "running" /\ UNCHANGED vars

Step(w) == SeqNext(w) \/ LoopCheck(w) \/ Claim(w) \/ RaceEnter(w)

Settle(w) == SettleOk(w) \/ \E e \in Error : SettleErr(w, e)

Next ==
  \/ ParentCancel
  \/ \E w \in Worker : Step(w) \/ Settle(w) \/ Interrupt(w)
  \/ Return
  \/ Returned

Spec == Init /\ [][Next]_vars

(***************************************************************************)
(* The executor polls a woken task, so the engine's own steps are fair.     *)
(* Closures owe nothing: EngineFair lets each of them hang for ever.        *)
(* ClosureFair, that every closure settles, is a premise in Returns.        *)
(***************************************************************************)
EngineFair ==
  /\ WF_vars(Return)
  /\ \A w \in Worker : WF_vars(Step(w)) /\ WF_vars(Interrupt(w))

ClosureFair == \A w \in Worker : WF_vars(Settle(w))

SpecEngineFair == Spec /\ EngineFair

--------------------------------------------------------------------------------
(***************************************************************************)
(* Properties.                                                              *)
(***************************************************************************)

\* A call that returns Ok without having been cancelled returns the value of
\* every item in the item's own slot: no item is lost between the cursor and
\* the slots, none is stored in another one's place ("preserving order",
\* internal.rs 70-71, and the error sinks 126-134).
CompleteUnlessCancelled ==
  status = "ok" /\ ~parent => \A i \in 0 .. n - 1 : out[i] = i

\* No two workers ever work on the same item, and none works on an item that
\* already has its value: the closure runs at most once per item (the shared
\* cursor, internal.rs 120-125).
Working(w) == pc[w] \in {"enter", "busy"}

ExclusiveClaim ==
  \A v, w \in Worker :
    Working(v) =>
      /\ held[v] \in 0 .. n - 1
      /\ out[held[v]] = None
      /\ Working(w) /\ held[w] = held[v] => w = v

\* The error that is reported has a cause outside the engine: a closure
\* returned it, or it is Aborted and the parent was cancelled.  The Aborted
\* of a sibling that fail-fast cancelled never takes the failure's place, and a
\* call that a closure failed cannot return Ok (internal.rs 130-147).
ErrorHasCause ==
  /\ firstErr # None => firstErr \in raised \/ (firstErr = Aborted /\ parent)
  /\ status = "err" => firstErr # None
  /\ status = "ok" => raised = {}

\* Once an item has failed, no closure is polled for the first time: the
\* items that had not begun never begin ("on any failure the linked token is
\* cancelled so siblings stop", internal.rs 72-73).
StopAfterFailure ==
  [][firstErr # None =>
       \A w \in Worker : pc'[w] = "busy" => pc[w] = "busy"]_vars

\* A cancelled parent or a failed item ends the call even when the closures
\* in flight would hang for ever, each of them is dropped (race_abort); and a
\* call whose closures all settle returns in any case.
Returns ==
  /\ (Cancelled \/ firstErr # None) ~> status # "running"
  /\ ClosureFair => <>(status # "running")

--------------------------------------------------------------------------------
(***************************************************************************)
(* run_parallel implements the abstract map: an item is in flight while its *)
(* closure is being polled, the slots are the results, the first error is   *)
(* the verdict.                                                            *)
(***************************************************************************)
Map == INSTANCE ParallelMap WITH
  Size      <- Cardinality,
  Slot      <- Item,
  limit     <- IF Sequential THEN 1 ELSE concurrency,
  cancelled <- parent,
  active    <- {held[w] : w \in {v \in Worker : pc[v] = "busy"}},
  results   <- out,
  verdict   <- firstErr

\* Every step of the workers is a step the callers of the mapper may expect:
\* no more than `concurrency` items in flight, begun in order, none begun after
\* a failure or a cancel, nothing in flight once the call has returned.
ImplementsMap == Map!MapSpec

================================================================================
