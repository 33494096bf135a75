------------------------------- MODULE Retrying -------------------------------
(***************************************************************************)
(* The shared retry loop `retrying` of src/internal.rs as operators on its  *)
(* state, a record: a single node runs one such loop, a batch node runs one *)
(* for each item.  The loop is suspended in one of four places: an attempt  *)
(* (the call to `run`), an on_retry hook, the pause before the next attempt *)
(* or the fallback.  What it awaits there settles with an outcome, and      *)
(* Resume gives the state of the loop at its next suspension.               *)
(***************************************************************************)
EXTENDS Naturals, FlowErrors

CONSTANT
  HookCount  \* number of registered hook sets

ASSUME RetryingAssumption == HookCount \in Nat

Hook == 1 .. HookCount

\* The loop's state: max and waits are max_retries and `wait_ms > 0`, error is
\* last_error, result what the loop returned.
RetryState(maxes) ==
  [at      : {"attempt", "on_retry", "wait", "fallback", "done"},
   attempt : Nat,
   hook    : Nat,
   max     : maxes,
   waits   : BOOLEAN,
   error   : Failures \cup {None},
   result  : Outcome \cup {None}]

StartRetrying(max, waits) ==
  [at |-> "attempt", attempt |-> 0, hook |-> 0, max |-> max, waits |-> waits,
   error |-> None, result |-> None]

Finished(r, o) == [r EXCEPT !.at = "done", !.result = o]

\* `for attempt in 0..=max_retries` goes round.
Again(r) == [r EXCEPT !.at = "attempt", !.attempt = r.attempt + 1]

\* fire_on_retry calls the hooks in order; then the pause, if there is one.
TellHook(r, h) ==
  IF h <= HookCount THEN [r EXCEPT !.at = "on_retry", !.hook = h]
  ELSE IF r.waits THEN [r EXCEPT !.at = "wait"]
  ELSE Again(r)

\* Mutant: one attempt more.
IsLastLate(r) == r.attempt > r.max

\* `attempt == max_retries`: the first attempt is not a retry.
IsLast(r) == r.attempt = r.max

\* An attempt failed, and not because of a cancel.
Failed(r, e) ==
  LET s == [r EXCEPT !.error = e]
  IN  IF IsLast(r) THEN [s EXCEPT !.at = "fallback"] ELSE TellHook(s, 1)

\* Mutant: a cancel is retried like any other error.
OnlyOk(o) == o = "ok"

\* The outcomes of an attempt that end the loop at once.
NeverRetried(o) == o \in {"ok", Aborted}

\* What the loop was waiting for settles with outcome o (a pause with "ok").
Resume(r, o) ==
  CASE r.at = "attempt"  -> IF NeverRetried(o) THEN Finished(r, o)
                                              ELSE Failed(r, o)
    [] r.at = "on_retry" -> IF o = "ok" THEN TellHook(r, r.hook + 1)
                                        ELSE Finished(r, o)
    [] r.at = "wait"     -> Again(r)
    [] r.at = "fallback" -> Finished(r, o)

================================================================================
