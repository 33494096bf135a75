----------------------------- MODULE NodeLifecycle -----------------------------
(***************************************************************************)
(* One visit of a plain (not batch) node: `run_lifecycle` of src/node.rs    *)
(* with all it awaits, that is the hook fan-outs of src/hooks.rs, the race  *)
(* `race_work` of src/internal.rs against the node's timeout and the run's  *)
(* cancellation token, and inside the race prep, the retry loop (Retrying)  *)
(* and post.                                                                *)
(*                                                                         *)
(* prep, exec, exec_fallback, post and the hooks are user code: each call   *)
(* may stay pending for ever, succeed or fail with any error, Aborted       *)
(* included.  The token is cancelled from outside between any two steps.    *)
(* The timer runs while the race does.  `select!` is biased: work that is   *)
(* ready wins, then the timer, then the token.                              *)
(***************************************************************************)
EXTENDS Retrying

CONSTANTS
  MaxRetries,  \* bound on the max_retries of the node
  Actions,     \* the named actions a hook or post can choose
  Timeout      \* FlowError::Timeout

ASSUME NodeLifecycleAssumption ==
  /\ MaxRetries \in Nat
  /\ None \notin Actions \cup {Timeout}
  /\ Timeout \notin Outcome

VARIABLES
  timed,      \* timeout_ms > 0
  cancelled,  \* the run's token is cancelled
  expired,    \* the node's timer has elapsed
  phase,      \* where the visit stands
  hook,       \* the hook whose call is awaited, in a fan-out
  gate,       \* the gate on_node_start has chosen so far
  skipped,    \* the gate was used
  retry,      \* the retry loop of exec
  error,      \* the error of the race or of a start hook
  action,     \* the action to return
  thrown,     \* the error to return
  result      \* what the visit returned: "ok", an error, None before

\* History: what was called, and who chose the action.
VARIABLES
  begun,      \* the bodies that were called
  heard,      \* how many calls of each hook for each end have settled
  author      \* "gate", "post" or "route"

node == <<timed, cancelled, expired, phase, hook, gate, skipped, retry, error,
          action, thrown, result>>
history == <<begun, heard, author>>
vars == <<node, history>>

Error  == UserError \cup {Timeout}
End    == {"on_node_start", "on_node_end"}
Racing == phase \in {"prep", "exec", "post"}

TypeOK ==
  /\ timed \in BOOLEAN /\ cancelled \in BOOLEAN /\ expired \in BOOLEAN
  /\ phase \in {"on_node_start", "prep", "exec", "post", "on_error",
                "on_node_end", "returned"}
  /\ hook \in 1 .. HookCount + 1
  /\ gate \in Actions \cup {None}
  /\ skipped \in BOOLEAN
  /\ retry \in RetryState(0 .. MaxRetries)
  /\ error \in Error \cup {None}
  /\ action \in Actions \cup {None}
  /\ thrown \in Error \cup {None}
  /\ result \in Error \cup {"ok", None}
  /\ begun \subseteq {"prep", "exec", "fallback", "post"}
  /\ heard \in [End -> [Hook -> Nat]]
  /\ author \in {"gate", "post", "route", None}

Init ==
  /\ timed \in BOOLEAN
  /\ cancelled \in BOOLEAN
  /\ expired = FALSE
  /\ phase = "on_node_start"
  /\ hook = 1
  /\ gate = None
  /\ skipped = FALSE
  /\ \E max \in 0 .. MaxRetries, waits \in BOOLEAN :
       retry = StartRetrying(max, waits)
  /\ error = None
  /\ action = None
  /\ thrown = None
  /\ result = None
  /\ begun = {}
  /\ heard = [end \in End |-> [h \in Hook |-> 0]]
  /\ author = None

--------------------------------------------------------------------------------
\* The token is cancelled, the timer elapses.
Cancel ==
  /\ phase # "returned" /\ ~cancelled
  /\ cancelled' = TRUE
  /\ UNCHANGED <<timed, expired, phase, hook, gate, skipped, retry, error,
                 action, thrown, result, history>>

Expire ==
  /\ Racing /\ timed /\ ~expired
  /\ expired' = TRUE
  /\ UNCHANGED <<timed, cancelled, phase, hook, gate, skipped, retry, error,
                 action, thrown, result, history>>

\* The next hook of a fan-out is reached when the one before has settled.
Hears(end) == heard' = [heard EXCEPT ![end][hook] = @ + 1]
AtHook(p) == phase = p /\ hook <= HookCount
AllTold(p) == phase = p /\ hook > HookCount

\* Ok and Aborted are not put to on_error.
Terminal(e) == e \in {None, Aborted}

\* The `match outcome` after the race: Ok keeps the action, Aborted is
\* terminal, any other error is put to the on_error hooks.
Conclude(e) ==
  /\ hook' = 1
  /\ error' = e
  /\ thrown' = IF e = Aborted THEN e ELSE thrown
  /\ phase' = IF Terminal(e) THEN "on_node_end" ELSE "on_error"

--------------------------------------------------------------------------------
\* Mutant: a gate short-circuits the fan-out, as a route of on_error does.
GateShortCircuits(a) == IF a = None THEN hook + 1 ELSE HookCount + 1

\* The hook that is called after one has answered a: the next one, always.
AfterGate(a) == hook + 1

\* on_node_start: every hook is called, the first gate wins, an error ends it.
StartHook ==
  /\ AtHook("on_node_start")
  /\ Hears("on_node_start")
  /\ \/ \E a \in Actions \cup {None} :
          /\ gate' = IF gate = None THEN a ELSE gate
          /\ hook' = AfterGate(a)
          /\ UNCHANGED <<phase, error, thrown>>
     \/ \E e \in UserError : Conclude(e) /\ UNCHANGED gate
  /\ UNCHANGED <<timed, cancelled, expired, skipped, retry, action, result,
                 begun, author>>

\* Mutant: the select alone is left to notice the token.
EntryUnchecked == FALSE

\* `signal.is_cancelled()` before the select.
EntryRefused == cancelled

\* The gate skips the node; else race_work looks at the token before it polls
\* the work for the first time.
Enter ==
  /\ AllTold("on_node_start")
  /\ \/ /\ gate # None
        /\ skipped' = TRUE
        /\ action' = gate
        /\ author' = "gate"
        /\ Conclude(None)
        /\ UNCHANGED begun
     \/ /\ gate = None /\ EntryRefused
        /\ Conclude(Aborted)
        /\ UNCHANGED <<skipped, action, author, begun>>
     \/ /\ gate = None /\ ~EntryRefused
        /\ phase' = "prep"
        /\ begun' = {"prep"}
        /\ UNCHANGED <<skipped, action, author, hook, error, thrown>>
  /\ UNCHANGED <<timed, cancelled, expired, gate, retry, result, heard>>

Prep ==
  /\ phase = "prep"
  /\ \/ /\ phase' = "exec"
        /\ begun' = begun \cup {"exec"}
        /\ UNCHANGED <<hook, error, thrown>>
     \/ \E e \in UserError : Conclude(e) /\ UNCHANGED begun
  /\ UNCHANGED <<timed, cancelled, expired, gate, skipped, retry, action,
                 result, heard, author>>

\* Mutant: the work goes on in the background after it lost the race.
WorkDetached == phase = "exec" \/ error = Timeout

\* The work is polled by the race only.
WorkPolled == phase = "exec"

\* exec_with_retry: what the retry loop waits for settles.
Exec(r) ==
  /\ WorkPolled
  /\ retry' = r
  /\ \/ /\ r.at # "done"
        /\ begun' = IF r.at = "fallback" THEN begun \cup {"fallback"} ELSE begun
        /\ UNCHANGED <<phase, hook, error, thrown>>
     \/ /\ r.at = "done" /\ r.result = "ok"
        /\ phase' = "post"
        /\ begun' = begun \cup {"post"}
        /\ UNCHANGED <<hook, error, thrown>>
     \/ /\ r.at = "done" /\ r.result # "ok"
        /\ Conclude(r.result)
        /\ UNCHANGED begun
  /\ UNCHANGED <<timed, cancelled, expired, gate, skipped, action, result,
                 heard, author>>

\* Split by whose answer the loop waits for: a body's, a hook's, the timer's.
ExecBody ==
  retry.at \in {"attempt", "fallback"} /\ \E o \in Outcome : Exec(Resume(retry, o))
RetryHook == retry.at = "on_retry" /\ \E o \in Outcome : Exec(Resume(retry, o))
WaitOver  == retry.at = "wait" /\ Exec(Resume(retry, "ok"))

Post ==
  /\ phase = "post"
  /\ \/ /\ \E a \in Actions \cup {None} : action' = a
        /\ author' = "post"
        /\ Conclude(None)
     \/ \E e \in UserError : Conclude(e) /\ UNCHANGED <<action, author>>
  /\ UNCHANGED <<timed, cancelled, expired, gate, skipped, retry, result,
                 begun, heard>>

\* Mutant: only exec is raced, prep and post are awaited.
LoseRaceInExec ==
  /\ phase = "exec"
  /\ \/ expired /\ Conclude(Timeout)
     \/ cancelled /\ ~expired /\ Conclude(Aborted)
  /\ UNCHANGED <<timed, cancelled, expired, gate, skipped, retry, action,
                 result, history>>

\* The work is pending and the race is lost: it is dropped where it stands.
LoseRace ==
  /\ Racing
  /\ \/ expired /\ Conclude(Timeout)
     \/ cancelled /\ ~expired /\ Conclude(Aborted)
  /\ UNCHANGED <<timed, cancelled, expired, gate, skipped, retry, action,
                 result, history>>

--------------------------------------------------------------------------------
\* on_error: the first hook that decides ends the fan-out; a hook's own error
\* replaces the node's.
ErrorHook ==
  /\ AtHook("on_error")
  /\ \/ /\ hook' = hook + 1  \* None
        /\ UNCHANGED <<phase, action, thrown, author>>
     \/ /\ phase' = "on_node_end" /\ hook' = 1
        /\ \/ /\ action' \in Actions  \* ErrorPolicy::Route
              /\ author' = "route"
              /\ UNCHANGED thrown
           \/ /\ thrown' \in {error} \cup UserError  \* Throw, or Err
              /\ UNCHANGED <<action, author>>
  /\ UNCHANGED <<timed, cancelled, expired, gate, skipped, retry, error,
                 result, begun, heard>>

\* Mutant: the error that no hook routes is forgotten.
ErrorForgotten ==
  /\ AllTold("on_error")
  /\ thrown' = thrown
  /\ phase' = "on_node_end"
  /\ hook' = 1
  /\ UNCHANGED <<timed, cancelled, expired, gate, skipped, retry, error, action,
                 result, history>>

\* No hook decided: the error is returned.
Unrouted ==
  /\ AllTold("on_error")
  /\ thrown' = error
  /\ phase' = "on_node_end"
  /\ hook' = 1
  /\ UNCHANGED <<timed, cancelled, expired, gate, skipped, retry, error, action,
                 result, history>>

\* on_node_end: in order; a hook's error replaces the result, and `?` leaves
\* out the hooks that follow.
EndHook ==
  /\ AtHook("on_node_end")
  /\ Hears("on_node_end")
  /\ \/ /\ hook' = hook + 1
        /\ UNCHANGED <<phase, result>>
     \/ /\ result' \in UserError
        /\ phase' = "returned"
        /\ UNCHANGED hook
  /\ UNCHANGED <<timed, cancelled, expired, gate, skipped, retry, error, action,
                 thrown, begun, author>>

Finish ==
  /\ AllTold("on_node_end")
  /\ result' = IF thrown # None THEN thrown ELSE "ok"
  /\ phase' = "returned"
  /\ UNCHANGED <<timed, cancelled, expired, hook, gate, skipped, retry, error,
                 action, thrown, history>>

Returned == phase = "returned" /\ UNCHANGED vars

Hooks  == StartHook \/ RetryHook \/ ErrorHook \/ EndHook
Bodies == Prep \/ ExecBody \/ Post
Engine == Enter \/ LoseRace \/ Unrouted \/ Finish \/ WaitOver

Next == Cancel \/ Expire \/ Hooks \/ Bodies \/ Engine \/ Returned

Spec == Init /\ [][Next]_vars

(***************************************************************************)
(* The executor polls what is ready and the clock goes on: Engine and       *)
(* Expire are fair.  Nothing makes user code settle: HookFair is assumed    *)
(* where a property needs the hooks to answer; the bodies may always hang.  *)
(***************************************************************************)
EngineFair == WF_vars(Engine) /\ WF_vars(Expire)
HookFair   == WF_vars(Hooks)

SpecFair == Spec /\ EngineFair /\ HookFair

--------------------------------------------------------------------------------
(***************************************************************************)
(* Properties.                                                              *)
(***************************************************************************)

\* A visit that succeeds has one author of its action: a gate, and then no
\* body was called; post, and then nothing had failed; or an on_error route
\* for an error that is not a cancel (node.rs 225-265).
ActionHasOneAuthor ==
  result = "ok" =>
    \/ author = "gate" /\ skipped /\ begun = {} /\ action # None
    \/ author = "post" /\ ~skipped /\ "post" \in begun /\ error = None
    \/ author = "route" /\ ~skipped /\ error \notin {None, Aborted}
                        /\ action # None

\* A visit succeeds only when every hook was told of its end, once; and of its
\* start, unless a start hook failed and on_error routed around that: the hooks
\* after it then hear the end of a visit whose start they never heard
\* (hooks.rs 122-163).
HooksHearBothEnds ==
  /\ result = "ok" => \A h \in Hook :
       /\ heard["on_node_end"][h] = 1
       /\ author # "route" \/ begun # {} => heard["on_node_start"][h] = 1
  /\ \A h \in Hook : heard["on_node_end"][h] <= 1

\* Once the visit has an error no body is called and the retry loop does not
\* move: "a late post() can never run with stale data" (node.rs 232-234).
NothingLate == [][error # None => begun' = begun /\ retry' = retry]_vars

\* A visit that has timed out or been cancelled comes back even when its bodies
\* hang, wherever that finds it, provided that the hooks answer: every wait of
\* the work is inside the race, the pause between attempts and the on_retry
\* hooks included.
LostRaceReturns ==
  (cancelled \/ (Racing /\ timed)) ~> phase = "returned"

--------------------------------------------------------------------------------
(***************************************************************************)
(* The visit as its callers know it: the error it will return, and of its   *)
(* stages those that a caller can tell apart.                               *)
(***************************************************************************)
Stage ==
  CASE phase = "on_node_start" -> "start"
    [] Racing                  -> "work"
    [] phase = "on_error"      -> "on_error"
    [] phase = "on_node_end"   -> "end"
    [] phase = "returned"      -> "done"

Returning ==
  CASE phase = "on_error"    -> error
    [] phase = "on_node_end" -> thrown
    [] phase = "returned"    -> IF result = "ok" THEN None ELSE result
    [] OTHER                 -> None

AbstractVisit == INSTANCE Visit WITH
  visit <- [at |-> Stage, error |-> Returning],
  Raise <- UserError,
  Late  <- {Timeout}

\* Whatever its hooks, retries and timer do, a visit goes through its stages in
\* order: no body is called once the token was cancelled before the first of
\* them; Aborted, whoever raised it, by-passes on_error and is what the visit
\* returns unless an end hook fails; another error is returned, routed or
\* replaced by a hook, and by nothing else (node.rs 207-209, 225-283).
ImplementsVisit == AbstractVisit!VisitSpec

================================================================================
