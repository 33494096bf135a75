------------------------------ MODULE FlowErrors ------------------------------
(***************************************************************************)
(* How a call of user code, or of the engine, can end (src/error.rs).  Of   *)
(* the error kinds the engine tells only Aborted apart (is_aborted); the    *)
(* errors it makes itself, Timeout and Cycle, are constants of the modules  *)
(* that make them.                                                          *)
(***************************************************************************)
CONSTANTS
  Failures,  \* errors of user code, FlowError::Aborted apart
  Aborted,   \* FlowError::Aborted: cancelled, terminal
  None       \* an empty Option

ASSUME FlowErrorsAssumption ==
  /\ Aborted \notin Failures
  /\ None \notin Failures \cup {Aborted, "ok"}
  /\ "ok" \notin Failures \cup {Aborted}

\* The errors user code can end with; it may raise Aborted too.
UserError == Failures \cup {Aborted}

\* What an awaited call settles with.
Outcome == UserError \cup {"ok"}

================================================================================
