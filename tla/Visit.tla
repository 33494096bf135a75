--------------------------------- MODULE Visit ---------------------------------
(***************************************************************************)
(* What the visit of a node promises whoever awaits it: `run_lifecycle` of  *)
(* src/node.rs without its bodies, retries, timer and hooks one by one.     *)
(* The start hooks answer; the work runs unless a gate skips it or the      *)
(* token was cancelled before it began; an error that is not Aborted is put *)
(* to the on_error hooks; the end hooks answer, and the visit is done.      *)
(*                                                                         *)
(* NodeLifecycle implements this specification; ForkJoin and Subflow, which *)
(* run visits inside a visit, are built from its steps and from those of a  *)
(* flow, whose `run_lifecycle` (src/flow.rs) is its traversal.              *)
(***************************************************************************)
CONSTANTS
  Raise,    \* the errors bodies and hooks raise, Aborted among them
  Late,     \* the errors of a race that is lost to the timer
  Aborted,  \* FlowError::Aborted
  None      \* no error

VARIABLES
  visit,     \* where the visit stands, and the error it will return
  cancelled  \* the token of the visit is cancelled

vvars == <<visit, cancelled>>

Fresh == [at |-> "start", error |-> None]
Done(e) == [at |-> "done", error |-> e]

\* Ok and Aborted are not put to on_error.
Conclude(e) ==
  [at |-> IF e \in {None, Aborted} THEN "end" ELSE "on_error", error |-> e]

\* Mutant: the first poll of the work is not preceded by a look at the token.
EntryUnchecked(c) == FALSE

EntryRefused(c) == c

\* The states that can follow v, under a token that is cancelled or not (c).
Steps(v, c) ==
  CASE v.at = "start" ->
         {Conclude(e) : e \in Raise \cup {None}}
         \cup (IF EntryRefused(c) THEN {} ELSE {[at |-> "work", error |-> None]})
    [] v.at = "work" -> {Conclude(e) : e \in Raise \cup Late \cup {None}}
    [] v.at = "on_error" ->
         {[at |-> "end", error |-> e] : e \in Raise \cup {v.error, None}}
    [] v.at = "end" -> {Done(e) : e \in Raise \cup {v.error}}
    [] v.at = "done" -> {}

\* The same of a visited flow, which has no hooks and no race of its own: its
\* prep, which nothing refuses, then nodes of its graph if the token still is
\* not cancelled, and its post.
FlowSteps(v, c) ==
  CASE v.at = "start" ->
         {Done(e) : e \in Raise}
         \cup (IF EntryRefused(c) THEN {} ELSE {[at |-> "work", error |-> None]})
    [] v.at = "work" -> {Done(e) : e \in Raise \cup {None}}
    [] v.at = "done" -> {}

VisitInit ==
  /\ visit = Fresh
  /\ cancelled \in BOOLEAN

VisitNext ==
  \/ visit' \in Steps(visit, cancelled) /\ UNCHANGED cancelled
  \/ cancelled' = TRUE /\ UNCHANGED visit

VisitSpec == VisitInit /\ [][VisitNext]_vvars

================================================================================
