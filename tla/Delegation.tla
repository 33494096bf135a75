------------------------------- MODULE Delegation -------------------------------
(***************************************************************************)
(* The nodes that run other nodes' lifecycles inside their own: ForkJoin    *)
(* (src/fork_join.rs) and Subflow (src/subflow.rs), from prep to post.      *)
(*                                                                          *)
(* The exec of either is a retry loop (Retrying).  An attempt of a Subflow  *)
(* is one visit of its flow; an attempt of a ForkJoin maps visits of its    *)
(* branches with `run_parallel` (RunParallel), over copies of the context   *)
(* that prep returned.  A visit is what Visit says, with the token of the   *)
(* run or, in a fork, the child of it that a failing sibling cancels too. A *)
(* branch that fails and is to be settled is put to on_error once more,     *)
(* after the lifecycle of a plain node has asked the same hooks; a policy   *)
(* is ignored. The race of the outer lifecycle can drop all of it where it  *)
(* stands.                                                                  *)
(*                                                                          *)
(* `resolved` is a field of the node, not of the run: prep writes it and    *)
(* exec reads it, and another run of the same instance, in another task,    *)
(* may do the same.  The timeouts of branches are among their Failures.     *)
(***************************************************************************)
EXTENDS RunParallel, Retrying

CONSTANTS
  MaxRetries,  \* bound on max_retries
  Timeout      \* FlowError::Timeout of the outer lifecycle

ASSUME DelegationAssumption ==
  /\ MaxItems > 0
  /\ MaxConcurrency >= MaxItems  \* "0 = run all resolved branches in flight"
  /\ MaxRetries \in Nat
  /\ Timeout \notin Error \cup {"ok", None}

VARIABLES
  kind,      \* "fork_join" or "subflow"
  failFast,  \* its fail_fast
  flows,     \* what it visits are flows, and no plain nodes
  resolved,  \* the branches in `resolved`: whose prep put them there, how many
  phase,     \* "prep", "resolve", "exec" or "post"
  loop,      \* the retry loop of exec
  visits,    \* the visit each worker awaits; that of a Subflow is worker 1's
  asked,     \* the on_error hook each worker's closure awaits, 0 for none
  nulls,     \* the branches whose slot holds None in the place of a context
  blank,     \* the branches whose context is JSON null
  outcome    \* how the race ended: "ok", an error, None before

\* History.
VARIABLES
  wrote,     \* the attempts that wrote to the context in a branch's hands
  lost,      \* the branches that failed in this attempt, Aborted apart
  reported,  \* those of them that were put to on_error by the fork
  refused,   \* the errors that the fork's on_error hooks raised
  cut        \* visits were dropped whose start hooks had all answered

settings == <<kind, failFast, flows>>
inner    == <<visits, asked, nulls, blank>>
history  == <<wrote, lost, reported, refused, cut>>
own      == <<settings, resolved, phase, loop, inner, outcome, history>>
dvars    == <<vars, own>>

Branch == INSTANCE Visit WITH
  visit <- visits[1], cancelled <- parent, Raise <- Error, Late <- {}

NoVisit == Branch!Done(None)
NotResolved == [by |-> "this", count |-> 0]

\* The lifecycle of the node, or of the flow, that is visited.
VisitSteps(v, c) == IF flows THEN Branch!FlowSteps(v, c) ELSE Branch!Steps(v, c)

DelegationTypeOK ==
  /\ kind \in {"fork_join", "subflow"}
  /\ failFast \in BOOLEAN /\ flows \in BOOLEAN
  /\ resolved \in [by : {"this", "other"}, count : 0 .. MaxItems]
  /\ phase \in {"prep", "resolve", "exec", "post"}
  /\ loop \in RetryState(0 .. MaxRetries)
  /\ visits \in [Worker -> [at : {"start", "work", "on_error", "end", "done"},
                            error : Error \cup {None}]]
  /\ asked \in [Worker -> 0 .. HookCount]
  /\ nulls \subseteq Item /\ blank \subseteq Item
  /\ outcome \in Error \cup {Timeout, "ok", None}
  /\ wrote \in [Item -> SUBSET (0 .. MaxRetries)]
  /\ lost \subseteq Item /\ reported \subseteq Item
  /\ refused \subseteq Error
  /\ cut \in BOOLEAN

\* No mapper runs yet.  The race let the node in with a live token.
DelegationInit ==
  /\ Init /\ n = 0 /\ concurrency = 0 /\ ~parent
  /\ kind \in {"fork_join", "subflow"}
  /\ failFast \in IF kind = "subflow" THEN {FALSE} ELSE BOOLEAN
  /\ flows \in BOOLEAN
  /\ resolved = NotResolved
  /\ phase = "prep"
  /\ \E max \in 0 .. MaxRetries, waits \in BOOLEAN : loop = StartRetrying(max, waits)
  /\ visits = [w \in Worker |-> NoVisit]
  /\ asked = [w \in Worker |-> 0]
  /\ nulls = {} /\ blank = {}
  /\ outcome = None
  /\ wrote = [i \in Item |-> {}]
  /\ lost = {} /\ reported = {} /\ refused = {}
  /\ cut = FALSE

--------------------------------------------------------------------------------
(***************************************************************************)
(* prep.                                                                    *)
(***************************************************************************)

\* make_branches, and the context is copied; it cannot fail.
PrepFork ==
  /\ phase = "prep" /\ kind = "fork_join"
  /\ \E k \in 0 .. MaxItems : resolved' = [by |-> "this", count |-> k]
  /\ phase' = "resolve"
  /\ UNCHANGED <<vars, settings, loop, inner, outcome, history>>

\* derive_shared, which is user code.
PrepSubflow ==
  /\ phase = "prep" /\ kind = "subflow"
  /\ \/ phase' = "resolve" /\ UNCHANGED outcome
     \/ outcome' \in Error /\ UNCHANGED phase
  /\ UNCHANGED <<vars, settings, resolved, loop, inner, history>>

\* The prep of another run of the same node instance.
OtherPrep ==
  /\ phase = "resolve" /\ kind = "fork_join" /\ resolved.by = "this"
  /\ \E k \in 0 .. MaxItems : resolved' = [by |-> "other", count |-> k]
  /\ UNCHANGED <<vars, settings, phase, loop, inner, outcome, history>>

--------------------------------------------------------------------------------
(***************************************************************************)
(* The attempts of exec.                                                    *)
(***************************************************************************)

\* The node's `concurrency`, or all of k branches in flight.
Limit(bound, k) == IF bound > 0 THEN bound ELSE IF k > 0 THEN k ELSE 1

\* A call of run_parallel over k branches begins.
NewMap(k, limit) ==
  /\ n' = k
  /\ concurrency' = limit
  /\ linked' = FALSE
  /\ cursor' = 0
  /\ out' = [i \in Item |-> None]
  /\ firstErr' = None
  /\ pc' = [w \in Worker |-> IF w <= WorkerCount' THEN "loop" ELSE "exited"]
  /\ held' = [w \in Worker |-> None]
  /\ polling' = 0
  /\ status' = "running"
  /\ raised' = {}
  /\ UNCHANGED parent

\* Mutant: mutations of a failed attempt persist into the next one.
ContextKept(i) == wrote[i]

\* Each attempt has its own copy of the context that prep returned.
FreshContext(i) == {}

\* The closure that `retrying` runs is called: over k branches, or once.
Attempt(k, limit) ==
  /\ nulls' = {} /\ blank' = {}
  /\ lost' = {} /\ reported' = {}
  /\ \/ /\ kind = "fork_join"
        /\ NewMap(k, limit)
        /\ UNCHANGED <<visits, wrote>>
     \/ /\ kind = "subflow"
        /\ visits' = [visits EXCEPT ![1] = Branch!Fresh]
        /\ wrote' = [wrote EXCEPT ![0] = FreshContext(0)]
        /\ UNCHANGED vars
  /\ UNCHANGED asked

\* exec takes the branches and the limit once, whatever attempts follow; what
\* becomes of `resolved` then is of no concern to this run, and forgotten.
Exec ==
  /\ phase = "resolve"
  /\ phase' = "exec"
  /\ \E bound \in 0 .. MaxConcurrency :
       Attempt(resolved.count, Limit(bound, resolved.count))
  /\ resolved' = NotResolved
  /\ UNCHANGED <<settings, loop, outcome, refused, cut>>

AttemptOver ==
  /\ visits' = [visits EXCEPT ![1] = NoVisit]
  /\ UNCHANGED <<vars, asked, nulls, blank, wrote, lost, reported>>

\* What the retry loop waits for settles with o; the loop is at r then.
LoopGoesOn(o) ==
  LET r == Resume(loop, o)
  IN  /\ loop' = r
      /\ \/ /\ r.at = "attempt"
            /\ Attempt(n, concurrency)
            /\ UNCHANGED <<phase, outcome>>
         \/ /\ r.at \in {"on_retry", "wait", "fallback"}
            /\ AttemptOver
            /\ UNCHANGED <<phase, outcome>>
         \/ /\ r.at = "done"
            /\ AttemptOver
            /\ IF r.result = "ok" THEN phase' = "post" /\ UNCHANGED outcome
                                  ELSE outcome' = r.result /\ UNCHANGED phase
  /\ UNCHANGED <<settings, resolved, refused, cut>>

Trying(k) == phase = "exec" /\ loop.at = "attempt" /\ kind = k

\* run_parallel has returned.
AttemptEnds ==
  /\ Trying("fork_join") /\ status # "running"
  /\ LoopGoesOn(IF status = "ok" THEN "ok" ELSE firstErr)

\* An on_retry hook, the pause or the fallback settles.
LoopUser ==
  /\ phase = "exec" /\ loop.at \in {"on_retry", "fallback"}
  /\ \E o \in Outcome : LoopGoesOn(o)

WaitOver ==
  /\ phase = "exec" /\ loop.at = "wait"
  /\ LoopGoesOn("ok")

\* prep, exec and post of the visited node write to the context it was given.
Writes(v, i) ==
  wrote' = IF v.at = "work" THEN [wrote EXCEPT ![i] = @ \cup {loop.attempt}] ELSE wrote

\* The visit of a Subflow's flow goes on, with the run's own token; its error,
\* or Ok, is how the attempt ends.
SubflowVisit ==
  /\ Trying("subflow")
  /\ \E v \in VisitSteps(visits[1], parent) :
       \/ /\ v.at # "done"
          /\ visits' = [visits EXCEPT ![1] = v]
          /\ Writes(v, 0)
          /\ UNCHANGED <<vars, settings, resolved, asked, nulls, blank,
                         phase, loop, outcome, lost, reported, refused, cut>>
       \/ v.at = "done" /\ LoopGoesOn(IF v.error = None THEN "ok" ELSE v.error)

--------------------------------------------------------------------------------
(***************************************************************************)
(* The branches of an attempt.                                              *)
(***************************************************************************)

\* The mapper's steps that touch no closure, and its return.
Drive(w) ==
  /\ Trying("fork_join")
  /\ SeqNext(w) \/ LoopCheck(w) \/ Claim(w)
  /\ UNCHANGED own

MapReturns ==
  /\ Trying("fork_join")
  /\ Return
  /\ UNCHANGED own

\* The closure copies the context and begins the visit of its branch.
EnterBranch(w) ==
  /\ Trying("fork_join")
  /\ RaceEnter(w)
  /\ IF Cancelled
     THEN UNCHANGED <<visits, wrote>>
     ELSE /\ visits' = [visits EXCEPT ![w] = Branch!Fresh]
          /\ wrote' = [wrote EXCEPT ![held[w]] = FreshContext(held[w])]
  /\ UNCHANGED <<settings, resolved, phase, loop, asked, nulls, blank,
                 outcome, lost, reported, refused, cut>>

\* The closure has returned, or is dropped.
Freed(w) ==
  /\ visits' = [visits EXCEPT ![w] = NoVisit]
  /\ asked' = [asked EXCEPT ![w] = 0]

\* Ok(Some(branch_shared)); the branch may have left it null.
BranchSucceeds(w) ==
  /\ SettleOk(w) /\ Freed(w)
  /\ \/ UNCHANGED blank
     \/ wrote[held[w]] # {} /\ blank' = blank \cup {held[w]}
  /\ UNCHANGED nulls

\* Ok(None).
NullSlot(w) ==
  /\ SettleOk(w) /\ Freed(w)
  /\ nulls' = nulls \cup {held[w]}
  /\ UNCHANGED blank

BranchFails(w, e) ==
  /\ SettleErr(w, e) /\ Freed(w)
  /\ UNCHANGED <<nulls, blank>>

\* The on_error hooks from the h-th on; when none decides, a None slot.
AskOnError(w, h) ==
  \/ /\ h <= HookCount
     /\ asked' = [asked EXCEPT ![w] = h]
     /\ visits' = [visits EXCEPT ![w] = NoVisit]
     /\ UNCHANGED <<vars, nulls, blank>>
  \/ h > HookCount /\ NullSlot(w)

\* Mutant: fail_fast whatever the setting.
AlwaysPropagated(e) == TRUE

\* The errors of a branch that the closure returns to the mapper.
Propagated(e) == e = Aborted \/ failFast

\* The visit of w's branch goes on.
BranchVisit(w) ==
  /\ Trying("fork_join")
  /\ pc[w] = "busy" /\ Polled(w) /\ asked[w] = 0
  /\ \E v \in VisitSteps(visits[w], Cancelled) :
       /\ Writes(v, held[w])
       /\ lost' = IF v.at = "done" /\ v.error \notin {None, Aborted}
                  THEN lost \cup {held[w]} ELSE lost
       /\ \/ /\ v.at # "done"
             /\ visits' = [visits EXCEPT ![w] = v]
             /\ UNCHANGED <<vars, asked, nulls, blank>>
          \/ /\ v.at = "done"
             /\ \/ v.error = None /\ BranchSucceeds(w)
                \/ v.error # None /\ Propagated(v.error) /\ BranchFails(w, v.error)
                \/ v.error # None /\ ~Propagated(v.error) /\ AskOnError(w, 1)
  /\ UNCHANGED <<settings, resolved, phase, loop, outcome, reported, refused, cut>>

\* The fork's on_error hook answers: with nothing, with a policy, a Route
\* included, that is not followed, or with an error.
ForkHook(w) ==
  /\ Trying("fork_join")
  /\ pc[w] = "busy" /\ Polled(w) /\ asked[w] # 0
  /\ reported' = reported \cup {held[w]}
  /\ \/ AskOnError(w, asked[w] + 1) /\ UNCHANGED refused
     \/ NullSlot(w) /\ UNCHANGED refused
     \/ \E e \in Error : BranchFails(w, e) /\ refused' = refused \cup {e}
  /\ UNCHANGED <<settings, resolved, phase, loop, outcome, wrote, lost, cut>>

\* The start hooks of these visits have answered, no end hook has.
MidVisit(ws) == ~flows /\ \E w \in ws : visits[w].at \in {"work", "on_error"}

\* The mapper drops a branch where it stands.
Dropped(w) ==
  /\ Trying("fork_join")
  /\ Interrupt(w) /\ Freed(w)
  /\ cut' = (cut \/ MidVisit({w}))
  /\ UNCHANGED <<settings, resolved, phase, loop, nulls, blank, outcome,
                 wrote, lost, reported, refused>>

--------------------------------------------------------------------------------
(***************************************************************************)
(* post, and the race around everything.                                    *)
(***************************************************************************)

\* What join is given for a branch is a context, or None where its slot is empty
\* or holds a null.
GivenNone(i) == out[i] = None \/ i \in nulls \cup blank

\* join or reduce.
Post ==
  /\ phase = "post"
  /\ outcome' \in Error \cup {"ok"}
  /\ UNCHANGED <<vars, settings, resolved, phase, loop, inner, history>>

\* What is polled last is user code that is pending, or the pause.
Pending ==
  \/ phase = "prep" /\ kind = "subflow"
  \/ phase = "post"
  \/ phase = "exec" /\ loop.at \in {"on_retry", "wait", "fallback"}
  \/ Trying("subflow")
  \/ /\ Trying("fork_join") /\ status = "running" /\ polling = 0
     /\ \A w \in Worker : pc[w] \in {"busy", "exited"}
     /\ \E w \in Worker : pc[w] = "busy"

\* Mutant: the body is awaited as it is.
NotRaced == FALSE /\ UNCHANGED dvars

\* The timer or the token ends the race; the visits inside are dropped.
LoseRace ==
  /\ Pending
  /\ outcome' = Timeout \/ (parent /\ outcome' = Aborted)
  /\ cut' = (cut \/ MidVisit(Worker))
  /\ visits' = [w \in Worker |-> NoVisit]
  /\ asked' = [w \in Worker |-> 0]
  /\ UNCHANGED <<vars, settings, resolved, phase, loop, nulls, blank,
                 wrote, lost, reported, refused>>

Engine    == Exec \/ AttemptEnds \/ MapReturns \/ WaitOver
Mapper(w) == Drive(w) \/ EnterBranch(w)

DelegationReturned == outcome # None /\ UNCHANGED dvars

DelegationNext ==
  \/ /\ outcome = None
     /\ \/ ParentCancel /\ UNCHANGED own
        \/ PrepFork \/ PrepSubflow \/ OtherPrep
        \/ Engine \/ LoopUser \/ SubflowVisit \/ Post \/ LoseRace
        \/ \E w \in Worker : Mapper(w) \/ BranchVisit(w) \/ ForkHook(w) \/ Dropped(w)
  \/ DelegationReturned

DelegationSpec == DelegationInit /\ [][DelegationNext]_dvars

\* The engine is polled, and a race that the token has won is lost.  All user
\* code may hang: prep, post, the hooks, the fallback and the visits.
DelegationFair ==
  /\ WF_dvars(outcome = None /\ (PrepFork \/ Engine))
  /\ WF_dvars(outcome = None /\ parent /\ LoseRace)
  /\ \A w \in Worker : /\ WF_dvars(outcome = None /\ Mapper(w))
                       /\ WF_dvars(outcome = None /\ Dropped(w))

DelegationSpecFair == DelegationSpec /\ DelegationFair

--------------------------------------------------------------------------------
(***************************************************************************)
(* Properties.                                                              *)
(***************************************************************************)

\* join is told the truth about the last attempt: a context it is given was
\* written in that attempt only ("a fresh derivation", subflow.rs 56-58), by a
\* branch that did not fail; a None stands for a branch that failed, without
\* fail_fast and not without the hooks having been asked, or made its context
\* null itself, in this attempt, or was not begun because of a cancel.
JoinHearsLastAttempt ==
  phase = "post" /\ loop.result = "ok" =>
    /\ kind = "subflow" => wrote[0] \subseteq {loop.attempt}
    /\ kind = "fork_join" /\ status = "ok" =>
         \A i \in 0 .. n - 1 :
           IF ~GivenNone(i)
           THEN i \notin lost /\ wrote[i] \subseteq {loop.attempt}
           ELSE \/ i \in lost /\ ~failFast /\ (HookCount > 0 => i \in reported)
                \/ i \in blank \ lost /\ wrote[i] = {loop.attempt}
                \/ parent /\ out[i] = None /\ i \notin lost

\* Without fail_fast a failed branch does not fail the fork: it is retried, or
\* falls back, only because an on_error hook failed when it was asked about a
\* branch (fork_join.rs 88-89, 178).
SettledForkIsNotRetried ==
  kind = "fork_join" /\ ~failFast /\ loop.error # None => loop.error \in refused

\* Once the token is cancelled, or a sibling has failed, no branch begins its
\* work, not even one whose start hooks were already being asked; the same of a
\* Subflow's flow.
NoWorkAfterStop ==
  [][(IF kind = "fork_join" THEN Cancelled ELSE parent) =>
       \A w \in Worker : visits'[w].at = "work" => visits[w].at = "work"]_dvars

\* A cancelled ForkJoin or Subflow comes back whatever hangs in it: its prep,
\* a branch's body or hook, the hooks that are asked about a branch, the pause.
CancelEndsDelegation == parent ~> outcome # None

(***************************************************************************)
(* What the documentation says and the code does not do.                    *)
(***************************************************************************)

\* hooks.rs 85: on_node_end is "fired after each node runs (always, including
\* on error / skip)", that of a visit inside a visit included.
EndAlwaysTold == ~cut

\* fork_join.rs 23: make_branches is to "build the branch nodes to run for THIS
\* shared".
BranchesOfThisRun ==
  [][phase = "resolve" /\ phase' = "exec" => resolved.by = "this"]_dvars

================================================================================
