------------------------------ MODULE ParallelMap ------------------------------
(***************************************************************************)
(* What a bounded-parallel map promises its callers, without workers,       *)
(* cursor or tokens: at most `limit` items are in flight, each item is      *)
(* tried at most once, the first error is the verdict and ends the call,    *)
(* and an Ok result is complete unless the call was cancelled.              *)
(*                                                                          *)
(* RunParallel implements this specification; callers (batch nodes,         *)
(* parallel batch flows, fork/join) are entitled to it.                     *)
(***************************************************************************)
EXTENDS Naturals

CONSTANTS
  Size(_), \* the size of a finite set
  Slot,    \* the indices an item can have
  Error,   \* the errors an item can fail with
  Aborted, \* the one that stands for a cancelled item
  None

VARIABLES
  n,         \* number of items
  limit,     \* how many may be in flight
  cancelled, \* the caller's token is cancelled
  active,    \* the items in flight
  results,   \* the values obtained so far
  verdict,   \* the first error
  status     \* "running", "ok" or "err"

mapVars == <<n, limit, cancelled, active, results, verdict, status>>

MapInit ==
  /\ limit \in Nat \ {0}
  /\ n \in Nat
  /\ cancelled \in BOOLEAN
  /\ active = {}
  /\ results = [i \in Slot |-> None]
  /\ verdict = None
  /\ status = "running"

Cancel ==
  /\ cancelled' = TRUE
  /\ UNCHANGED <<n, limit, active, results, verdict, status>>

\* Items begin in order, and none begins after a failure or a cancel.
Begin(i) ==
  /\ i < n
  /\ verdict = None /\ ~cancelled
  /\ Size(active) < limit
  /\ i \notin active /\ results[i] = None
  /\ \A j \in Slot : j < i => j \in active \/ results[j] # None
  /\ active' = active \cup {i}
  /\ UNCHANGED <<n, limit, cancelled, results, verdict, status>>

Succeed(i) ==
  /\ i \in active
  /\ active' = active \ {i}
  /\ results' = [results EXCEPT ![i] = i]
  /\ UNCHANGED <<n, limit, cancelled, verdict, status>>

\* A failed or dropped item; the first error stands.
FailWith(i, e) ==
  /\ i \in active
  /\ active' = active \ {i}
  /\ verdict' = IF verdict = None THEN e ELSE verdict
  /\ UNCHANGED <<n, limit, cancelled, results, status>>

\* The cancel is noticed where no item is in the way.
Halt ==
  /\ cancelled
  /\ verdict' = IF verdict = None THEN Aborted ELSE verdict
  /\ UNCHANGED <<n, limit, cancelled, active, results, status>>

\* Nothing is in flight any more when the call returns.
Finish ==
  /\ status = "running"
  /\ active = {}
  /\ \/ verdict # None /\ status' = "err"
     \/ /\ verdict = None
        /\ cancelled \/ \A i \in Slot : i < n => results[i] = i
        /\ status' = "ok"
  /\ UNCHANGED <<n, limit, cancelled, active, results, verdict>>

MapNext ==
  \/ Cancel \/ Halt \/ Finish
  \/ \E i \in Slot : Begin(i) \/ Succeed(i) \/ \E e \in Error : FailWith(i, e)

MapSpec == MapInit /\ [][MapNext]_mapVars

================================================================================
