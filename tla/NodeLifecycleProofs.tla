-------------------------- MODULE NodeLifecycleProofs --------------------------
(***************************************************************************)
(* The visit of a node, for any number of hook sets and retries: its type,  *)
(* who chooses its action, what its hooks hear, that nothing runs late, and *)
(* that it is the visit its callers know (Visit).                           *)
(***************************************************************************)
EXTENDS NodeLifecycle, RetryingProofs

\* Nothing is decided before the race is over.
Undecided == action = None /\ author = None /\ thrown = None /\ ~skipped

\* The action of a visit that is about to succeed has an author.
Authored ==
  \/ author = "gate" /\ skipped /\ begun = {} /\ action # None
  \/ author = "post" /\ ~skipped /\ "post" \in begun /\ error = None
  \/ author = "route" /\ ~skipped /\ error \notin {None, Aborted} /\ action # None

\* What is known at each stage of the visit.
StageHolds ==
  /\ phase = "on_node_start" \/ Racing => Undecided /\ error = None
  /\ phase \in {"on_node_start", "prep"} => retry.at = "attempt"
  /\ phase = "exec" => Suspended(retry)
  /\ phase = "post" => "post" \in begun
  /\ phase = "on_node_start" => begun = {}
  /\ Racing => begun # {}
  /\ phase = "on_error" => Undecided /\ error \notin {None, Aborted}
  /\ phase = "on_node_end" /\ thrown = None => Authored
  /\ phase # "returned" => result = None
  /\ phase = "returned" => result # None
  /\ result = "ok" => Authored

\* The hooks before the one that is awaited have been told, once.
ToldSoFar(end) == \A h \in Hook : heard[end][h] = IF h < hook THEN 1 ELSE 0
AllHeard(end)  == \A h \in Hook : heard[end][h] = 1

\* What has been counted at each stage.
HookCounts ==
  /\ phase = "on_node_start" => ToldSoFar("on_node_start")
  /\ phase # "on_node_start" /\ (begun # {} \/ skipped) => AllHeard("on_node_start")
  /\ phase \notin {"on_node_end", "returned"} => \A h \in Hook : heard["on_node_end"][h] = 0
  /\ phase = "on_node_end" => ToldSoFar("on_node_end")
  /\ phase = "returned" => \A h \in Hook : heard["on_node_end"][h] <= 1
  /\ result = "ok" => AllHeard("on_node_end")

\* The inductive invariant.
LInv == TypeOK /\ StageHolds /\ HookCounts

\* The errors, None and "ok" are told apart.
ErrorKinds ==
  /\ Aborted \in UserError /\ UserError \subseteq Outcome
  /\ Aborted # None /\ None \notin UserError /\ "ok" \notin UserError
  /\ Timeout \notin UserError \cup {None, Aborted, "ok"}
  /\ None # "ok"

\* The named assumptions tell them apart.
LEMMA ErrorsDiffer == ErrorKinds
BY FlowErrorsAssumption, NodeLifecycleAssumption DEF UserError, Outcome, ErrorKinds

\* A call of a hook is counted for that hook and that end.
LEMMA HookIsHeard ==
  ASSUME NEW end \in End, hook \in Hook, heard \in [End -> [Hook -> Nat]], Hears(end)
  PROVE  /\ heard' \in [End -> [Hook -> Nat]]
         /\ \A h \in Hook : heard'[end][h] = IF h = hook THEN heard[end][h] + 1 ELSE heard[end][h]
         /\ \A e \in End : e # end => heard'[e] = heard[e]
BY DEF Hears

\* A new visit stands before its first hook.
LEMMA InitEstablishes == Init => LInv
<1> SUFFICES ASSUME Init PROVE LInv
  OBVIOUS
<1>1. PICK max \in 0 .. MaxRetries, waits \in BOOLEAN : retry = StartRetrying(max, waits)
  BY DEF Init
<1>2. retry \in RetryState(0 .. MaxRetries) /\ retry.at = "attempt"
  BY <1>1, StartStands
<1>3. TypeOK
  <2>1. hook \in 1 .. HookCount + 1 /\ heard \in [End -> [Hook -> Nat]]
    BY RetryingAssumption DEF Init
  <2> QED
    BY <1>2, <2>1 DEF Init, TypeOK
<1>4. StageHolds
  BY <1>2, ErrorsDiffer DEF Init, StageHolds, Undecided, Racing, ErrorKinds
<1>5. HookCounts
  BY ErrorsDiffer, RetryingAssumption
  DEF Init, HookCounts, ToldSoFar, AllHeard, Hook, End, ErrorKinds
<1> QED
  BY <1>3, <1>4, <1>5 DEF LInv

\* The loop inside exec is at a stop that can follow the one before.
LEMMA LoopSteps ==
  ASSUME TypeOK, StageHolds, ExecBody \/ RetryHook \/ WaitOver
  PROVE  \E r \in RetryState(0 .. MaxRetries) :
           Exec(r) /\ (r.at # "done" => Suspended(r)) /\ (r.at = "done" => r.result # None)
<1>1. PICK o \in Outcome : Exec(Resume(retry, o))
  BY DEF ExecBody, RetryHook, WaitOver, Outcome
<1>2. retry \in RetryState(0 .. MaxRetries) /\ Suspended(retry)
  BY <1>1 DEF TypeOK, StageHolds, Exec, WorkPolled
<1>3. /\ Resume(retry, o) \in RetryState(0 .. MaxRetries)
      /\ Follows(retry, Resume(retry, o))
      /\ Resume(retry, o).at # "done" => Suspended(Resume(retry, o))
  BY <1>2, ResumeFollows
<1>4. Resume(retry, o).at = "done" => Resume(retry, o).result # None
  BY <1>3 DEF Follows, Tells
<1> QED
  BY <1>1, <1>3, <1>4

\* Every step keeps the type.
LEMMA TypeKept ==
  ASSUME LInv, [Next]_vars
  PROVE  TypeOK'
<1> USE ErrorsDiffer, RetryingAssumption, FlowErrorsAssumption DEF LInv, TypeOK
<1>1. CASE Cancel
  BY <1>1 DEF Cancel, history, Error, ErrorKinds
<1>2. CASE Expire
  BY <1>2 DEF Expire, history, Error, ErrorKinds
<1>3. CASE StartHook
  <2>1. hook \in Hook /\ hook + 1 \in 1 .. HookCount + 1
    BY <1>3 DEF StartHook, AtHook, Hook
  <2>2. heard' \in [End -> [Hook -> Nat]]
    BY <1>3, <2>1, HookIsHeard DEF StartHook, End
  <2> QED
    BY <1>3, <2>1, <2>2 DEF StartHook, AtHook, AfterGate, Conclude, Error, ErrorKinds
<1>4. CASE Enter
  <2>1. begun' \subseteq {"prep", "exec", "fallback", "post"}
    BY <1>4 DEF Enter
  <2>2. /\ error' \in Error \cup {None} /\ thrown' \in Error \cup {None}
        /\ action' \in Actions \cup {None} /\ author' \in {"gate", "post", "route", None}
    BY <1>4 DEF Enter, Conclude, Error, ErrorKinds
  <2>3. hook' \in 1 .. HookCount + 1
    BY <1>4 DEF Enter, Conclude
  <2>4. skipped' \in BOOLEAN
    BY <1>4 DEF Enter
  <2>5. phase' \in {"on_node_start", "prep", "exec", "post", "on_error",
                    "on_node_end", "returned"}
    BY <1>4 DEF Enter, Conclude
  <2> QED
    BY <1>4, <2>1, <2>2, <2>3, <2>4, <2>5 DEF Enter
<1>5. CASE Prep
  <2>1. begun' \subseteq {"prep", "exec", "fallback", "post"}
    BY <1>5 DEF Prep
  <2> QED
    BY <1>5, <2>1 DEF Prep, Conclude, Error, ErrorKinds
<1>6. CASE ExecBody \/ RetryHook \/ WaitOver
  <2>1. PICK r \in RetryState(0 .. MaxRetries) :
          Exec(r) /\ (r.at # "done" => Suspended(r)) /\ (r.at = "done" => r.result # None)
    BY <1>6, LoopSteps DEF LInv
  <2>2. r.result \in Outcome \cup {None}
    BY DEF RetryState
  <2>3. begun' \subseteq {"prep", "exec", "fallback", "post"}
    BY <2>1 DEF Exec
  <2>4. r.at = "done" /\ r.result # "ok" => r.result \in UserError
    BY <2>1, <2>2 DEF Outcome
  <2>5. error' \in Error \cup {None} /\ thrown' \in Error \cup {None}
    BY <2>1, <2>4 DEF Exec, Conclude, Error, ErrorKinds
  <2>6. /\ hook' \in 1 .. HookCount + 1
        /\ phase' \in {"on_node_start", "prep", "exec", "post", "on_error",
                       "on_node_end", "returned"}
    BY <2>1 DEF Exec, Conclude
  <2> QED
    BY <2>1, <2>3, <2>5, <2>6 DEF Exec
<1>7. CASE Post
  BY <1>7 DEF Post, Conclude, Error, ErrorKinds
<1>8. CASE LoseRace
  BY <1>8 DEF LoseRace, Conclude, history, Error, ErrorKinds
<1>9. CASE ErrorHook
  BY <1>9 DEF ErrorHook, AtHook, Error, ErrorKinds
<1>10. CASE Unrouted
  BY <1>10 DEF Unrouted, history, Error, ErrorKinds
<1>11. CASE EndHook
  <2>1. hook \in Hook /\ hook + 1 \in 1 .. HookCount + 1
    BY <1>11 DEF EndHook, AtHook, Hook
  <2>2. heard' \in [End -> [Hook -> Nat]]
    BY <1>11, <2>1, HookIsHeard DEF EndHook, End
  <2> QED
    BY <1>11, <2>1, <2>2 DEF EndHook, AtHook, Error, ErrorKinds
<1>12. CASE Finish
  BY <1>12 DEF Finish, AllTold, history, Error, ErrorKinds
<1>13. CASE Returned
  BY <1>13 DEF Returned, vars, node, history, Error, ErrorKinds
<1>14. CASE UNCHANGED vars
  BY <1>14 DEF vars, node, history
<1> QED
  BY <1>1, <1>2, <1>3, <1>4, <1>5, <1>6, <1>7, <1>8, <1>9, <1>10, <1>11, <1>12, <1>13, <1>14
     DEF Next, Hooks, Bodies, Engine

\* Every step leads from a stage to one that follows it.
LEMMA StageKept ==
  ASSUME LInv, [Next]_vars
  PROVE  StageHolds'
<1> USE ErrorsDiffer, RetryingAssumption DEF LInv, TypeOK, StageHolds, Undecided, Authored, Racing,
      ErrorKinds
<1>1. CASE Cancel
  BY <1>1 DEF Cancel, history
<1>2. CASE Expire
  BY <1>2 DEF Expire, history
<1>3. CASE StartHook
  BY <1>3 DEF StartHook, AtHook, AfterGate, Conclude, Terminal
<1>4. CASE Enter
  <2>1. CASE gate # None
    BY <1>4, <2>1 DEF Enter, Conclude, Terminal, AllTold
  <2>2. CASE gate = None /\ EntryRefused
    BY <1>4, <2>2 DEF Enter, Conclude, Terminal, AllTold
  <2>3. CASE gate = None /\ ~EntryRefused
    BY <1>4, <2>3 DEF Enter, AllTold
  <2> QED
    BY <2>1, <2>2, <2>3
<1>5. CASE Prep
  <2>1. CASE phase' = "exec"
    BY <1>5, <2>1 DEF Prep, Conclude, Terminal, Suspended
  <2>2. ASSUME NEW e \in UserError, Conclude(e)
        PROVE  StageHolds'
    BY <1>5, <2>2 DEF Prep, Conclude, Terminal
  <2> QED
    BY <1>5, <2>1, <2>2 DEF Prep
<1>6. CASE ExecBody \/ RetryHook \/ WaitOver
  <2>1. PICK r \in RetryState(0 .. MaxRetries) :
          Exec(r) /\ (r.at # "done" => Suspended(r)) /\ (r.at = "done" => r.result # None)
    BY <1>6, LoopSteps DEF LInv
  <2>2. r.result \in Outcome \cup {None}
    BY DEF RetryState
  <2>3. CASE r.at # "done"
    BY <2>1, <2>3 DEF Exec, WorkPolled
  <2>4. CASE r.at = "done" /\ r.result = "ok"
    BY <2>1, <2>4 DEF Exec, WorkPolled
  <2>5. CASE r.at = "done" /\ r.result # "ok"
    BY <2>1, <2>5 DEF Exec, WorkPolled, Conclude, Terminal
  <2> QED
    BY <2>3, <2>4, <2>5
<1>7. CASE Post
  BY <1>7 DEF Post, Conclude, Terminal
<1>8. CASE LoseRace
  BY <1>8 DEF LoseRace, Conclude, history, Terminal
<1>9. CASE ErrorHook
  BY <1>9, FlowErrorsAssumption, NodeLifecycleAssumption DEF ErrorHook, AtHook
<1>10. CASE Unrouted
  BY <1>10 DEF Unrouted, history, AllTold
<1>11. CASE EndHook
  BY <1>11 DEF EndHook, AtHook
<1>12. CASE Finish
  <2>1. thrown # "ok"
    BY DEF Error
  <2>2. CASE thrown = None
    BY <1>12, <2>2 DEF Finish, AllTold, history
  <2>3. CASE thrown # None
    BY <1>12, <2>1, <2>3 DEF Finish, AllTold, history
  <2> QED
    BY <2>2, <2>3
<1>13. CASE Returned
  BY <1>13 DEF Returned, vars, node, history
<1>14. CASE UNCHANGED vars
  BY <1>14 DEF vars, node, history
<1> QED
  BY <1>1, <1>2, <1>3, <1>4, <1>5, <1>6, <1>7, <1>8, <1>9, <1>10, <1>11, <1>12, <1>13, <1>14
     DEF Next, Hooks, Bodies, Engine

\* Between the two ends no hook of either is told.
LEMMA CountsStand ==
  ASSUME HookCounts, heard' = heard, result' = result, result # "ok",
         phase \notin {"on_node_start", "on_node_end", "returned"},
         phase' \notin {"on_node_start", "returned"},
         phase' = "on_node_end" => hook' = 1,
         begun' # {} \/ skipped' => begun # {} \/ skipped
  PROVE  HookCounts'
BY DEF HookCounts, ToldSoFar, AllHeard, Hook

\* Every step tells the hooks in order, each once.
LEMMA CountsKept ==
  ASSUME LInv, [Next]_vars
  PROVE  HookCounts'
<1> USE DEF LInv
<1>a. phase # "returned" => result = None /\ result # "ok"
  BY ErrorsDiffer DEF StageHolds, ErrorKinds
<1>b. Racing => begun # {} /\ phase \notin {"on_node_start", "on_node_end", "returned"}
  BY DEF StageHolds, Racing
<1>c. hook \in 1 .. HookCount + 1 /\ HookCount \in Nat
  BY RetryingAssumption DEF TypeOK
<1>d. phase = "on_node_start" => begun = {} /\ ~skipped
  BY DEF StageHolds, Undecided
<1>1. CASE Cancel
  BY <1>1 DEF Cancel, history, HookCounts, ToldSoFar, AllHeard
<1>2. CASE Expire
  BY <1>2 DEF Expire, history, HookCounts, ToldSoFar, AllHeard
<1>3. CASE StartHook
  <2>1. hook \in Hook /\ phase = "on_node_start" /\ "on_node_start" \in End
    BY <1>3, <1>c DEF StartHook, AtHook, End, Hook
  <2>2. /\ \A h \in Hook : heard'["on_node_start"][h] =
                 IF h = hook THEN heard["on_node_start"][h] + 1 ELSE heard["on_node_start"][h]
        /\ heard'["on_node_end"] = heard["on_node_end"]
    BY <1>3, <2>1, HookIsHeard DEF StartHook, End, TypeOK
  <2>3. result' # "ok" /\ begun' = {} /\ ~skipped'
    BY <1>3, <2>1, <1>a, <1>d DEF StartHook
  <2>4. \A h \in Hook : heard["on_node_start"][h] = IF h < hook THEN 1 ELSE 0
    BY <2>1 DEF HookCounts, ToldSoFar
  <2>5. \A h \in Hook : heard["on_node_end"][h] = 0 /\ heard'["on_node_end"][h] = 0
    BY <2>1, <2>2 DEF HookCounts
  <2>6. CASE hook' = hook + 1 /\ phase' = phase
    <3>1. \A h \in Hook : heard'["on_node_start"][h] = IF h < hook' THEN 1 ELSE 0
      BY <2>1, <2>2, <2>4, <2>6, <1>c DEF Hook
    <3> QED
      BY <2>1, <2>3, <2>5, <2>6, <3>1 DEF HookCounts, ToldSoFar
  <2>7. ASSUME NEW e \in UserError, Conclude(e)
        PROVE  HookCounts'
    <3>1. phase' \in {"on_node_end", "on_error"} /\ hook' = 1
      BY <2>7 DEF Conclude
    <3>2. \A h \in Hook : ~(h < 1)
      BY <1>c DEF Hook
    <3> QED
      BY <2>3, <2>5, <3>1, <3>2 DEF HookCounts, ToldSoFar
  <2> QED
    BY <1>3, <2>6, <2>7 DEF StartHook, AfterGate
<1>4. CASE Enter
  <2>1. phase = "on_node_start" /\ hook > HookCount
    BY <1>4 DEF Enter, AllTold
  <2>2. \A h \in Hook : heard["on_node_start"][h] = 1 /\ heard["on_node_end"][h] = 0
    BY <2>1, <1>c DEF HookCounts, ToldSoFar, Hook
  <2>3. heard' = heard /\ result' # "ok" /\ phase' \notin {"on_node_start", "returned"}
    BY <1>4, <2>1, <1>a DEF Enter, Conclude
  <2>4. phase' = "on_node_end" => hook' = 1
    BY <1>4 DEF Enter, Conclude
  <2>5. \A h \in Hook : ~(h < 1)
    BY <1>c DEF Hook
  <2> QED
    BY <2>2, <2>3, <2>4, <2>5 DEF HookCounts, ToldSoFar, AllHeard
<1>5. CASE Prep
  BY <1>5, <1>a, <1>b, CountsStand DEF Prep, Conclude, Racing
<1>6. CASE ExecBody \/ RetryHook \/ WaitOver
  <2>1. PICK r \in RetryState(0 .. MaxRetries) : Exec(r)
    BY <1>6, LoopSteps
  <2>2. phase' \in {"exec", "post", "on_error", "on_node_end"}
    BY <2>1 DEF Exec, WorkPolled, Conclude
  <2>3. phase' = "on_node_end" => hook' = 1
    BY <2>1 DEF Exec, WorkPolled, Conclude
  <2>4. phase = "exec" /\ heard' = heard /\ result' = result
    BY <2>1 DEF Exec, WorkPolled
  <2> QED
    BY <2>2, <2>3, <2>4, <1>a, <1>b, CountsStand DEF Racing
<1>7. CASE Post
  BY <1>7, <1>a, <1>b, CountsStand DEF Post, Conclude, Racing
<1>8. CASE LoseRace
  <2>1. phase' \in {"on_error", "on_node_end"} /\ hook' = 1
    BY <1>8 DEF LoseRace, Conclude
  <2> QED
    BY <1>8, <2>1, <1>a, <1>b, CountsStand DEF LoseRace, history
<1>9. CASE ErrorHook
  <2>1. phase = "on_error" /\ skipped' = skipped
    BY <1>9 DEF ErrorHook, AtHook
  <2>2. phase' = phase \/ (phase' = "on_node_end" /\ hook' = 1)
    BY <1>9 DEF ErrorHook
  <2> QED
    BY <1>9, <2>1, <2>2, <1>a, CountsStand DEF ErrorHook
<1>10. CASE Unrouted
  BY <1>10, <1>a, CountsStand DEF Unrouted, AllTold, history
<1>11. CASE EndHook
  <2>1. hook \in Hook /\ phase = "on_node_end" /\ "on_node_end" \in End
    BY <1>11, <1>c DEF EndHook, AtHook, End, Hook
  <2>2. /\ \A h \in Hook : heard'["on_node_end"][h] =
                 IF h = hook THEN heard["on_node_end"][h] + 1 ELSE heard["on_node_end"][h]
        /\ heard'["on_node_start"] = heard["on_node_start"]
    BY <1>11, <2>1, HookIsHeard DEF EndHook, End, TypeOK
  <2>3. result' # "ok" /\ begun' = begun /\ skipped' = skipped
    BY <1>11, <2>1, <1>a, ErrorsDiffer DEF EndHook, ErrorKinds
  <2>4. \A h \in Hook : heard["on_node_end"][h] = IF h < hook THEN 1 ELSE 0
    BY <2>1 DEF HookCounts, ToldSoFar
  <2>5. begun # {} \/ skipped => AllHeard("on_node_start")'
    BY <2>1, <2>2 DEF HookCounts, AllHeard
  <2>6. \A h \in Hook : heard'["on_node_end"][h] = IF h < hook + 1 THEN 1 ELSE 0
    BY <2>1, <2>2, <2>4, <1>c DEF Hook
  <2>7. (hook' = hook + 1 /\ phase' = "on_node_end") \/ phase' = "returned"
    BY <1>11, <2>1 DEF EndHook
  <2>8. (\A h \in Hook : heard["on_node_end"][h] <= 1)'
    BY <2>6, <1>c
  <2> QED
    BY <2>3, <2>5, <2>6, <2>7, <2>8 DEF HookCounts, ToldSoFar
<1>12. CASE Finish
  <2>1. phase = "on_node_end" /\ hook > HookCount /\ phase' = "returned"
    BY <1>12 DEF Finish, AllTold
  <2>2. \A h \in Hook : heard["on_node_end"][h] = 1
    BY <2>1, <1>c DEF HookCounts, ToldSoFar, Hook
  <2> QED
    BY <1>12, <2>1, <2>2 DEF Finish, history, HookCounts, AllHeard
<1>13. CASE Returned
  BY <1>13 DEF Returned, vars, node, history, HookCounts, ToldSoFar, AllHeard
<1>14. CASE UNCHANGED vars
  BY <1>14 DEF vars, node, history, HookCounts, ToldSoFar, AllHeard
<1> QED
  BY <1>1, <1>2, <1>3, <1>4, <1>5, <1>6, <1>7, <1>8, <1>9, <1>10, <1>11, <1>12, <1>13, <1>14
     DEF Next, Hooks, Bodies, Engine

--------------------------------------------------------------------------------
\* LInv is an invariant of the visit, for every number of hooks and retries.
THEOREM LifecycleInvariance == Spec => []LInv
<1>1. LInv /\ [Next]_vars => LInv'
  BY TypeKept, StageKept, CountsKept DEF LInv
<1> QED
  BY <1>1, InitEstablishes, PTL DEF Spec

\* The visit has its type.
THEOREM LifecycleTyped == Spec => []TypeOK
BY LifecycleInvariance, PTL DEF LInv

\* A visit that succeeds has one author of its action, whatever the hooks and
\* the retries (node.rs 225-265).
THEOREM OneAuthor == Spec => []ActionHasOneAuthor
<1>1. LInv => ActionHasOneAuthor
  BY DEF LInv, StageHolds, Authored, ActionHasOneAuthor
<1> QED
  BY <1>1, LifecycleInvariance, PTL

\* Every hook is told of the end of a visit that succeeds, once, and of its
\* start too unless a failed start hook was routed around (hooks.rs 122-163).
THEOREM BothEndsHeard == Spec => []HooksHearBothEnds
<1>1. LInv => HooksHearBothEnds
  <2> SUFFICES ASSUME LInv PROVE HooksHearBothEnds
    OBVIOUS
  <2> USE DEF LInv, StageHolds, HookCounts, AllHeard
  <2>1. result = "ok" => phase = "returned"
    BY ErrorsDiffer DEF ErrorKinds
  <2>2. \A h \in Hook : heard["on_node_end"][h] <= 1
    <3>1. CASE phase = "on_node_end"
      BY <3>1 DEF ToldSoFar
    <3>2. CASE phase = "returned"
      BY <3>2
    <3>3. CASE phase \notin {"on_node_end", "returned"}
      BY <3>3
    <3> QED
      BY <3>1, <3>2, <3>3
  <2>3. result = "ok" /\ (author # "route" \/ begun # {}) => AllHeard("on_node_start")
    BY <2>1 DEF Authored
  <2> QED
    BY <2>2, <2>3 DEF HooksHearBothEnds
<1> QED
  BY <1>1, LifecycleInvariance, PTL

\* Once the visit has an error no body is called and the retry loop stands
\* still: what lost the race is dropped (node.rs 232-234).
THEOREM LateNever == Spec => NothingLate
<1>1. LInv /\ [Next]_vars => [error # None => begun' = begun /\ retry' = retry]_vars
  <2> SUFFICES ASSUME LInv, Next, error # None
               PROVE  begun' = begun /\ retry' = retry
    BY DEF Next
  <2>1. ~Racing /\ phase # "on_node_start"
    BY DEF LInv, StageHolds
  <2> QED
    BY <2>1 DEF Next, Hooks, Bodies, Engine, Cancel, Expire, StartHook, RetryHook, ErrorHook,
       EndHook, Prep, ExecBody, Post, Enter, LoseRace, Unrouted, Finish, WaitOver, Returned,
       Exec, WorkPolled, AtHook, AllTold, Racing, history, node, vars
<1> QED
  BY <1>1, LifecycleInvariance, PTL DEF Spec, NothingLate

--------------------------------------------------------------------------------
\* What a caller sees of the visit.
View == [at |-> Stage, error |-> Returning]

\* The step of a caller's view that the visit takes, if it takes one.
Seen == View' \in AbstractVisit!Steps(View, cancelled) /\ UNCHANGED cancelled

\* The view of a visit whose start hooks are asked.
LEMMA StartSeen == phase = "on_node_start" => View = AbstractVisit!Fresh
BY DEF View, Stage, Returning, Racing, AbstractVisit!Fresh

\* The view of a visit whose work races.
LEMMA WorkSeen == Racing => View = [at |-> "work", error |-> None]
BY DEF View, Stage, Returning, Racing

\* The view of a visit whose on_error hooks are asked.
LEMMA ErrorSeen == phase = "on_error" => View = [at |-> "on_error", error |-> error]
BY DEF View, Stage, Returning, Racing

\* The view of a visit whose end hooks are told.
LEMMA EndSeen == phase = "on_node_end" => View = [at |-> "end", error |-> thrown]
BY DEF View, Stage, Returning, Racing

\* What the race or a start hook ends with is what a caller sees the visit
\* conclude with.
LEMMA ConcludesAs ==
  ASSUME NEW e, thrown = None, Conclude(e)
  PROVE  View' = AbstractVisit!Conclude(e)
<1>1. CASE Terminal(e)
  <2>1. phase' = "on_node_end" /\ thrown' = e
    BY <1>1 DEF Conclude, Terminal
  <2> QED
    BY <1>1, <2>1 DEF View, Stage, Returning, Racing, AbstractVisit!Conclude, Terminal
<1>2. CASE ~Terminal(e)
  <2>1. phase' = "on_error" /\ error' = e
    BY <1>2 DEF Conclude
  <2> QED
    BY <1>2, <2>1 DEF View, Stage, Returning, Racing, AbstractVisit!Conclude, Terminal
<1> QED
  BY <1>1, <1>2

\* A step leaves the view as it is, or is a step of the caller's visit.
LEMMA StepSeen ==
  ASSUME LInv, [Next]_vars
  PROVE  [AbstractVisit!VisitNext]_(AbstractVisit!vvars)
<1> DEFINE Same == View' = View /\ cancelled' = cancelled
<1>s. Same => UNCHANGED AbstractVisit!vvars
  BY DEF View, AbstractVisit!vvars
<1>n. Seen => AbstractVisit!VisitNext
  BY DEF Seen, View, AbstractVisit!VisitNext
<1>t. /\ thrown \in Error \cup {None} /\ error \in Error \cup {None}
      /\ Error = UserError \cup {Timeout}
  BY DEF LInv, TypeOK, Error
<1>u. phase = "on_node_start" \/ Racing => thrown = None
  BY DEF LInv, StageHolds, Undecided
<1>1. CASE Cancel
  <2>1. View' = View /\ cancelled' = TRUE
    BY <1>1 DEF Cancel, View, Stage, Returning, Racing
  <2> QED
    BY <2>1 DEF View, AbstractVisit!VisitNext
<1>2. CASE Expire
  <2>1. Same
    BY <1>2 DEF Expire, View, Stage, Returning, Racing
  <2> QED
    BY <1>s, <2>1
<1>3. CASE StartHook
  <2>1. phase = "on_node_start" /\ cancelled' = cancelled
    BY <1>3 DEF StartHook, AtHook
  <2>2. CASE phase' = phase
    <3>1. View' = View
      BY <2>1, <2>2 DEF View, Stage, Returning, Racing
    <3> QED
      BY <1>s, <2>1, <3>1
  <2>3. ASSUME NEW e \in UserError, Conclude(e)
        PROVE  Seen
    BY <2>1, <2>3, <1>u, StartSeen, ConcludesAs DEF Seen, AbstractVisit!Steps, AbstractVisit!Fresh
  <2> QED
    BY <1>3, <1>s, <1>n, <2>2, <2>3 DEF StartHook
<1>4. CASE Enter
  <2>1. phase = "on_node_start" /\ cancelled' = cancelled /\ Aborted \in UserError
    BY <1>4, ErrorsDiffer DEF Enter, AllTold, ErrorKinds
  <2>2. ASSUME NEW e \in UserError \cup {None}, Conclude(e)
        PROVE  Seen
    BY <2>1, <2>2, <1>u, StartSeen, ConcludesAs DEF Seen, AbstractVisit!Steps, AbstractVisit!Fresh
  <2>3. ASSUME ~cancelled, phase' = "prep"
        PROVE  Seen
    <3>1. View' = [at |-> "work", error |-> None]
      BY <2>3 DEF View, Stage, Returning, Racing
    <3> QED
      BY <2>1, <2>3, <3>1, StartSeen
      DEF Seen, AbstractVisit!Steps, AbstractVisit!Fresh, AbstractVisit!EntryRefused
  <2> QED
    BY <1>4, <1>n, <2>1, <2>2, <2>3 DEF Enter, EntryRefused
<1>w. ASSUME Racing, cancelled' = cancelled,
             Racing' \/ \E e \in UserError \cup {Timeout, None} : Conclude(e)
      PROVE  Same \/ Seen
  <2>1. CASE Racing'
    <3>1. View' = [at |-> "work", error |-> None]
      BY <2>1 DEF View, Stage, Returning, Racing
    <3> QED
      BY <1>w, <3>1, WorkSeen
  <2>2. ASSUME NEW e \in UserError \cup {Timeout, None}, Conclude(e)
        PROVE  Seen
    BY <1>w, <2>2, <1>u, WorkSeen, ConcludesAs DEF Seen, AbstractVisit!Steps
  <2> QED
    BY <1>w, <2>1, <2>2
<1>5. CASE Prep
  <2>1. Racing /\ cancelled' = cancelled /\ (Racing' \/ \E e \in UserError : Conclude(e))
    BY <1>5 DEF Prep, Racing
  <2> QED
    BY <1>s, <1>n, <1>w, <2>1
<1>6. CASE ExecBody \/ RetryHook \/ WaitOver
  <2>1. PICK r \in RetryState(0 .. MaxRetries) : Exec(r) /\ (r.at = "done" => r.result # None)
    BY <1>6, LoopSteps DEF LInv
  <2>2. r.at = "done" /\ r.result # "ok" => r.result \in UserError
    BY <2>1 DEF RetryState, Outcome
  <2>3. Racing /\ cancelled' = cancelled /\ (Racing' \/ \E e \in UserError : Conclude(e))
    BY <2>1, <2>2 DEF Exec, WorkPolled, Racing
  <2> QED
    BY <1>s, <1>n, <1>w, <2>3
<1>7. CASE Post
  <2>1. Racing /\ cancelled' = cancelled /\ \E e \in UserError \cup {None} : Conclude(e)
    BY <1>7 DEF Post, Racing
  <2> QED
    BY <1>s, <1>n, <1>w, <2>1
<1>8. CASE LoseRace
  <2>1. Racing /\ cancelled' = cancelled /\ \E e \in UserError \cup {Timeout} : Conclude(e)
    BY <1>8, ErrorsDiffer DEF LoseRace, ErrorKinds
  <2> QED
    BY <1>s, <1>n, <1>w, <2>1
<1>o. ASSUME phase = "on_error", cancelled' = cancelled, phase' = "on_node_end",
             thrown' \in UserError \cup {error, None}
      PROVE  Seen
  <2>1. View' = [at |-> "end", error |-> thrown']
    BY <1>o DEF View, Stage, Returning, Racing
  <2> QED
    BY <1>o, <2>1, ErrorSeen DEF Seen, AbstractVisit!Steps
<1>9. CASE ErrorHook
  <2>1. phase = "on_error" /\ cancelled' = cancelled /\ error' = error
    BY <1>9 DEF ErrorHook, AtHook
  <2>2. CASE phase' = phase
    <3>1. View' = View
      BY <2>1, <2>2 DEF View, Stage, Returning, Racing
    <3> QED
      BY <1>s, <2>1, <3>1
  <2>3. CASE phase' = "on_node_end" /\ thrown' \in UserError \cup {error, thrown}
    <3>1. thrown = None
      BY <2>1 DEF LInv, StageHolds, Undecided
    <3> QED
      BY <1>o, <1>n, <2>1, <2>3, <3>1
  <2> QED
    BY <1>9, <2>2, <2>3 DEF ErrorHook
<1>10. CASE Unrouted
  BY <1>10, <1>o, <1>n DEF Unrouted, AllTold
<1>e. ASSUME phase = "on_node_end", cancelled' = cancelled, phase' = "returned",
             \E e \in UserError \cup {thrown} :
               e # "ok" /\ result' = IF e = None THEN "ok" ELSE e
      PROVE  Seen
  <2>1. PICK e \in UserError \cup {thrown} :
          e # "ok" /\ result' = IF e = None THEN "ok" ELSE e
    BY <1>e
  <2>2. View' = AbstractVisit!Done(e)
    BY <1>e, <2>1 DEF View, Stage, Returning, Racing, AbstractVisit!Done
  <2> QED
    BY <1>e, <2>2, EndSeen DEF Seen, AbstractVisit!Steps
<1>11. CASE EndHook
  <2>1. phase = "on_node_end" /\ cancelled' = cancelled /\ thrown' = thrown
    BY <1>11 DEF EndHook, AtHook
  <2>2. CASE phase' = phase
    <3>1. View' = View
      BY <2>1, <2>2 DEF View, Stage, Returning, Racing
    <3> QED
      BY <1>s, <2>1, <3>1
  <2>3. CASE phase' = "returned" /\ result' \in UserError
    <3>1. result' # "ok" /\ result' # None
      BY <2>3, ErrorsDiffer DEF ErrorKinds
    <3> QED
      BY <1>e, <1>n, <2>1, <2>3, <3>1
  <2> QED
    BY <1>11, <2>2, <2>3 DEF EndHook
<1>12. CASE Finish
  <2>1. /\ phase = "on_node_end" /\ cancelled' = cancelled /\ phase' = "returned"
        /\ result' = IF thrown = None THEN "ok" ELSE thrown
    BY <1>12 DEF Finish, AllTold
  <2>2. thrown # "ok"
    BY <1>t, ErrorsDiffer DEF ErrorKinds
  <2> QED
    BY <1>e, <1>n, <2>1, <2>2
<1>13. CASE Returned
  <2>1. Same
    BY <1>13 DEF Returned, vars, node, View, Stage, Returning, Racing
  <2> QED
    BY <1>s, <2>1
<1>14. CASE UNCHANGED vars
  <2>1. Same
    BY <1>14 DEF vars, node, View, Stage, Returning, Racing
  <2> QED
    BY <1>s, <2>1
<1> QED
  BY <1>1, <1>2, <1>3, <1>4, <1>5, <1>6, <1>7, <1>8, <1>9, <1>10, <1>11, <1>12, <1>13, <1>14
     DEF Next, Hooks, Bodies, Engine

\* The visit implements the visit its callers know, for every number of hooks
\* and retries (node.rs 207-209, 225-283).
THEOREM VisitImplemented == Spec => ImplementsVisit
<1>1. Init => AbstractVisit!VisitInit
  BY StartSeen DEF Init, View, AbstractVisit!VisitInit
<1> QED
  BY <1>1, StepSeen, LifecycleInvariance, PTL
  DEF Spec, ImplementsVisit, AbstractVisit!VisitSpec

================================================================================
