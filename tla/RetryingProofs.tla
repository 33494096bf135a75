----------------------------- MODULE RetryingProofs -----------------------------
(***************************************************************************)
(* What one step of the retry loop can be: the facts the proofs about its   *)
(* users (NodeLifecycle, BatchNode) rest on.                                *)
(***************************************************************************)
EXTENDS Retrying, TLAPS

\* A loop that a step can start from: suspended, at a hook that exists.
Suspended(r) ==
  /\ r.at # "done"
  /\ r.at = "on_retry" => r.hook \in Hook

\* The hooks from the h-th on are told, then the pause or the next attempt.
Tells(r, s, h) ==
  \/ h <= HookCount /\ s.at = "on_retry" /\ s.hook = h /\ s.attempt = r.attempt
  \/ h > HookCount /\ s.at = "wait" /\ s.attempt = r.attempt
  \/ h > HookCount /\ s.at = "attempt" /\ s.attempt = r.attempt + 1

\* The stops that can follow r.
Follows(r, s) ==
  \/ s.at = "done" /\ s.result # None
  \/ r.at = "attempt" /\ r.attempt = r.max /\ s.at = "fallback"
     /\ s.attempt = r.attempt
  \/ r.at = "attempt" /\ r.attempt # r.max /\ Tells(r, s, 1)
  \/ r.at = "on_retry" /\ Tells(r, s, r.hook + 1)
  \/ r.at = "wait" /\ s.at = "attempt" /\ s.attempt = r.attempt + 1

\* A new loop stands at its first attempt.
LEMMA StartStands ==
  ASSUME NEW maxes, NEW m \in maxes, NEW b \in BOOLEAN
  PROVE  /\ StartRetrying(m, b) \in RetryState(maxes)
         /\ StartRetrying(m, b).max = m
         /\ StartRetrying(m, b).at = "attempt"
         /\ StartRetrying(m, b).attempt = 0
BY DEF StartRetrying, RetryState

\* A finished loop has what it returned.
LEMMA FinishedStands ==
  ASSUME NEW maxes, NEW r \in RetryState(maxes), NEW o \in Outcome \cup {None}
  PROVE  /\ Finished(r, o) \in RetryState(maxes)
         /\ Finished(r, o).max = r.max
         /\ Finished(r, o).at = "done"
         /\ Finished(r, o).result = o
<1> DEFINE s == [r EXCEPT !.at = "done", !.result = o]
<1>1. s \in RetryState(maxes) /\ s.max = r.max /\ s.at = "done" /\ s.result = o
  BY DEF RetryState
<1> QED
  BY <1>1 DEF Finished

\* The next attempt is a step that keeps the type.
LEMMA AgainCounts ==
  ASSUME NEW maxes, NEW r \in RetryState(maxes)
  PROVE  /\ Again(r) \in RetryState(maxes)
         /\ Again(r).max = r.max
         /\ Again(r).at = "attempt"
         /\ Again(r).attempt = r.attempt + 1
<1> DEFINE k == r.attempt + 1
<1>1. k \in Nat
  BY DEF RetryState
<1>2. Again(r) = [r EXCEPT !.at = "attempt", !.attempt = k]
  BY DEF Again
<1> HIDE DEF k
<1>3. Again(r) \in RetryState(maxes)
  BY <1>1, <1>2 DEF RetryState
<1>4. Again(r).max = r.max /\ Again(r).at = "attempt" /\ Again(r).attempt = k
  BY <1>2 DEF RetryState
<1> QED
  BY <1>3, <1>4 DEF k

\* A fan-out that starts at hook h is a step Tells describes.
LEMMA TellHookTells ==
  ASSUME NEW maxes, NEW r \in RetryState(maxes), NEW h \in Nat \ {0}
  PROVE  /\ TellHook(r, h) \in RetryState(maxes)
         /\ TellHook(r, h).max = r.max
         /\ Tells(r, TellHook(r, h), h)
         /\ Suspended(TellHook(r, h))
<1> DEFINE s == TellHook(r, h)
<1>1. CASE h <= HookCount
  <2>1. s = [r EXCEPT !.at = "on_retry", !.hook = h]
    BY <1>1 DEF TellHook
  <2>2. s \in RetryState(maxes) /\ s.max = r.max /\ s.at = "on_retry" /\ s.hook = h
        /\ s.attempt = r.attempt
    BY <2>1 DEF RetryState
  <2>3. h \in Hook
    BY <1>1, RetryingAssumption DEF Hook
  <2> QED
    BY <1>1, <2>2, <2>3 DEF Tells, Suspended
<1>2. CASE h > HookCount /\ r.waits
  <2>1. s = [r EXCEPT !.at = "wait"]
    BY <1>2, RetryingAssumption DEF TellHook
  <2>2. s \in RetryState(maxes) /\ s.max = r.max /\ s.at = "wait"
        /\ s.attempt = r.attempt
    BY <2>1 DEF RetryState
  <2> QED
    BY <1>2, <2>2 DEF Tells, Suspended
<1>3. CASE h > HookCount /\ ~r.waits
  <2>1. s = Again(r)
    BY <1>3, RetryingAssumption DEF TellHook
  <2> QED
    BY <1>3, <2>1, AgainCounts DEF Tells, Suspended
<1>4. h <= HookCount \/ h > HookCount
  BY RetryingAssumption
<1> QED
  BY <1>1, <1>2, <1>3, <1>4

\* Whatever a suspended loop waits for, its next stop is one of Follows, it
\* keeps its type and its budget, and it is suspended again or done.
LEMMA ResumeFollows ==
  ASSUME NEW maxes, NEW r \in RetryState(maxes), Suspended(r), NEW o \in Outcome
  PROVE  /\ Resume(r, o) \in RetryState(maxes)
         /\ Resume(r, o).max = r.max
         /\ Follows(r, Resume(r, o))
         /\ Resume(r, o).at # "done" => Suspended(Resume(r, o))
<1> DEFINE s == Resume(r, o)
<1>f. ASSUME s = Finished(r, o)
      PROVE  s \in RetryState(maxes) /\ s.max = r.max /\ s.at = "done" /\ s.result = o
  BY <1>f, FinishedStands
<1>n. o # None
  BY FlowErrorsAssumption DEF Outcome, UserError
<1>1. CASE r.at = "attempt" /\ NeverRetried(o)
  BY <1>1, <1>f, <1>n DEF Resume, Follows
<1>2. CASE r.at = "attempt" /\ ~NeverRetried(o)
  <2>1. o \in Failures
    BY <1>2 DEF NeverRetried, Outcome, UserError
  <2> DEFINE t == [r EXCEPT !.error = o]
  <2>2. t \in RetryState(maxes) /\ t.attempt = r.attempt /\ t.max = r.max
    BY <2>1 DEF RetryState
  <2>3. s = IF IsLast(r) THEN [t EXCEPT !.at = "fallback"] ELSE TellHook(t, 1)
    BY <1>2 DEF Resume, Failed
  <2>4. CASE IsLast(r)
    BY <1>2, <2>2, <2>3, <2>4 DEF IsLast, RetryState, Follows, Suspended
  <2>5. CASE ~IsLast(r)
    <3>1. s = TellHook(t, 1)
      BY <2>3, <2>5
    <3> HIDE DEF s, t
    <3>2. s \in RetryState(maxes) /\ s.max = t.max /\ Tells(t, s, 1) /\ Suspended(s)
      BY <2>2, <3>1, TellHookTells
    <3> QED
      BY <1>2, <2>2, <2>5, <3>2 DEF IsLast, Tells, Follows, s
  <2> QED
    BY <2>4, <2>5
<1>3. CASE r.at = "on_retry" /\ o = "ok"
  <2>1. s = TellHook(r, r.hook + 1) /\ r.hook + 1 \in Nat \ {0}
    BY <1>3 DEF Resume, RetryState
  <2> QED
    BY <1>3, <2>1, TellHookTells DEF Follows
<1>4. CASE r.at = "on_retry" /\ o # "ok"
  BY <1>4, <1>f, <1>n DEF Resume, Follows
<1>5. CASE r.at = "wait"
  <2>1. s = Again(r)
    BY <1>5 DEF Resume
  <2> QED
    BY <1>5, <2>1, AgainCounts DEF Follows, Suspended
<1>6. CASE r.at = "fallback"
  BY <1>6, <1>f, <1>n DEF Resume, Follows
<1> QED
  BY <1>1, <1>2, <1>3, <1>4, <1>5, <1>6 DEF RetryState, Suspended

\* Telling the hooks ends nothing and forgets nothing.
LEMMA TellHookKeeps ==
  ASSUME NEW maxes, NEW r \in RetryState(maxes), NEW h \in Nat
  PROVE  /\ TellHook(r, h).at # "done"
         /\ TellHook(r, h).error = r.error
         /\ TellHook(r, h).at # "attempt" => TellHook(r, h).attempt = r.attempt
<1> DEFINE k == r.attempt + 1
<1>1. k \in Nat
  BY DEF RetryState
<1>2. TellHook(r, h) = IF h <= HookCount THEN [r EXCEPT !.at = "on_retry", !.hook = h]
                       ELSE IF r.waits THEN [r EXCEPT !.at = "wait"]
                       ELSE [r EXCEPT !.at = "attempt", !.attempt = k]
  BY DEF TellHook, Again
<1> HIDE DEF k
<1> QED
  BY <1>1, <1>2 DEF RetryState

\* The loop returns what it was given last; its error is that of its last
\* failed attempt; the attempt advances only where a new one begins; and an
\* attempt that succeeds is the last.
LEMMA ResumeKeeps ==
  ASSUME NEW maxes, NEW r \in RetryState(maxes), Suspended(r), NEW o \in Outcome
  PROVE  LET s == Resume(r, o)
         IN  /\ s.at = "done" => s.result = o
             /\ s.at # "attempt" => s.attempt = r.attempt
             /\ \/ s.error = r.error
                \/ r.at = "attempt" /\ ~NeverRetried(o) /\ s.error = o
             /\ r.at = "attempt" /\ o = "ok" => s.at = "done"
<1> DEFINE s == Resume(r, o)
<1>f. ASSUME s = Finished(r, o)
      PROVE  s.at = "done" /\ s.result = o /\ s.attempt = r.attempt /\ s.error = r.error
  BY <1>f DEF Finished, RetryState
<1>1. CASE r.at = "attempt" /\ NeverRetried(o)
  BY <1>1, <1>f DEF Resume
<1>2. CASE r.at = "attempt" /\ ~NeverRetried(o)
  <2>1. o \in Failures /\ o # "ok"
    BY <1>2 DEF NeverRetried, Outcome, UserError
  <2> DEFINE t == [r EXCEPT !.error = o]
  <2>2. t \in RetryState(maxes) /\ t.attempt = r.attempt /\ t.error = o
    BY <2>1 DEF RetryState
  <2>3. s = IF IsLast(r) THEN [t EXCEPT !.at = "fallback"] ELSE TellHook(t, 1)
    BY <1>2 DEF Resume, Failed
  <2>4. CASE IsLast(r)
    BY <1>2, <2>1, <2>2, <2>3, <2>4 DEF RetryState
  <2>5. CASE ~IsLast(r)
    <3>1. s = TellHook(t, 1)
      BY <2>3, <2>5
    <3> HIDE DEF s, t
    <3>2. s.at # "done" /\ s.error = o /\ (s.at # "attempt" => s.attempt = r.attempt)
      BY <2>2, <3>1, TellHookKeeps
    <3> QED
      BY <1>2, <2>1, <3>2 DEF s
  <2> QED
    BY <2>4, <2>5
<1>3. CASE r.at = "on_retry" /\ o = "ok"
  <2>1. s = TellHook(r, r.hook + 1) /\ r.hook + 1 \in Nat
    BY <1>3 DEF Resume, RetryState
  <2> QED
    BY <1>3, <2>1, TellHookKeeps
<1>4. CASE r.at = "on_retry" /\ o # "ok"
  BY <1>4, <1>f DEF Resume
<1>5. CASE r.at = "wait"
  <2>1. s = Again(r)
    BY <1>5 DEF Resume
  <2>2. s.error = r.error
    BY <2>1 DEF Again, RetryState
  <2> QED
    BY <1>5, <2>1, <2>2, AgainCounts
<1>6. CASE r.at = "fallback"
  BY <1>6, <1>f DEF Resume
<1> QED
  BY <1>1, <1>2, <1>3, <1>4, <1>5, <1>6 DEF RetryState, Suspended

================================================================================
