------------------------------- MODULE FlowProofs -------------------------------
(***************************************************************************)
(* The run of a Flow over every graph, for any nesting of flows, budgets,   *)
(* hook sets and errors: its type, the budgets of the stack of its          *)
(* traversals, what it returns and tells its hooks, and that a cancel       *)
(* reaches every depth of it and is not lost on the way back.               *)
(***************************************************************************)
EXTENDS Flow, SequenceTheorems, TLAPS

(***************************************************************************)
(* The inductive invariant.                                                 *)
(***************************************************************************)

\* A graph stays within its flow.
WiredWithin ==
  /\ \A f \in Flows : start[f] \in InGraph(f)
  /\ \A x \in Element, a \in Action : edges[x][a] \in InGraph(Home[x])

\* One traversal: within its budget and its own graph, under the run's token.
FrameStands(f) ==
  /\ f.signal = "run"
  /\ f.steps <= max[f.flow]
  /\ f.curr # None => Home[f.curr] = f.flow
  /\ f.at \in {"visit", "nested"} => f.curr # None

\* The stack: each traversal but the last waits for the one above it.
StackStands(s) ==
  /\ \A i \in 1 .. Len(s) :
       /\ FrameStands(s[i])
       /\ i < Len(s) <=> s[i].at = "nested"
  /\ \A i \in 1 .. Len(s) - 1 : s[i].curr = s[i + 1].flow

FramesStand ==
  /\ phase = "running" <=> Len(frames) > 0
  /\ StackStands(frames)

\* The hooks before the one that is awaited were told of the end, once.
HooksTold ==
  /\ phase \in {"on_start", "running"} => \A h \in Hook : heard[h] = 0
  /\ phase = "on_end" => \A h \in Hook : heard[h] = IF h < hook THEN 1 ELSE 0
  /\ phase = "returned" => \A h \in Hook : heard[h] <= 1
  /\ phase = "running" => hook = 1
  /\ result = "ok" => \A h \in Hook : heard[h] = 1
  /\ phase = "on_start" => trail = <<>>
  /\ phase = "returned" /\ hook <= HookCount /\ heard[hook] = 0 =>
       trail = <<>> /\ \A h \in Hook : heard[h] = 0

\* The last error that arose is the one that is returned.
ErrorsStand ==
  /\ phase \in {"on_start", "running"} => err = None /\ raised = None
  /\ phase = "on_end" => raised = err
  /\ phase # "returned" => result = None
  /\ phase = "returned" => result = IF raised = None THEN "ok" ELSE raised
  /\ err = Cycle => culprit.steps = max[culprit.flow] + 1

FlowInv == TypeOK /\ WiredWithin /\ FramesStand /\ HooksTold /\ ErrorsStand

--------------------------------------------------------------------------------
(***************************************************************************)
(* The stack of traversals as a sequence.                                   *)
(***************************************************************************)

\* The front of a stack is all of it but the innermost traversal.
LEMMA FrontOfStack ==
  \A s \in Seq(Frame) : Len(s) > 0 =>
    /\ Front(s) \in Seq(Frame) /\ Len(Front(s)) = Len(s) - 1
    /\ \A i \in 1 .. Len(s) - 1 : Front(s)[i] = s[i]
    /\ Last(s) = s[Len(s)] /\ Last(s) \in Frame
<1> SUFFICES ASSUME NEW s \in Seq(Frame), Len(s) > 0
             PROVE  /\ Front(s) \in Seq(Frame) /\ Len(Front(s)) = Len(s) - 1
                    /\ \A i \in 1 .. Len(s) - 1 : Front(s)[i] = s[i]
                    /\ Last(s) = s[Len(s)] /\ Last(s) \in Frame
  OBVIOUS
<1> DEFINE k == Len(s) - 1
<1>1. k \in Nat /\ Len(s) = k + 1
  OBVIOUS
<1>2. Last(s) = s[Len(s)] /\ Last(s) \in Frame
  BY DEF Last
<1>3. Front(s) = SubSeq(s, 1, k)
  BY DEF Front
<1> HIDE DEF k
<1>4. SubSeq(s, 1, k) \in Seq(Frame) /\ Len(SubSeq(s, 1, k)) = k
  BY <1>1
<1>5. \A i \in 1 .. k : SubSeq(s, 1, k)[i] = s[i]
  BY <1>1
<1>6. Len(s) - 1 = k
  BY DEF k
<1> QED
  BY <1>2, <1>3, <1>4, <1>5, <1>6

\* One is put on top.
LEMMA PutOnTop ==
  \A s \in Seq(Frame), f \in Frame :
    /\ s \o <<f>> \in Seq(Frame) /\ Len(s \o <<f>>) = Len(s) + 1
    /\ \A i \in 1 .. Len(s) : (s \o <<f>>)[i] = s[i]
    /\ (s \o <<f>>)[Len(s) + 1] = f
<1> SUFFICES ASSUME NEW s \in Seq(Frame), NEW f \in Frame
             PROVE  /\ s \o <<f>> \in Seq(Frame) /\ Len(s \o <<f>>) = Len(s) + 1
                    /\ \A i \in 1 .. Len(s) : (s \o <<f>>)[i] = s[i]
                    /\ (s \o <<f>>)[Len(s) + 1] = f
  OBVIOUS
<1>1. s \o <<f>> = Append(s, f)
  OBVIOUS
<1> QED
  BY <1>1, AppendProperties

--------------------------------------------------------------------------------
(***************************************************************************)
(* What the steps do to the stack.                                          *)
(***************************************************************************)

\* While run is in its traversals one is the innermost, and waits for none.
LEMMA Running ==
  ASSUME FlowInv, phase = "running"
  PROVE  /\ Len(frames) > 0 /\ frames \in Seq(Frame)
         /\ Top = frames[Len(frames)] /\ Top \in Frame
         /\ FrameStands(Top) /\ Top.at # "nested"
<1>1. Len(frames) > 0 /\ frames \in Seq(Frame)
  BY DEF FlowInv, FramesStand, TypeOK
<1>2. Top = frames[Len(frames)] /\ Top \in Frame
  BY <1>1, FrontOfStack DEF Top
<1>3. Len(frames) \in 1 .. Len(frames)
  BY <1>1
<1> QED
  BY <1>1, <1>2, <1>3 DEF FlowInv, FramesStand, StackStands

\* The innermost traversal takes a step of its own.
LEMMA SetTopKeeps ==
  ASSUME FlowInv, phase = "running", phase' = "running", UNCHANGED graph,
         NEW f \in Frame, FrameStands(f), f.flow = Top.flow, f.at # "nested",
         SetTop(f)
  PROVE  frames' \in Seq(Frame) /\ FramesStand'
<1> DEFINE m == Len(frames)
           r == Front(frames)
<1>1. m \in Nat /\ m > 0 /\ frames \in Seq(Frame) /\ Top = frames[m]
  BY Running
<1>2. r \in Seq(Frame) /\ Len(r) = m - 1 /\ \A i \in 1 .. m - 1 : r[i] = frames[i]
  BY <1>1, FrontOfStack
<1>3. frames' = r \o <<f>>
  BY DEF SetTop
<1> HIDE DEF r
<1>4. /\ frames' \in Seq(Frame) /\ Len(frames') = m
      /\ \A i \in 1 .. m - 1 : frames'[i] = frames[i]
      /\ frames'[m] = f
  BY <1>1, <1>2, <1>3, PutOnTop
<1>5. max' = max
  BY DEF graph
<1>6. /\ \A i \in 1 .. m : FrameStands(frames[i]) /\ (i < m <=> frames[i].at = "nested")
      /\ \A i \in 1 .. m - 1 : frames[i].curr = frames[i + 1].flow
  BY DEF FlowInv, FramesStand, StackStands
<1> HIDE DEF m
<1>7. ASSUME NEW i \in 1 .. m
      PROVE  FrameStands(frames[i])' /\ (i < m <=> frames'[i].at = "nested")
  <2>1. CASE i < m
    BY <1>1, <1>4, <1>5, <1>6, <2>1 DEF FrameStands
  <2>2. CASE i = m
    BY <1>1, <1>4, <1>5, <2>2 DEF FrameStands
  <2> QED
    BY <1>1, <2>1, <2>2
<1>8. ASSUME NEW i \in 1 .. m - 1
      PROVE  frames'[i].curr = frames'[i + 1].flow
  <2>1. CASE i + 1 < m
    BY <1>1, <1>4, <1>6, <2>1
  <2>2. CASE i + 1 = m
    BY <1>1, <1>4, <1>6, <2>2
  <2> QED
    BY <1>1, <2>1, <2>2
<1>9. StackStands(frames)'
  BY <1>4, <1>7, <1>8 DEF StackStands
<1> QED
  BY <1>1, <1>4, <1>9 DEF FramesStand

\* The innermost traversal visits a flow, whose own traversal is put on top.
LEMMA PushKeeps ==
  ASSUME FlowInv, phase = "running", phase' = "running", UNCHANGED graph,
         NEW f \in Frame, FrameStands(f), f.flow = Top.flow, f.at = "nested",
         NEW g \in Frame, FrameStands(g), g.flow = f.curr, g.at # "nested",
         Push(f, g)
  PROVE  frames' \in Seq(Frame) /\ FramesStand'
<1> DEFINE m == Len(frames)
           r == Front(frames)
           q == r \o <<f>>
<1>1. m \in Nat /\ m > 0 /\ frames \in Seq(Frame) /\ Top = frames[m]
  BY Running
<1>2. r \in Seq(Frame) /\ Len(r) = m - 1 /\ \A i \in 1 .. m - 1 : r[i] = frames[i]
  BY <1>1, FrontOfStack
<1>4. frames' = Append(q, g) /\ q = r \o <<f>>
  BY DEF Push
<1> HIDE DEF r, q
<1>3. /\ q \in Seq(Frame) /\ Len(q) = m
      /\ \A i \in 1 .. m - 1 : q[i] = frames[i]
      /\ q[m] = f
  BY <1>1, <1>2, <1>4, PutOnTop
<1>5. /\ frames' \in Seq(Frame) /\ Len(frames') = m + 1
      /\ \A i \in 1 .. m - 1 : frames'[i] = frames[i]
      /\ frames'[m] = f /\ frames'[m + 1] = g
  BY <1>1, <1>3, <1>4, AppendProperties
<1>6. max' = max
  BY DEF graph
<1>7. /\ \A i \in 1 .. m : FrameStands(frames[i]) /\ (i < m <=> frames[i].at = "nested")
      /\ \A i \in 1 .. m - 1 : frames[i].curr = frames[i + 1].flow
  BY DEF FlowInv, FramesStand, StackStands
<1> HIDE DEF m
<1>8. ASSUME NEW i \in 1 .. m + 1
      PROVE  FrameStands(frames[i])' /\ (i < m + 1 <=> frames'[i].at = "nested")
  <2>1. CASE i < m
    <3>1. frames'[i] = frames[i] /\ i \in 1 .. m
      BY <1>1, <1>5, <2>1
    <3> QED
      BY <1>1, <1>6, <1>7, <2>1, <3>1 DEF FrameStands
  <2>2. CASE i = m
    BY <1>1, <1>5, <1>6, <2>2 DEF FrameStands
  <2>3. CASE i = m + 1
    BY <1>1, <1>5, <1>6, <2>3 DEF FrameStands
  <2> QED
    BY <1>1, <2>1, <2>2, <2>3
<1>9. ASSUME NEW i \in 1 .. m
      PROVE  frames'[i].curr = frames'[i + 1].flow
  <2>1. CASE i + 1 < m
    BY <1>1, <1>5, <1>7, <2>1
  <2>2. CASE i + 1 = m
    BY <1>1, <1>5, <1>7, <2>2
  <2>3. CASE i = m
    BY <1>1, <1>5, <2>3
  <2> QED
    BY <1>1, <2>1, <2>2, <2>3
<1>10. StackStands(frames)'
  BY <1>1, <1>5, <1>8, <1>9 DEF StackStands
<1> QED
  BY <1>1, <1>5, <1>10 DEF FramesStand

\* The innermost traversal has returned, and the one below it goes on.
LEMMA PopKeeps ==
  ASSUME FlowInv, phase = "running", phase' = "running", UNCHANGED graph,
         Len(frames) # 1, NEW f \in Frame, FrameStands(f),
         f.flow = Last(Front(frames)).flow, f.at # "nested",
         Pop(f)
  PROVE  frames' \in Seq(Frame) /\ FramesStand'
<1> DEFINE m == Len(frames) - 1
           q == Front(frames)
           r == Front(q)
<1>1. m \in Nat /\ m > 0 /\ frames \in Seq(Frame) /\ Len(frames) = m + 1
      /\ Len(frames) > 0
  <2>1. Len(frames) \in Nat /\ Len(frames) > 0 /\ frames \in Seq(Frame)
    BY Running
  <2>2. \A k \in Nat : k > 0 /\ k # 1 => k - 1 \in Nat /\ k - 1 > 0 /\ k = k - 1 + 1
    OBVIOUS
  <2> QED
    BY <2>1, <2>2
<1>2. q \in Seq(Frame) /\ Len(q) = m /\ \A i \in 1 .. m : q[i] = frames[i]
  BY <1>1, FrontOfStack
<1>3. frames' = r \o <<f>> /\ f.flow = Last(q).flow
  BY DEF Pop
<1> HIDE DEF q
<1>4. /\ r \in Seq(Frame) /\ Len(r) = m - 1
      /\ \A i \in 1 .. m - 1 : r[i] = q[i]
      /\ Last(q) = q[m]
  BY <1>1, <1>2, FrontOfStack
<1> HIDE DEF r
<1>5. /\ frames' \in Seq(Frame) /\ Len(frames') = m
      /\ \A i \in 1 .. m - 1 : frames'[i] = frames[i]
      /\ frames'[m] = f
  <2>1. /\ frames' \in Seq(Frame) /\ Len(frames') = Len(r) + 1
        /\ \A i \in 1 .. Len(r) : frames'[i] = r[i]
        /\ frames'[Len(r) + 1] = f
    BY <1>3, <1>4, PutOnTop
  <2>2. Len(r) = m - 1 /\ Len(r) + 1 = m
    BY <1>1, <1>4
  <2> QED
    BY <1>1, <1>2, <1>4, <2>1, <2>2
<1> HIDE DEF m
<1>6. f.flow = frames[m].flow
  <2>1. m \in 1 .. m
    BY <1>1
  <2>2. q[m] = frames[m]
    BY <1>2, <2>1
  <2> QED
    BY <1>3, <1>4, <2>2
<1>7. max' = max
  BY DEF graph
<1>8. /\ \A i \in 1 .. m + 1 : /\ FrameStands(frames[i])
                               /\ i < m + 1 <=> frames[i].at = "nested"
      /\ \A i \in 1 .. m : frames[i].curr = frames[i + 1].flow
  BY <1>1 DEF FlowInv, FramesStand, StackStands
<1>9. ASSUME NEW i \in 1 .. m
      PROVE  FrameStands(frames[i])' /\ (i < m <=> frames'[i].at = "nested")
  <2>1. CASE i < m
    BY <1>1, <1>5, <1>7, <1>8, <2>1 DEF FrameStands
  <2>2. CASE i = m
    BY <1>1, <1>5, <1>7, <2>2 DEF FrameStands
  <2> QED
    BY <1>1, <2>1, <2>2
<1>10. ASSUME NEW i \in 1 .. m - 1
       PROVE  frames'[i].curr = frames'[i + 1].flow
  <2>1. CASE i + 1 < m
    BY <1>1, <1>5, <1>8, <2>1
  <2>2. CASE i + 1 = m
    BY <1>1, <1>5, <1>6, <1>8, <2>2
  <2> QED
    BY <1>1, <2>1, <2>2
<1>11. StackStands(frames)'
  BY <1>5, <1>9, <1>10 DEF StackStands
<1> QED
  BY <1>1, <1>5, <1>11 DEF FramesStand

--------------------------------------------------------------------------------
(***************************************************************************)
(* The steps.                                                               *)
(***************************************************************************)

\* The errors that end a run, and the constants.
LEMMA FlowConstants ==
  /\ UserError \subseteq Error /\ Cycle \in Error /\ NoStart \in Error
  /\ Aborted \in UserError /\ None \notin Error /\ "ok" \notin Error
  /\ None # "ok" /\ Cycle \notin UserError /\ Cycle # NoStart
  /\ None \notin Element /\ None \in Action
  /\ Hook \subseteq Nat /\ HookCount \in Nat /\ MaxSteps \in Nat
BY FlowAssumption, FlowErrorsAssumption DEF Error, UserError, Action, Hook

\* The run starts in the invariant.
LEMMA FlowInitEstablishes == Init => FlowInv
<1> SUFFICES ASSUME Init PROVE FlowInv
  OBVIOUS
<1>1. TypeOK
  <2>1. /\ start \in [Flows -> Element \cup {None}]
        /\ edges \in [Element -> [Action -> Element \cup {None}]]
        /\ max \in [Flows -> 0 .. MaxSteps]
    BY DEF Init
  <2>2. 1 \in 1 .. HookCount + 1
    BY FlowConstants
  <2>3. phase \in {"on_start", "running", "on_end", "returned"}
    BY DEF Init
  <2> QED
    BY <2>1, <2>2, <2>3, FlowConstants DEF Init, TypeOK
<1>2. WiredWithin
  BY DEF Init, WiredWithin
<1>3. FramesStand
  <2>1. frames = <<>> /\ phase = "on_start"
    BY DEF Init
  <2>2. StackStands(<<>>)
    BY DEF StackStands
  <2> QED
    BY <2>1, <2>2 DEF FramesStand
<1>4. HooksTold
  BY FlowConstants DEF Init, HooksTold
<1>5. ErrorsStand
  BY FlowConstants DEF Init, ErrorsStand
<1> QED
  BY <1>1, <1>2, <1>3, <1>4, <1>5 DEF FlowInv

\* A traversal fails with e, and run goes on to its end hooks.
LEMMA UnwindKeeps ==
  ASSUME FlowInv, phase = "running", UNCHANGED <<graph, cancelled, hook, result, heard>>,
         NEW e \in Error, NEW f \in Frame, Unwind(e, f),
         e = Cycle => f.steps = max[f.flow] + 1
  PROVE  FlowInv'
<1>1. /\ err' = e /\ raised' = e /\ culprit' = f /\ frames' = <<>>
      /\ phase' = "on_end" /\ action' = action /\ trail' = trail
      /\ UNCHANGED <<start, edges, max, cancelled, hook, result, heard>>
  BY DEF Unwind, graph
<1>2. TypeOK'
  <2>1. TypeOK
    BY DEF FlowInv
  <2>2. frames' \in Seq(Frame) /\ phase' \in {"on_start", "running", "on_end", "returned"}
    BY <1>1
  <2> QED
    BY <1>1, <2>1, <2>2 DEF TypeOK
<1>3. WiredWithin'
  BY <1>1 DEF FlowInv, WiredWithin
<1>4. FramesStand'
  <2>1. StackStands(<<>>)'
    BY DEF StackStands
  <2> QED
    BY <1>1, <2>1 DEF FramesStand
<1>5. HooksTold'
  <2>1. hook = 1 /\ result = None /\ \A h \in Hook : heard[h] = 0
    BY DEF FlowInv, HooksTold, ErrorsStand
  <2>2. \A h \in Hook : ~(h < 1)
    BY DEF Hook
  <2> QED
    BY <1>1, <2>1, <2>2, FlowConstants DEF HooksTold
<1>6. ErrorsStand'
  BY <1>1, FlowConstants DEF FlowInv, ErrorsStand
<1> QED
  BY <1>2, <1>3, <1>4, <1>5, <1>6 DEF FlowInv

\* A traversal goes on: of the rest of the state only the trail may change.
LEMMA TraversalKeeps ==
  ASSUME FlowInv, phase = "running", phase' = "running", FramesStand',
         UNCHANGED <<graph, cancelled, hook, action, err, result, raised, culprit, heard>>,
         frames' \in Seq(Frame), trail' \in Seq(Element)
  PROVE  FlowInv'
<1>1. UNCHANGED <<start, edges, max, cancelled, phase, hook, action, err, result,
                  raised, culprit, heard>>
  BY DEF graph
<1>2. TypeOK'
  BY <1>1 DEF FlowInv, TypeOK
<1>3. WiredWithin'
  BY <1>1 DEF FlowInv, WiredWithin
<1>4. HooksTold'
  <2>1. hook = 1 /\ result = None /\ \A h \in Hook : heard[h] = 0
    BY DEF FlowInv, HooksTold, ErrorsStand
  <2> QED
    BY <1>1, <2>1, FlowConstants DEF HooksTold
<1>5. ErrorsStand'
  BY <1>1 DEF FlowInv, ErrorsStand
<1> QED
  BY <1>2, <1>3, <1>4, <1>5 DEF FlowInv

\* The successor of a node is in the graph of its flow.
LEMMA AdvanceStands ==
  ASSUME FlowInv, NEW f \in Frame, FrameStands(f), f.curr # None, NEW a \in Action
  PROVE  /\ Advance(f, a) \in Frame /\ FrameStands(Advance(f, a))
         /\ Advance(f, a).flow = f.flow /\ Advance(f, a).at = "step"
<1> DEFINE s == edges[f.curr][a]
<1>1. f.curr \in Element /\ Home[f.curr] = f.flow
  BY FlowConstants DEF Frame, FrameStands
<1>2. s \in Element \cup {None} /\ s \in InGraph(f.flow)
  BY <1>1 DEF FlowInv, TypeOK, WiredWithin
<1>3. s # None => Home[s] = f.flow
  BY <1>2 DEF InGraph
<1> HIDE DEF s
<1>4. Advance(f, a) = [f EXCEPT !.at = "step", !.last = a, !.curr = s]
  BY DEF Advance, resolve_successor, s
<1> QED
  BY <1>2, <1>3, <1>4 DEF Frame, FrameStands

--------------------------------------------------------------------------------
\* prep and the start node.
LEMMA PrepKeeps == FlowInv /\ Prep => FlowInv'
<1> SUFFICES ASSUME FlowInv, Prep PROVE FlowInv'
  OBVIOUS
<1>1. phase = "running" /\ Top.at = "prep"
      /\ UNCHANGED <<graph, cancelled, hook, result, heard>>
  BY DEF Prep, At
<1>2. Top \in Frame /\ FrameStands(Top)
  BY <1>1, Running
<1> DEFINE s == start[Top.flow]
           f == [Top EXCEPT !.at = "step", !.curr = s]
<1>3. CASE s # None /\ SetTop(f) /\ UNCHANGED <<phase, action, err, trail, raised, culprit>>
  <2>1. s \in Element /\ Home[s] = Top.flow
    <3>1. Top.flow \in Flows
      BY <1>2 DEF Frame
    <3>2. s \in Element \cup {None} /\ s \in InGraph(Top.flow)
      BY <3>1 DEF FlowInv, TypeOK, WiredWithin
    <3> QED
      BY <1>3, <3>2 DEF InGraph
  <2> HIDE DEF s
  <2>2. /\ f \in Frame /\ FrameStands(f) /\ f.flow = Top.flow /\ f.at # "nested"
    BY <1>2, <2>1 DEF Frame, FrameStands
  <2> HIDE DEF f
  <2>3. frames' \in Seq(Frame) /\ FramesStand'
    BY <1>1, <1>3, <2>2, SetTopKeeps
  <2>4. trail \in Seq(Element)
    BY DEF FlowInv, TypeOK
  <2> QED
    BY <1>1, <1>3, <2>3, <2>4, TraversalKeeps
<1>4. CASE Unwind(NoStart, Top)
  BY <1>1, <1>2, <1>4, UnwindKeeps, FlowConstants
<1>5. ASSUME NEW e \in UserError, Unwind(e, Top) PROVE FlowInv'
  <2>1. e \in Error /\ e # Cycle
    BY FlowConstants
  <2> QED
    BY <1>1, <1>2, <1>5, <2>1, UnwindKeeps
<1> QED
  BY <1>3, <1>4, <1>5 DEF Prep

\* The loop head: the budget, the token, the visit.
LEMMA VisitKeeps == FlowInv /\ Visit => FlowInv'
<1> SUFFICES ASSUME FlowInv, Visit PROVE FlowInv'
  OBVIOUS
<1>1. /\ phase = "running" /\ Top.at = "step" /\ Top.curr # None
      /\ UNCHANGED <<graph, cancelled, hook, result, heard>>
  BY DEF Visit, At
<1>2. Top \in Frame /\ FrameStands(Top)
  BY <1>1, Running
<1> DEFINE top == [Top EXCEPT !.steps = @ + 1]
<1>3. /\ top \in Frame /\ top.flow = Top.flow /\ top.curr = Top.curr
      /\ top.steps = Top.steps + 1 /\ Top.steps \in Nat
      /\ top.signal = "run"
  BY <1>2 DEF Frame, FrameStands
<1>4. max[Top.flow] \in Nat /\ Top.steps <= max[Top.flow]
  BY <1>2, FlowConstants DEF FlowInv, TypeOK, Frame, FrameStands
<1>5. CASE OverBudget(top) /\ Unwind(Cycle, top)
  <2>1. top.steps = max[top.flow] + 1
    BY <1>3, <1>4, <1>5 DEF OverBudget
  <2> HIDE DEF top
  <2> QED
    BY <1>1, <1>3, <1>5, <2>1, UnwindKeeps, FlowConstants
<1>6. CASE Unwind(Aborted, top)
  <2> HIDE DEF top
  <2> QED
    BY <1>1, <1>3, <1>6, UnwindKeeps, FlowConstants
<1>7. CASE /\ ~OverBudget(top)
           /\ trail' = Append(trail, top.curr)
           /\ IF top.curr \in Flows
              THEN Push([top EXCEPT !.at = "nested"], NewFrame(top.curr, Adopted(top)))
              ELSE SetTop([top EXCEPT !.at = "visit"])
           /\ UNCHANGED <<phase, action, err, raised, culprit>>
  <2>1. top.curr \in Element /\ Home[top.curr] = top.flow
    BY <1>1, <1>2, <1>3 DEF Frame, FrameStands
  <2>2. top.steps <= max[top.flow]
    BY <1>3, <1>4, <1>7 DEF OverBudget
  <2>3. trail' \in Seq(Element)
    <3>1. trail \in Seq(Element)
      BY DEF FlowInv, TypeOK
    <3> QED
      BY <1>7, <2>1, <3>1, AppendProperties
  <2> HIDE DEF top
  <2>4. CASE top.curr \in Flows
    <3> DEFINE f == [top EXCEPT !.at = "nested"]
               g == NewFrame(top.curr, Adopted(top))
    <3>1. /\ f \in Frame /\ FrameStands(f) /\ f.flow = Top.flow /\ f.at = "nested"
          /\ f.curr = top.curr
      BY <1>1, <1>3, <2>1, <2>2 DEF Frame, FrameStands
    <3>2. /\ g \in Frame /\ g.flow = top.curr /\ g.at = "prep"
          /\ g.steps = 0 /\ g.curr = None /\ g.signal = "run"
      BY <1>3, <2>4, FlowConstants DEF NewFrame, Frame, Adopted, Token
    <3>3. max[top.curr] \in Nat
      BY <2>4, FlowConstants DEF FlowInv, TypeOK
    <3>4. FrameStands(g)
      BY <3>2, <3>3 DEF FrameStands
    <3>5. Push(f, g)
      BY <1>7, <2>4
    <3> HIDE DEF f, g
    <3>6. frames' \in Seq(Frame) /\ FramesStand'
      BY <1>1, <1>7, <3>1, <3>2, <3>4, <3>5, PushKeeps
    <3> QED
      BY <1>1, <1>7, <2>3, <3>6, TraversalKeeps
  <2>5. CASE top.curr \notin Flows
    <3> DEFINE f == [top EXCEPT !.at = "visit"]
    <3>1. f \in Frame /\ FrameStands(f) /\ f.flow = Top.flow /\ f.at # "nested"
      BY <1>1, <1>3, <2>1, <2>2 DEF Frame, FrameStands
    <3>2. SetTop(f)
      BY <1>7, <2>5
    <3> HIDE DEF f
    <3>3. frames' \in Seq(Frame) /\ FramesStand'
      BY <1>1, <1>7, <3>1, <3>2, SetTopKeeps
    <3> QED
      BY <1>1, <1>7, <2>3, <3>3, TraversalKeeps
  <2> QED
    BY <2>4, <2>5
<1> QED
  BY <1>5, <1>6, <1>7 DEF Visit

\* The visited node settles.
LEMMA VisitSettlesKeeps == FlowInv /\ VisitSettles => FlowInv'
<1> SUFFICES ASSUME FlowInv, VisitSettles PROVE FlowInv'
  OBVIOUS
<1>1. /\ phase = "running" /\ Top.at = "visit"
      /\ UNCHANGED <<graph, cancelled, hook, result, heard>>
  BY DEF VisitSettles, At
<1>2. Top \in Frame /\ FrameStands(Top) /\ Top.curr # None
  BY <1>1, Running DEF FrameStands
<1>3. ASSUME NEW a \in Action, SetTop(Advance(Top, a)),
             UNCHANGED <<phase, action, err, trail, raised, culprit>>
      PROVE  FlowInv'
  <2> DEFINE f == Advance(Top, a)
  <2>1. f \in Frame /\ FrameStands(f) /\ f.flow = Top.flow /\ f.at # "nested"
    BY <1>2, AdvanceStands
  <2>2. SetTop(f)
    BY <1>3
  <2> HIDE DEF f
  <2>3. frames' \in Seq(Frame) /\ FramesStand'
    BY <1>1, <1>3, <2>1, <2>2, SetTopKeeps
  <2>4. trail \in Seq(Element)
    BY DEF FlowInv, TypeOK
  <2> QED
    BY <1>1, <1>3, <2>3, <2>4, TraversalKeeps
<1>4. ASSUME NEW e \in UserError, Unwind(e, Top) PROVE FlowInv'
  <2>1. e \in Error /\ e # Cycle
    BY FlowConstants
  <2> QED
    BY <1>1, <1>2, <1>4, <2>1, UnwindKeeps
<1> QED
  BY <1>3, <1>4 DEF VisitSettles

\* The traversal has come to its end.
LEMMA ArriveKeeps == FlowInv /\ Arrive => FlowInv'
<1> SUFFICES ASSUME FlowInv, Arrive PROVE FlowInv'
  OBVIOUS
<1> DEFINE f == [Top EXCEPT !.at = "post"]
<1>1. /\ phase = "running" /\ phase' = phase /\ SetTop(f)
      /\ UNCHANGED <<graph, cancelled, hook, action, err, result, history>>
  BY DEF Arrive, At
<1>2. Top \in Frame /\ FrameStands(Top)
  BY <1>1, Running
<1>3. f \in Frame /\ FrameStands(f) /\ f.flow = Top.flow /\ f.at # "nested"
  BY <1>2 DEF Frame, FrameStands
<1> HIDE DEF f
<1>4. frames' \in Seq(Frame) /\ FramesStand'
  BY <1>1, <1>3, SetTopKeeps
<1>5. UNCHANGED <<trail, raised, culprit, heard>> /\ trail \in Seq(Element)
  BY <1>1 DEF history, FlowInv, TypeOK
<1> QED
  BY <1>1, <1>4, <1>5, TraversalKeeps

\* post; the flow below goes on, or run to its end hooks.
LEMMA PostKeeps == FlowInv /\ Post => FlowInv'
<1> SUFFICES ASSUME FlowInv, Post PROVE FlowInv'
  OBVIOUS
<1>1. /\ phase = "running" /\ Top.at = "post"
      /\ UNCHANGED <<graph, cancelled, hook, result, heard>>
  BY DEF Post, At
<1>2. /\ Len(frames) \in Nat /\ Len(frames) > 0 /\ frames \in Seq(Frame)
      /\ Top \in Frame /\ FrameStands(Top)
  BY <1>1, Running
<1>3. ASSUME NEW a \in Action, Len(frames) = 1, action' = a, frames' = <<>>,
             phase' = "on_end", UNCHANGED <<err, trail, raised, culprit>>
      PROVE  FlowInv'
  <2>1. UNCHANGED <<start, edges, max, cancelled, hook, result, heard>>
    BY <1>1 DEF graph
  <2>2. TypeOK'
    <3>1. TypeOK
      BY DEF FlowInv
    <3>2. frames' \in Seq(Frame) /\ phase' \in {"on_start", "running", "on_end", "returned"}
      BY <1>3
    <3> QED
      BY <1>3, <2>1, <3>1, <3>2 DEF TypeOK
  <2>3. WiredWithin'
    BY <2>1 DEF FlowInv, WiredWithin
  <2>4. FramesStand'
    <3>1. StackStands(<<>>)'
      BY DEF StackStands
    <3> QED
      BY <1>3, <3>1 DEF FramesStand
  <2>5. HooksTold'
    <3>1. hook = 1 /\ result = None /\ \A h \in Hook : heard[h] = 0
      BY <1>1 DEF FlowInv, HooksTold, ErrorsStand
    <3>2. \A h \in Hook : ~(h < 1)
      BY DEF Hook
    <3> QED
      BY <1>3, <2>1, <3>1, <3>2, FlowConstants DEF HooksTold
  <2>6. ErrorsStand'
    BY <1>1, <1>3, <2>1 DEF FlowInv, ErrorsStand
  <2> QED
    BY <2>2, <2>3, <2>4, <2>5, <2>6 DEF FlowInv
<1>4. ASSUME NEW a \in Action, Len(frames) # 1, Pop(Advance(Last(Front(frames)), a)),
             UNCHANGED <<action, phase, err, trail, raised, culprit>>
      PROVE  FlowInv'
  <2> DEFINE q == Last(Front(frames))
             f == Advance(q, a)
  <2>1. \E m \in Nat : m > 0 /\ Len(frames) = m + 1
    <3>1. \A k \in Nat : k > 0 /\ k # 1 => k - 1 \in Nat /\ k - 1 > 0 /\ k = k - 1 + 1
      OBVIOUS
    <3> QED
      BY <1>2, <1>4, <3>1
  <2>2. PICK m \in Nat : m > 0 /\ Len(frames) = m + 1
    BY <2>1
  <2>3. /\ Front(frames) \in Seq(Frame) /\ Len(Front(frames)) = m
        /\ \A i \in 1 .. m : Front(frames)[i] = frames[i]
    <3>1. /\ Front(frames) \in Seq(Frame) /\ Len(Front(frames)) = Len(frames) - 1
          /\ \A i \in 1 .. Len(frames) - 1 : Front(frames)[i] = frames[i]
      BY <1>2, FrontOfStack
    <3>2. Len(frames) - 1 = m
      BY <2>2
    <3> QED
      BY <3>1, <3>2
  <2>4. q = frames[m] /\ q \in Frame
    BY <2>2, <2>3, FrontOfStack
  <2>5. FrameStands(q) /\ q.at = "nested"
    <3>1. m \in 1 .. Len(frames) /\ m < Len(frames)
      BY <2>2
    <3> QED
      BY <2>4, <3>1 DEF FlowInv, FramesStand, StackStands
  <2> HIDE DEF q
  <2>6. q.curr # None
    BY <2>5 DEF FrameStands
  <2>7. f \in Frame /\ FrameStands(f) /\ f.flow = q.flow /\ f.at # "nested"
    BY <2>4, <2>5, <2>6, AdvanceStands
  <2>8. Pop(f) /\ f.flow = Last(Front(frames)).flow
    BY <1>4, <2>7 DEF q
  <2> HIDE DEF f
  <2>9. frames' \in Seq(Frame) /\ FramesStand'
    BY <1>1, <1>4, <2>7, <2>8, PopKeeps
  <2>10. trail \in Seq(Element)
    BY DEF FlowInv, TypeOK
  <2> QED
    BY <1>1, <1>4, <2>9, <2>10, TraversalKeeps
<1>5. ASSUME NEW e \in UserError, Unwind(e, Top) PROVE FlowInv'
  <2>1. e \in Error /\ e # Cycle
    BY FlowConstants
  <2> QED
    BY <1>1, <1>2, <1>5, <2>1, UnwindKeeps
<1> QED
  BY <1>3, <1>4, <1>5 DEF Post, ReturnAction

--------------------------------------------------------------------------------
\* The token.
LEMMA CancelKeeps == FlowInv /\ Cancel => FlowInv'
<1> SUFFICES ASSUME FlowInv, Cancel PROVE FlowInv'
  OBVIOUS
<1>1. UNCHANGED <<start, edges, max, phase, hook, frames, action, err, result,
                  trail, raised, culprit, heard>> /\ cancelled' = TRUE
  BY DEF Cancel, graph, history
<1>2. TypeOK'
  BY <1>1 DEF FlowInv, TypeOK
<1>3. WiredWithin'
  BY <1>1 DEF FlowInv, WiredWithin
<1>4. FramesStand'
  BY <1>1 DEF FlowInv, FramesStand, StackStands, FrameStands
<1>5. HooksTold'
  BY <1>1 DEF FlowInv, HooksTold
<1>6. ErrorsStand'
  BY <1>1 DEF FlowInv, ErrorsStand
<1> QED
  BY <1>2, <1>3, <1>4, <1>5, <1>6 DEF FlowInv

\* A start hook answers, or ends the run.
LEMMA StartHookKeeps == FlowInv /\ StartHook => FlowInv'
<1> SUFFICES ASSUME FlowInv, StartHook PROVE FlowInv'
  OBVIOUS
<1>1. /\ phase = "on_start" /\ hook <= HookCount
      /\ UNCHANGED <<start, edges, max, cancelled, frames, action, err, trail,
                     culprit, heard>>
  BY DEF StartHook, graph
<1>2. /\ TypeOK /\ hook \in Nat /\ hook \in Hook
      /\ \A h \in Hook : heard[h] = 0
      /\ trail = <<>> /\ result = None /\ err = None /\ raised = None
  <2>1. TypeOK /\ hook \in 1 .. HookCount + 1
    BY DEF FlowInv, TypeOK
  <2>2. hook \in Nat /\ hook \in Hook
    BY <1>1, <2>1, FlowConstants DEF Hook
  <2> QED
    BY <1>1, <2>1, <2>2 DEF FlowInv, HooksTold, ErrorsStand
<1>3. WiredWithin'
  BY <1>1 DEF FlowInv, WiredWithin
<1>4. frames = <<>> \/ Len(frames) = 0
  BY <1>1, FlowConstants DEF FlowInv, FramesStand, TypeOK
<1>5. \/ hook' = hook + 1 /\ UNCHANGED <<phase, result, raised>>
      \/ \E e \in UserError : phase' = "returned" /\ result' = e /\ raised' = e /\ hook' = hook
  BY DEF StartHook
<1>6. CASE hook' = hook + 1 /\ UNCHANGED <<phase, result, raised>>
  <2>1. hook' \in 1 .. HookCount + 1
    BY <1>1, <1>2, <1>6, FlowConstants
  <2>2. TypeOK'
    BY <1>1, <1>2, <1>6, <2>1 DEF TypeOK
  <2>3. FramesStand'
    BY <1>1, <1>6 DEF FlowInv, FramesStand, StackStands, FrameStands
  <2>4. HooksTold'
    BY <1>1, <1>2, <1>6, FlowConstants DEF HooksTold
  <2>5. ErrorsStand'
    BY <1>1, <1>6 DEF FlowInv, ErrorsStand
  <2> QED
    BY <1>3, <2>2, <2>3, <2>4, <2>5 DEF FlowInv
<1>7. ASSUME NEW e \in UserError, phase' = "returned", result' = e, raised' = e, hook' = hook
      PROVE  FlowInv'
  <2>1. e \in Error /\ e # None /\ e # "ok"
    BY FlowConstants
  <2>2. TypeOK'
    <3>1. phase' \in {"on_start", "running", "on_end", "returned"}
      BY <1>7
    <3>2. result' \in Error \cup {"ok", None} /\ raised' \in Error \cup {None}
      BY <1>7, <2>1
    <3> QED
      BY <1>1, <1>2, <1>7, <3>1, <3>2 DEF TypeOK
  <2>3. FramesStand'
    BY <1>1, <1>7 DEF FlowInv, FramesStand, StackStands, FrameStands
  <2>4. HooksTold'
    BY <1>1, <1>2, <1>7, <2>1 DEF HooksTold
  <2>5. ErrorsStand'
    BY <1>1, <1>2, <1>7, <2>1, FlowConstants DEF FlowInv, ErrorsStand
  <2> QED
    BY <1>3, <2>2, <2>3, <2>4, <2>5 DEF FlowInv
<1> QED
  BY <1>5, <1>6, <1>7

\* The traversal of the flow that is run begins.
LEMMA BeginKeeps == FlowInv /\ Begin => FlowInv'
<1> SUFFICES ASSUME FlowInv, Begin PROVE FlowInv'
  OBVIOUS
<1> DEFINE f == NewFrame(Root, "run")
<1>1. /\ phase = "on_start" /\ phase' = "running" /\ hook' = 1 /\ frames' = <<f>>
      /\ UNCHANGED <<start, edges, max, cancelled, action, err, result,
                     trail, raised, culprit, heard>>
  BY DEF Begin, graph, history
<1>2. TypeOK
  BY DEF FlowInv
<1>3. /\ f \in Frame /\ f.steps = 0 /\ f.curr = None /\ f.at = "prep" /\ f.flow = Root
      /\ f.signal = "run"
  BY FlowAssumption, FlowConstants DEF NewFrame, Frame, Token
<1>4. max[Root] \in Nat
  BY <1>2, FlowAssumption, FlowConstants DEF TypeOK
<1> HIDE DEF f
<1>5. TypeOK'
  <2>1. frames' \in Seq(Frame) /\ 1 \in 1 .. HookCount + 1
    BY <1>1, <1>3, FlowConstants
  <2>2. phase' \in {"on_start", "running", "on_end", "returned"}
    BY <1>1
  <2> QED
    BY <1>1, <1>2, <2>1, <2>2 DEF TypeOK
<1>6. WiredWithin'
  BY <1>1 DEF FlowInv, WiredWithin
<1>7. FramesStand'
  <2>1. Len(frames') = 1 /\ frames'[1] = f
    BY <1>1
  <2>2. FrameStands(f)'
    BY <1>1, <1>3, <1>4 DEF FrameStands
  <2>3. ASSUME NEW i \in 1 .. 1
        PROVE  FrameStands(frames[i])' /\ (i < 1 <=> frames'[i].at = "nested")
    BY <1>3, <2>1, <2>2
  <2>4. StackStands(frames)'
    BY <2>1, <2>3 DEF StackStands
  <2> QED
    BY <1>1, <2>1, <2>4 DEF FramesStand
<1>8. HooksTold'
  BY <1>1, FlowConstants DEF FlowInv, HooksTold, ErrorsStand
<1>9. ErrorsStand'
  BY <1>1 DEF FlowInv, ErrorsStand
<1> QED
  BY <1>5, <1>6, <1>7, <1>8, <1>9 DEF FlowInv

\* An end hook is told, and answers or ends the run.
LEMMA EndHookKeeps == FlowInv /\ EndHook => FlowInv'
<1> SUFFICES ASSUME FlowInv, EndHook PROVE FlowInv'
  OBVIOUS
<1>1. /\ phase = "on_end" /\ hook <= HookCount
      /\ heard' = [heard EXCEPT ![hook] = @ + 1]
      /\ UNCHANGED <<start, edges, max, cancelled, frames, action, err, trail, culprit>>
  BY DEF EndHook, graph
<1>2. /\ TypeOK /\ hook \in Nat /\ hook \in Hook /\ result = None /\ raised = err
      /\ \A h \in Hook : heard[h] = IF h < hook THEN 1 ELSE 0
  <2>1. TypeOK /\ hook \in 1 .. HookCount + 1
    BY DEF FlowInv, TypeOK
  <2>2. hook \in Nat /\ hook \in Hook
    BY <1>1, <2>1, FlowConstants DEF Hook
  <2> QED
    BY <1>1, <2>1, <2>2, FlowConstants DEF FlowInv, HooksTold, ErrorsStand
<1>3. /\ heard' \in [Hook -> Nat] /\ heard'[hook] = 1
      /\ \A h \in Hook : heard'[h] = IF h < hook + 1 THEN 1 ELSE 0
  <2>1. heard \in [Hook -> Nat] /\ Hook \subseteq Nat
    BY <1>2, FlowConstants DEF TypeOK
  <2>2. heard[hook] = 0
    BY <1>2
  <2>3. heard'[hook] = 1 /\ \A h \in Hook : h # hook => heard'[h] = heard[h]
    BY <1>1, <1>2, <2>1, <2>2
  <2>4. ASSUME NEW h \in Hook PROVE heard'[h] = IF h < hook + 1 THEN 1 ELSE 0
    <3>1. CASE h = hook
      BY <1>2, <2>3, <3>1
    <3>2. CASE h # hook
      BY <1>2, <2>1, <2>3, <3>2
    <3> QED
      BY <3>1, <3>2
  <2> QED
    BY <1>1, <1>2, <2>1, <2>3, <2>4
<1>4. WiredWithin'
  BY <1>1 DEF FlowInv, WiredWithin
<1>5. \/ hook' = hook + 1 /\ UNCHANGED <<phase, result, raised>>
      \/ \E e \in UserError : phase' = "returned" /\ result' = e /\ raised' = e /\ hook' = hook
  BY DEF EndHook
<1>6. CASE hook' = hook + 1 /\ UNCHANGED <<phase, result, raised>>
  <2>1. hook' \in 1 .. HookCount + 1
    BY <1>1, <1>2, <1>6, FlowConstants
  <2>2. TypeOK'
    BY <1>1, <1>2, <1>3, <1>6, <2>1 DEF TypeOK
  <2>3. FramesStand'
    BY <1>1, <1>6 DEF FlowInv, FramesStand, StackStands, FrameStands
  <2>4. HooksTold'
    BY <1>1, <1>2, <1>3, <1>6, FlowConstants DEF HooksTold
  <2>5. ErrorsStand'
    BY <1>1, <1>6 DEF FlowInv, ErrorsStand
  <2> QED
    BY <1>4, <2>2, <2>3, <2>4, <2>5 DEF FlowInv
<1>7. ASSUME NEW e \in UserError, phase' = "returned", result' = e, raised' = e, hook' = hook
      PROVE  FlowInv'
  <2>1. e \in Error /\ e # None /\ e # "ok"
    BY FlowConstants
  <2>2. TypeOK'
    <3>1. phase' \in {"on_start", "running", "on_end", "returned"}
      BY <1>7
    <3>2. result' \in Error \cup {"ok", None} /\ raised' \in Error \cup {None}
      BY <1>7, <2>1
    <3> QED
      BY <1>1, <1>2, <1>3, <1>7, <3>1, <3>2 DEF TypeOK
  <2>3. FramesStand'
    BY <1>1, <1>7 DEF FlowInv, FramesStand, StackStands, FrameStands
  <2>4. HooksTold'
    <3>1. \A h \in Hook : heard'[h] <= 1
      BY <1>3
    <3> QED
      BY <1>1, <1>3, <1>7, <2>1, <3>1 DEF HooksTold
  <2>5. ErrorsStand'
    BY <1>1, <1>2, <1>7, <2>1, FlowConstants DEF FlowInv, ErrorsStand
  <2> QED
    BY <1>4, <2>2, <2>3, <2>4, <2>5 DEF FlowInv
<1> QED
  BY <1>5, <1>6, <1>7

\* run returns.
LEMMA FinishKeeps == FlowInv /\ Finish => FlowInv'
<1> SUFFICES ASSUME FlowInv, Finish PROVE FlowInv'
  OBVIOUS
<1>1. /\ phase = "on_end" /\ hook > HookCount /\ phase' = "returned"
      /\ result' = IF err # None THEN err ELSE "ok"
      /\ UNCHANGED <<start, edges, max, cancelled, hook, frames, action, err,
                     trail, raised, culprit, heard>>
  BY DEF Finish, Verdict, graph, history
<1>2. /\ TypeOK /\ hook \in Nat /\ raised = err
      /\ \A h \in Hook : heard[h] = IF h < hook THEN 1 ELSE 0
  BY <1>1, FlowConstants DEF FlowInv, HooksTold, ErrorsStand, TypeOK
<1>3. \A h \in Hook : heard[h] = 1
  <2>1. \A h \in Hook : h < hook
    BY <1>1, <1>2, FlowConstants DEF Hook
  <2> QED
    BY <1>2, <2>1
<1>4. TypeOK'
  <2>1. result' \in Error \cup {"ok", None}
    BY <1>1, <1>2 DEF TypeOK
  <2>2. phase' \in {"on_start", "running", "on_end", "returned"}
    BY <1>1
  <2> QED
    BY <1>1, <1>2, <2>1, <2>2 DEF TypeOK
<1>5. WiredWithin'
  BY <1>1 DEF FlowInv, WiredWithin
<1>6. FramesStand'
  BY <1>1 DEF FlowInv, FramesStand, StackStands, FrameStands
<1>7. HooksTold'
  <2>1. ~(hook <= HookCount)
    BY <1>1, <1>2, FlowConstants
  <2>2. \A h \in Hook : heard[h] <= 1
    BY <1>3
  <2> QED
    BY <1>1, <1>3, <2>1, <2>2 DEF HooksTold
<1>8. ErrorsStand'
  BY <1>1, <1>2 DEF FlowInv, ErrorsStand
<1> QED
  BY <1>4, <1>5, <1>6, <1>7, <1>8 DEF FlowInv

\* Nothing happens.
LEMMA StutterKeeps == FlowInv /\ UNCHANGED vars => FlowInv'
<1> SUFFICES ASSUME FlowInv, UNCHANGED vars PROVE FlowInv'
  OBVIOUS
<1>1. UNCHANGED <<start, edges, max, cancelled, phase, hook, frames, action, err,
                  result, trail, raised, culprit, heard>>
  BY DEF vars, graph, history
<1> QED
  BY <1>1 DEF FlowInv, TypeOK, WiredWithin, FramesStand, StackStands,
     FrameStands, HooksTold, ErrorsStand

--------------------------------------------------------------------------------
\* The run of a flow is well formed, its stack of traversals within graphs and
\* budgets, its hooks told in order and its error the one that arose last
\* (Flow.tla, FlowInv).
THEOREM FlowInvariance == Spec => []FlowInv
<1>1. Init => FlowInv
  BY FlowInitEstablishes
<1>2. FlowInv /\ [Next]_vars => FlowInv'
  BY CancelKeeps, StartHookKeeps, BeginKeeps, PrepKeeps, VisitKeeps,
     VisitSettlesKeeps, ArriveKeeps, PostKeeps, EndHookKeeps, FinishKeeps,
     StutterKeeps
  DEF Next, Engine, Ops, Hooks, Returned
<1> QED
  BY <1>1, <1>2, PTL DEF Spec

\* The state of a run has its type, whatever the graph, the budgets and the
\* errors: the stack holds calls of `execute`, each standing at an element of a
\* graph (flow.rs 211-306).
THEOREM FlowTyped == Spec => []TypeOK
<1>1. FlowInv => TypeOK
  BY DEF FlowInv
<1> QED
  BY <1>1, FlowInvariance, PTL

\* Every flow in progress, at any depth, is within its own budget, and Cycle is
\* raised by one that has used it up (flow.rs 70-73, 271).
THEOREM BudgetsKept == Spec => []BudgetPerFlow
<1>1. FlowInv => BudgetPerFlow
  <2> SUFFICES ASSUME FlowInv PROVE BudgetPerFlow
    OBVIOUS
  <2>1. StackStands(frames) /\ Len(frames) \in Nat
    BY DEF FlowInv, FramesStand, TypeOK
  <2>2. \A i \in 1 .. Len(frames) : frames[i].steps <= max[frames[i].flow]
    BY <2>1 DEF StackStands, FrameStands
  <2>3. ASSUME NEW i \in 1 .. Len(frames) - 1
        PROVE  frames[i].at = "nested" /\ frames[i].curr = frames[i + 1].flow
    <3>1. i \in 1 .. Len(frames) /\ i < Len(frames)
      BY <2>1
    <3> QED
      BY <2>1, <3>1 DEF StackStands
  <2>4. err = Cycle => culprit.steps = max[culprit.flow] + 1
    BY DEF FlowInv, ErrorsStand
  <2> QED
    BY <2>2, <2>3, <2>4 DEF BudgetPerFlow
<1> QED
  BY <1>1, FlowInvariance, PTL

\* What run returns is the last error that arose, and Ok when none did; the end
\* hooks are told once each, and none of them when a start hook failed
\* (flow.rs 211-228).
THEOREM LastErrorReturned == Spec => []ResultIsLastError
<1>1. FlowInv => ResultIsLastError
  <2> SUFFICES ASSUME FlowInv PROVE ResultIsLastError
    OBVIOUS
  <2>1. phase = "returned" => result = IF raised = None THEN "ok" ELSE raised
    BY DEF FlowInv, ErrorsStand
  <2>2. result = "ok" => \A h \in Hook : heard[h] = 1
    BY DEF FlowInv, HooksTold
  <2>3. ASSUME NEW h \in Hook PROVE heard[h] <= 1
    BY DEF FlowInv, HooksTold, TypeOK
  <2>4. phase = "on_start" \/ (phase = "returned" /\ hook <= HookCount /\ heard[hook] = 0)
          => trail = <<>> /\ \A h \in Hook : heard[h] = 0
    BY DEF FlowInv, HooksTold
  <2> QED
    BY <2>1, <2>2, <2>3, <2>4 DEF ResultIsLastError
<1> QED
  BY <1>1, FlowInvariance, PTL

--------------------------------------------------------------------------------
(***************************************************************************)
(* A cancel is heeded.                                                      *)
(***************************************************************************)

\* Once cancelled, no traversal visits a node: each stands under the run's token.
LEMMA CancelStopsVisits ==
  ASSUME FlowInv, [Next]_vars
  PROVE  [cancelled => trail' = trail]_vars
<1> SUFFICES ASSUME Next, cancelled PROVE trail' = trail
  BY DEF vars
<1>1. CASE Visit
  <2>1. FrameStands(Top) /\ Top \in Frame
    BY <1>1, Running DEF Visit, At
  <2>2. [Top EXCEPT !.steps = @ + 1].signal = "run"
    BY <2>1 DEF FrameStands, Frame
  <2> QED
    BY <1>1, <2>2 DEF Visit, StopRequested, Unwind
<1>2. CASE Cancel \/ StartHook \/ Begin \/ Arrive \/ EndHook \/ Finish \/ Returned
  BY <1>2 DEF Cancel, StartHook, Begin, Arrive, EndHook, Finish, Returned,
     vars, history
<1>3. CASE Prep \/ VisitSettles
  BY <1>3 DEF Prep, VisitSettles, Unwind
<1>4. CASE Post
  BY <1>4 DEF Post, Unwind
<1> QED
  BY <1>1, <1>2, <1>3, <1>4 DEF Next, Engine, Ops, Hooks

\* A run that was stopped short: it stands before the node, on its way out with
\* an error, or has returned one.
Heeded ==
  \/ StoppedShort
  \/ phase = "on_end" /\ err # None
  \/ phase = "returned" /\ result # "ok"

\* Before the node that is left every traversal fails, the enclosing ones with
\* it, and the end hooks leave an error or put their own in its place.
LEMMA HeededStays ==
  ASSUME FlowInv, Heeded, [Next]_vars
  PROVE  Heeded'
<1>1. CASE UNCHANGED vars
  BY <1>1 DEF vars, graph, history, Heeded, StoppedShort, At, Top
<1>2. CASE Next /\ StoppedShort
  <2>1. cancelled /\ phase = "running" /\ Top.at = "step" /\ Top.curr # None
    BY <1>2 DEF StoppedShort, At
  <2>2. Top \in Frame /\ FrameStands(Top)
    BY <2>1, Running
  <2>3. CASE Visit
    <3>1. [Top EXCEPT !.steps = @ + 1].signal = "run"
      BY <2>2 DEF FrameStands, Frame
    <3>2. err' \in {Cycle, Aborted} /\ phase' = "on_end"
      BY <2>1, <2>3, <3>1 DEF Visit, StopRequested, Unwind
    <3> QED
      BY <3>2, FlowConstants DEF Heeded
  <2>4. CASE ~Visit
    BY <1>2, <2>1, <2>4
    DEF Next, Engine, Ops, Hooks, Cancel, StartHook, Begin, Prep, VisitSettles,
        Arrive, Post, EndHook, Finish, Returned, At, Heeded, vars, graph, history
  <2> QED
    BY <2>3, <2>4
<1>3. CASE Next /\ phase = "on_end" /\ err # None
  <2>1. err \in Error /\ err # "ok"
    BY <1>3, FlowConstants DEF FlowInv, TypeOK
  <2>2. CASE EndHook
    <3>1. \A e \in UserError : e # "ok"
      BY FlowConstants
    <3> QED
      BY <1>3, <2>2, <3>1 DEF EndHook, Heeded
  <2>3. CASE Finish
    BY <1>3, <2>1, <2>3 DEF Finish, Verdict, Heeded
  <2>4. CASE Cancel
    BY <1>3, <2>4 DEF Cancel, Heeded
  <2> QED
    BY <1>3, <2>2, <2>3, <2>4
    DEF Next, Engine, Ops, Hooks, StartHook, Begin, Visit, Prep, VisitSettles,
        Arrive, Post, Returned, At
<1>4. CASE Next /\ phase = "returned" /\ result # "ok"
  BY <1>4
  DEF Next, Engine, Ops, Hooks, Cancel, StartHook, Begin, Visit, Prep, VisitSettles,
      Arrive, Post, EndHook, Finish, Returned, At, Heeded, vars, graph, history
<1> QED
  BY <1>1, <1>2, <1>3, <1>4 DEF Heeded

\* A cancel is heeded at every depth of nesting and by every enclosing flow: no
\* node is visited any more, and a run with nodes left then does not end with Ok
\* (flow.rs 221-228, 254-272, 276).
THEOREM CancelHeeded == Spec => CancelIsHeeded
<1>1. FlowInv /\ [Next]_vars => [cancelled => trail' = trail]_vars
  BY CancelStopsVisits
<1>2. StoppedShort => Heeded
  BY DEF Heeded
<1>3. FlowInv /\ Heeded /\ [Next]_vars => Heeded'
  BY HeededStays
<1>4. FlowInv /\ Heeded => result # "ok"
  BY FlowConstants DEF FlowInv, ErrorsStand, Heeded, StoppedShort, At
<1> QED
  BY <1>1, <1>2, <1>3, <1>4, FlowInvariance, PTL DEF Spec, CancelIsHeeded

================================================================================
