------------------------------ MODULE MCInstances ------------------------------
(***************************************************************************)
(* Instance of Instances: three nodes, all of them reachable.  The first is *)
(* of any kind, the second plain, a BatchFlow or a ForkJoin, the last       *)
(* plain. The "default" edges lead forward, a "retry" edge of the first or  *)
(* the last node may lead to the first; a node that has others run has      *)
(* later ones run, cannot be reached from them and does not follow itself.  *)
(***************************************************************************)
EXTENDS Instances, TLC

MCActions == {"default", "retry"}

Later == {e \in [1 .. 3 -> {0, 2, 3}] : \A x \in 1 .. 3 : e[x] = 0 \/ e[x] > x}

Edges ==
  {[x \in 1 .. 3 |-> ("default" :> e[x]) @@ ("retry" :> IF x = back THEN 1 ELSE 0)] :
     e \in Later, back \in {0, 1, 3}}

\* What each node runs, if anything.
Contents ==
  {c \in [1 .. 3 -> [kind : Kind, inner : {0, 2, 3}]] :
     /\ c[2].kind \in {"plain", "batch", "fork"}
     /\ \A x \in 1 .. 3 : IF c[x].kind = "plain" THEN c[x].inner = 0 ELSE c[x].inner > x}

MCReached(x, edges, contents) ==
  LET Follows(y) == Range(edges[y]) \cup {contents[y].inner}
      Closed(S) == \A y \in S : Follows(y) \subseteq S \cup {0}
  IN  {y \in 1 .. 3 : \A S \in SUBSET (1 .. 3) : x \in S /\ Closed(S) => y \in S}

Wired ==
  {w \in Edges \X Contents :
     /\ MCReached(1, w[1], w[2]) = 1 .. 3
     /\ \A x \in 1 .. 3 : w[2][x].inner # 0 =>
          /\ x \notin MCReached(w[2][x].inner, w[1], w[2])
          /\ x \notin Range(w[1][x])}

\* The second node has params of its own.
MCWirings ==
  {[x \in 1 .. 3 |-> Node(w[2][x].kind, w[1][x], w[2][x].inner,
                          IF x = 2 THEN [unit |-> 0] ELSE NoOwn)] : w \in Wired}

================================================================================
