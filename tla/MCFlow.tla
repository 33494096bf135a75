-------------------------------- MODULE MCFlow --------------------------------
(***************************************************************************)
(* Instance of Flow: a root flow whose graph holds one node and one nested  *)
(* flow, and the nested flow's graph one node.  Init chooses every wiring   *)
(* of these graphs, cycles and self-loops included.                         *)
(***************************************************************************)
EXTENDS Flow

CONSTANTS a, b, Sub

MCNodes == {a, b}
MCFlows == {Root, Sub}
MCHome  == [x \in {a, b, Sub} |-> IF x = b THEN Sub ELSE Root]

================================================================================
