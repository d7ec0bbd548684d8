------------------------------ MODULE MCPipeline ------------------------------
(* The values the runs of Pipeline give to its constants. *)
EXTENDS Pipeline

CONSTANTS a, b

MCCount == [l \in Lists |-> IF l = a THEN 4 ELSE 1]
MCBad == {<<a, 2>>}
=============================================================================
