-------------------------------- MODULE MCRange --------------------------------
(* Three messages, two of them for one e-mail: "100,100,9". *)
EXTENDS RangeMode

MCTasks == <<100, 100, 9>>
MCWidth == [i \in {9, 100} |-> IF i = 9 THEN 1 ELSE 3]
=============================================================================
