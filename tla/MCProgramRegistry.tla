------------------------- MODULE MCProgramRegistry -------------------------
(***************************************************************************)
(* Two callers of one process and one of another.                          *)
(***************************************************************************)
EXTENDS ProgramRegistry

MCProcessOf == [c \in Callers |-> IF c = "c3" THEN "q" ELSE "p"]

MCOpsOf ==
  [c \in Callers |->
     CASE c = "c1" -> {"locked"}
       [] c = "c2" -> {"loadOrTrain", "train"}
       [] c = "c3" -> {"locked", "load"}]

MCFactoriesOf == [p \in Processes |-> IF p = "p" THEN {"a", "b", "noFile"} ELSE {"c"}]
=============================================================================
