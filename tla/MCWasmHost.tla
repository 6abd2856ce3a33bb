------------------------------ MODULE MCWasmHost ------------------------------
(* An agent's job and one that optimizes, beside a predict job. *)
EXTENDS WasmHost

MCOperation == [j \in Jobs |-> IF j = "a" THEN "agent.run" ELSE "optimize"]

MCCalls == [j \in Jobs |-> IF j = "a" THEN 3 ELSE 2]
===============================================================================
