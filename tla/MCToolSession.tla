--------------------------- MODULE MCToolSession ---------------------------
(***************************************************************************)
(* A run with Tools (session 1) whose Parallel step "par" runs "left" and  *)
(* "right"; "left" nests a run with a ToolPolicy only (session 2, created  *)
(* later, which encloses session 1), whose step is "inner"; an agent there *)
(* calls through a session of its own (session 3).                         *)
(***************************************************************************)
EXTENDS ToolSession, TLC

CONSTANTS t, u, byPredict, byAgent, atRight, again

MCCalls == {byPredict, byAgent, atRight, again}

MCSessionOf == (byPredict :> 1) @@ (byAgent :> 3) @@ (atRight :> 1) @@ (again :> 1)
MCEnv == (byPredict :> <<2, 1>>) @@ (byAgent :> <<2, 1>>) @@ (atRight :> <<1>>) @@ (again :> <<1>>)
MCToolOf == (byPredict :> t) @@ (byAgent :> u) @@ (atRight :> t) @@ (again :> t)
MCStepOf == (byPredict :> "inner") @@ (byAgent :> "inner") @@ (atRight :> "right") @@ (again :> "left")

MCParent == [par |-> NoStep, left |-> "par", right |-> "par", inner |-> "left"]
MCOwnSession == [par |-> {1}, left |-> {}, right |-> {}, inner |-> {2}]

MCAllow == (1 :> {t, u}) @@ (2 :> {t, u}) @@ (3 :> {t, u})
MCMaxCalls == (1 :> 2) @@ (2 :> 1) @@ (3 :> 0)
MCMaxCallsPerTool == (1 :> ((t :> 0) @@ (u :> 0))) @@ (2 :> ((t :> 0) @@ (u :> 0)))
                     @@ (3 :> ((t :> 0) @@ (u :> 1)))
=============================================================================
