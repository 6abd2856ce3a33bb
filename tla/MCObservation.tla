---------------------------- MODULE MCObservation ----------------------------
(* Two pipelines: a Parallel, one of whose children runs a nested pipeline,  *)
(* before a step; a step before a wrapped one that a rewind revisits; and a  *)
(* step in two wrappers, the outer one with a timeout.                       *)
EXTENDS Observation

MCSteps == {"p", "a", "b", "q", "w", "u", "c"}
MCPipelines == {<<"p", "q">>, <<"q", "w">>, <<"u">>}
MCNestedSteps == <<"c">>
MCChildren == [s \in MCSteps |-> IF s = "p" THEN {"a", "b"} ELSE {}]
MCWrappers == [s \in MCSteps |-> CASE s = "w" -> 1 [] s = "u" -> 2 [] OTHER -> 0]
MCReads == [p |-> {"x"}, a |-> {"x"}, b |-> {"x"}, c |-> {"x"}, q |-> {"x"}, w |-> {"y"}, u |-> {"x"}]
MCWrites == [p |-> {"y", "z"}, a |-> {"y"}, b |-> {"z"}, c |-> {"z"}, q |-> {"y"}, w |-> {"v"}, u |-> {"v"}]
MCInputs == [root |-> {"x"}, nested |-> {"x"}]

World(steps, root, nested, rootHides, nestedHides, recorded) ==
  [steps |-> steps, observers |-> [root |-> root, nested |-> nested],
   hides |-> [root |-> rootHides, nested |-> nestedHides], recorded |-> recorded]
MCWorlds ==
  UNION {{World(steps, {"resolver", "trace"}, {"trace", "inner"}, {"y"}, {"x"}, FALSE),
          World(steps, {}, {"resolver", "trace"}, {"x"}, {"z"}, TRUE),
          World(steps, {"resolver"}, {"inner"}, {}, {"z"}, TRUE),
          World(steps, {}, {"inner"}, {}, {}, TRUE),
          World(steps, {}, {"trace"}, {}, {"x"}, FALSE)} : steps \in MCPipelines}
===============================================================================
