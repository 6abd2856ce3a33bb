------------------------------ MODULE MCStepTree ------------------------------
(* Small instances of StepTree: each tree puts two composites together. *)
EXTENDS StepTree

\* A tree from the kinds, parents and bounds of its nodes.
TreeOf(kind, parent, bound, timed, collects) ==
  [kind |-> kind, parent |-> parent, bound |-> bound, timed |-> timed, collects |-> collects]

PolicyOverParallel ==
  TreeOf(<<"policy", "parallel", "leaf", "cache", "leaf">>, <<0, 1, 2, 2, 4>>, <<2, 1, 1, 1, 1>>, {1}, {})

ParallelOfPolicyAndLoop ==
  TreeOf(<<"parallel", "policy", "leaf", "loop", "leaf">>, <<0, 1, 2, 1, 4>>, <<1, 2, 1, 2, 1>>, {2}, {})

MapOfLeaves == TreeOf(<<"map", "leaf", "leaf", "leaf">>, <<0, 1, 1, 1>>, <<2, 1, 1, 1>>, {}, {})

PolicyOverMap ==
  TreeOf(<<"policy", "map", "leaf", "leaf">>, <<0, 1, 2, 2>>, <<2, 2, 1, 1>>, {1}, {2})

MapOfPolicies ==
  TreeOf(<<"map", "policy", "leaf", "policy", "leaf">>, <<0, 1, 2, 1, 4>>, <<2, 2, 1, 1, 1>>, {2, 4}, {1})

PolicyOverCache == TreeOf(<<"policy", "cache", "leaf">>, <<0, 1, 2>>, <<3, 1, 1>>, {1}, {})

CacheOverPolicy == TreeOf(<<"cache", "policy", "leaf">>, <<0, 1, 2>>, <<1, 2, 1>>, {2}, {})

PolicyOverUntil ==
  TreeOf(<<"policy", "until", "leaf", "leaf">>, <<0, 1, 2, 2>>, <<2, 1, 1, 1>>, {1}, {2})

LoopOverParallel ==
  TreeOf(<<"loop", "parallel", "leaf", "leaf">>, <<0, 1, 2, 2>>, <<2, 1, 1, 1>>, {}, {})

\* An iteration may serve what the cache kept of the one before, and drop it with a failed attempt.
LoopOverPolicyOverCache ==
  TreeOf(<<"loop", "policy", "cache", "leaf">>, <<0, 1, 2, 3>>, <<2, 2, 1, 1>>, {2}, {})

MCTrees ==
  {PolicyOverParallel, ParallelOfPolicyAndLoop, MapOfLeaves, PolicyOverMap, MapOfPolicies,
   PolicyOverCache, CacheOverPolicy, PolicyOverUntil, LoopOverParallel, LoopOverPolicyOverCache}
===============================================================================
