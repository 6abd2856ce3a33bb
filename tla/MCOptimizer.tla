---------------------------- MODULE MCOptimizer ----------------------------
(***************************************************************************)
(* Two validation examples, one-example minibatches and a budget for a few *)
(* iterations of every kind.                                               *)
(***************************************************************************)
EXTENDS Optimizer
=============================================================================
