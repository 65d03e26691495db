---------------------------- MODULE MCModelCalls ----------------------------
(* TLC instances of ModelCalls.                                             *)
EXTENDS ModelCalls, TLC

CONSTANTS p1, p2, w1, w2, w3, local, cloud, guarded

\* Two tasks of one process and one of another.
MCHome == (w1 :> p1) @@ (w2 :> p1) @@ (w3 :> p2)
MCKind == (w1 :> "harness") @@ (w2 :> "router") @@ (w3 :> "reflection")
MCCost == (local :> 0) @@ (cloud :> 1) @@ (guarded :> 2)
\* The fallbacks of an expensive entry and of a cheap one; the last is free.
MCChains == {<<guarded, cloud, local>>, <<cloud, local>>}
MCPolicies ==
    <<[refs |-> {guarded}, kinds |-> {"harness"}, min_chain_depth |-> 1, effect |-> "deny"],
      [refs |-> {guarded}, kinds |-> {"harness", "reflection"}, min_chain_depth |-> 0,
       effect |-> "require_confirmation"],
      [refs |-> {local}, kinds |-> {"router"}, min_chain_depth |-> 0, effect |-> "deny"],
      [refs |-> Refs, kinds |-> Kinds, min_chain_depth |-> 0, effect |-> "allow"]>>
\* Two days of one month.
MCMonthStart == <<1, 1>>
MCMonthEnd == <<3, 3>>
=============================================================================
