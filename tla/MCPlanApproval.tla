-------------------------- MODULE MCPlanApproval --------------------------
(* Instances of PlanApproval for TLC. *)
EXTENDS PlanApproval, TLC

CONSTANTS t1, t2, o1, o2, k1, k2, p1, p2, v1, v2, s1, s2

MCRoutes == {<<o1, k1>>, <<o2, k2>>}
OneProposal == {<<v1, s1>>}
TwoProposals == {<<v1, s1>>, <<v2, s1>>}

\* The tasks are alike, and the policies; an owner comes with its settings.
Same == Permutations({t1, t2}) \cup Permutations({p1, p2})

===========================================================================
