---------------------------- MODULE MC_WAFPolicy ----------------------------
(* Model-checking instance of WAFPolicyReconciler: the names are model    *)
(* values declared here and given in the .cfg files.                      *)
EXTENDS WAFPolicyReconciler

CONSTANTS p1, p2, g1, g2, r1, rs1, rs2

MC_Policies1 == {p1}
MC_Policies2 == {p1, p2}
MC_GatewayNames == {g1, g2}
MC_RouteNames == {r1}
MC_RuleSets == {rs1, rs2}
MC_RuleSets1 == {rs1}
MC_GatewayNames1 == {g1}
MC_RouteNames0 == {}

\* Only gateway g1 as target: the policy's spec changes only in its rule set
MC_TargetRefsGateway1 == [kind: {"Gateway"}, name: MC_GatewayNames1]

\* Only the route as target: every policy shares it, so one route event
\* fans out to every key
MC_TargetRefsRoute == [kind: {"HTTPRoute"}, name: MC_RouteNames]
=============================================================================
