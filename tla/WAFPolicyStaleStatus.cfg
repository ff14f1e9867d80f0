\* Idle means done, with lagging informers: a policy is created and its
\* gateway appears, no errors, each cache at most one event behind.
CONSTANTS
    p1 = p1  p2 = p2  g1 = g1  g2 = g2  r1 = r1  rs1 = rs1  rs2 = rs2
    NoObj = NoObj
    Policies <- MC_Policies1
    GatewayNames <- MC_GatewayNames
    RouteNames <- MC_RouteNames
    RuleSets <- MC_RuleSets
    MaxConcurrentReconciles = 1
    MaxIncarnation = 2
    MaxEnvSteps = 3
    MaxFailures = 0
    MaxCacheLag = 1
    MaxRestarts = 0

SPECIFICATION Spec

INVARIANT QuiescentImpliesConverged

\* The controller idles once the queue is empty and users stop.
CHECK_DEADLOCK FALSE
