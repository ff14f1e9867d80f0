\* Fan-out and two workers: two policies, both targeting the one route, one
\* rule set, MaxConcurrentReconciles = 2.  Three user changes: both
\* creations and a route change that concerns both keys.  Fresh caches,
\* reliable watches, no transient errors.
CONSTANTS
    p1 = p1  p2 = p2  g1 = g1  g2 = g2  r1 = r1  rs1 = rs1  rs2 = rs2
    NoObj = NoObj
    Policies <- MC_Policies2
    GatewayNames <- MC_GatewayNames
    RouteNames <- MC_RouteNames
    RuleSets <- MC_RuleSets1
    TargetRefs <- MC_TargetRefsRoute
    MaxConcurrentReconciles = 2
    MaxIncarnation = 1
    MaxEnvSteps = 3
    MaxFailures = 0
    MaxCacheLag = 0
    MaxRestarts = 0

SPECIFICATION Spec

INVARIANT QuiescentImpliesConverged

\* The controller idles once the queue is empty and users stop.
CHECK_DEADLOCK FALSE
