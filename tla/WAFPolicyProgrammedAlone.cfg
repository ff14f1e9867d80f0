\* A first pass whose Engine write fails: is Programmed ever set without Accepted?
CONSTANTS
    p1 = p1  p2 = p2  g1 = g1  g2 = g2  r1 = r1  rs1 = rs1  rs2 = rs2
    NoObj = NoObj
    Policies <- MC_Policies1
    GatewayNames <- MC_GatewayNames
    RouteNames <- MC_RouteNames
    RuleSets <- MC_RuleSets
    MaxConcurrentReconciles = 1
    MaxIncarnation = 2
    MaxEnvSteps = 2
    MaxFailures = 1
    MaxCacheLag = 0
    MaxRestarts = 0

SPECIFICATION Spec

INVARIANT ProgrammedOnlyWithAccepted

CHECK_DEADLOCK FALSE
