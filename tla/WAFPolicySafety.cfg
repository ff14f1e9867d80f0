\* One policy, two gateways, one route, two rule sets, any initial world.
\* Three user changes reach: edit between the pass's Get and its finalizer
\* Update; delete and re-create during a pass; a gateway or route change
\* after the policy was programmed.  One transient error on any call.
CONSTANTS
    p1 = p1  p2 = p2  g1 = g1  g2 = g2  r1 = r1  rs1 = rs1  rs2 = rs2
    NoObj = NoObj
    Policies <- MC_Policies1
    GatewayNames <- MC_GatewayNames
    RouteNames <- MC_RouteNames
    RuleSets <- MC_RuleSets
    MaxConcurrentReconciles = 1
    MaxIncarnation = 2
    MaxEnvSteps = 3
    MaxFailures = 1
    MaxCacheLag = 0
    MaxRestarts = 0

SPECIFICATION Spec

INVARIANT TypeOK
INVARIANT ProgrammedImpliesAccepted
PROPERTY ReconcilerKeepsSpec
PROPERTY WritesLandOnReadIncarnation

\* The controller idles once the queue is empty and users stop.
CHECK_DEADLOCK FALSE
