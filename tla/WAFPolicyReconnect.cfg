\* Watch reconnects and restarts with lagging informers: a policy informer
\* may owe two events for the policy, so a delete and re-create can both be
\* pending when the watch breaks and the relist merges them; one reconnect
\* or one restart of the controller process.  One policy on gateway g1, one
\* rule set, three user changes, no transient errors.
CONSTANTS
    p1 = p1  p2 = p2  g1 = g1  g2 = g2  r1 = r1  rs1 = rs1  rs2 = rs2
    NoObj = NoObj
    Policies <- MC_Policies1
    GatewayNames <- MC_GatewayNames1
    RouteNames <- MC_RouteNames0
    RuleSets <- MC_RuleSets1
    TargetRefs <- MC_TargetRefsGateway1
    MaxConcurrentReconciles = 1
    MaxIncarnation = 2
    MaxEnvSteps = 3
    MaxFailures = 0
    MaxCacheLag = 2
    MaxRestarts = 1
SPECIFICATION Spec
INVARIANT QuiescentLifecycleSettled
PROPERTY WritesLandOnReadIncarnation
PROPERTY ImplementsLifecycle
\* The controller idles once the queue is empty and users stop.
CHECK_DEADLOCK FALSE
