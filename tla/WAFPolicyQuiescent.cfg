\* Idle means done: three user changes, one transient error, one restart
\* of the controller process, reliable watches and fresh caches.  Every
\* state with nothing queued, running or left to collect is checked
\* against the world.
CONSTANTS
    p1 = p1  p2 = p2  g1 = g1  g2 = g2  r1 = r1  rs1 = rs1  rs2 = rs2
    NoObj = NoObj
    Policies <- MC_Policies1
    GatewayNames <- MC_GatewayNames
    RouteNames <- MC_RouteNames
    RuleSets <- MC_RuleSets
    MaxConcurrentReconciles = 1
    MaxIncarnation = 2
    MaxEnvSteps = 3
    MaxFailures = 1
    MaxCacheLag = 0
    MaxRestarts = 1

SPECIFICATION Spec

INVARIANT QuiescentImpliesConverged

\* The controller idles once the queue is empty and users stop.
CHECK_DEADLOCK FALSE
