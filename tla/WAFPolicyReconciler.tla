------------------------- MODULE WAFPolicyReconciler -------------------------
(***************************************************************************)
(* The WAFPolicy controller (WAFPolicyReconciler in                        *)
(* internal/controller/wafpolicy_controller.go) together with the parts    *)
(* of its surroundings it relies on: the API server's objects with their   *)
(* resourceVersion, uid, generation and finalizer rules, the workqueue     *)
(* with its rate-limited requeue, the watches of SetupWithManager, the     *)
(* garbage collector that deletes an Engine whose owner is gone, and the   *)
(* users and controllers that change Gateways, HTTPRoutes, WAFPolicies and *)
(* Engines.  One namespace; every store call of a pass is its own step.    *)
(* The manager's client serves Gets and Lists of WAFPolicies and Engines   *)
(* from informer caches that lag the API server, and the watch handlers   *)
(* run when an informer applies an event to its cache; unstructured        *)
(* Gateways and HTTPRoutes are read from the API server.                  *)
(***************************************************************************)
EXTENDS Naturals, FiniteSets, Sequences

CONSTANTS
    Policies,          \* WAFPolicy names: the reconcile keys
    GatewayNames,      \* Gateway names
    RouteNames,        \* HTTPRoute names
    RuleSets,          \* RuleSet names a policy may reference
    NoObj,             \* model value: object absent / local unset
    MaxConcurrentReconciles, \* controller workers (controller-runtime default 1)
    MaxIncarnation,    \* creations of one policy name (distinct metadata.uid)
    MaxEnvSteps,       \* changes made by users and other controllers
    MaxFailures,       \* transient API errors
    MaxCacheLag,       \* watch events an informer may have left to apply for
                       \* one object when another step starts (0: caches
                       \* are fresh and events immediate)
    MaxRestarts        \* restarts of the controller process

VARIABLES
    pol,          \* pol[p]: the WAFPolicy named p in the API server, or NoObj
    gateways,     \* names of the Gateways that exist
    routes,       \* routes[r]: the HTTPRoute r and the shape of parentRefs[0]
    eng,          \* eng[p]: the Engine "wafpolicy-"+p, or NoObj
    uids,         \* uids[p]: incarnations of policy p created so far
    rev,          \* the API server's resourceVersion counter
    queue,        \* keys waiting in the workqueue
    pc,           \* pc[p]: the step of the pass for key p
    snap,         \* snap[p]: the pass's in-memory copy of the policy
    sel,          \* sel[p]: gateway name resolved for the workload selector
    seen,         \* seen[p]: the Engine CreateOrUpdate read, or NoObj
    reason,       \* reason[p]: the reason handed to setNotAccepted
    cpol,         \* cpol[p]: the WAFPolicy informer's copy of pol[p]
    ceng,         \* ceng[p]: the Engine informer's copy of eng[p]
    evPol,        \* evPol[p]: watch events for policy p not yet applied
    evEng,        \* evEng[p]: watch events for Engine p not yet applied
    result,       \* result[p]: CreateOrUpdate's OperationResult or error
    failures, envSteps,
    restarts      \* controller process restarts so far

storeVars == <<pol, gateways, routes, eng, uids, rev>>
passVars  == <<pc, snap, sel, seen, reason, result>>
cacheVars == <<cpol, ceng>>
watchVars == <<evPol, evEng>>
vars      == <<storeVars, queue, passVars, cacheVars, watchVars, failures,
              envSteps, restarts>>

-----------------------------------------------------------------------------
(* Objects.                                                                *)

\* spec.targetRef: the CRD admits only kind Gateway or HTTPRoute, same namespace
TargetRefs == [kind: {"Gateway"}, name: GatewayNames]
                \cup [kind: {"HTTPRoute"}, name: RouteNames]

\* An HTTPRoute is absent, has no parentRefs, has a parentRefs[0] that is not
\* a map or has no name, or names a gateway in parentRefs[0].name
RouteStates == {"absent", "noParentRefs", "invalidParentRef"} \cup GatewayNames

CondTypes == {"Accepted", "Programmed"}
Reasons == {"Accepted", "Programmed", "TargetNotFound", "NoParentGateway",
            "InvalidParentRef", "EngineSyncFailed"}

\* What controllerutil.CreateOrUpdate returns: an OperationResult, or the
\* error of its Create or Update
OperationResults == {"created", "updated", "unchanged"}
EngineErrors == {"transient", "alreadyExists", "notFound", "conflict"}

\* The text of a condition's message, by what it is formatted from: the
\* fixed Accepted text, the OperationResult (Programmed=True), the error
\* (EngineSyncFailed) or the target's name (setNotAccepted; the kind
\* follows from the name, the two name sets being disjoint)
Messages == {"accepted"} \cup OperationResults \cup EngineErrors
                \cup GatewayNames \cup RouteNames

\* metav1.Condition without lastTransitionTime
Cond(status, r, gen, msg) ==
    [status |-> status, reason |-> r, observedGeneration |-> gen, message |-> msg]

Conditions == [CondTypes -> [status: {"True", "False"}, reason: Reasons,
                             observedGeneration: Nat, message: Messages] \cup {NoObj}]

PolicyObjs == [uid: Nat, gen: Nat, rv: Nat, targetRef: TargetRefs,
               ruleSet: RuleSets, deleting: BOOLEAN, finalizer: BOOLEAN,
               conditions: Conditions]

EngineObjs == [owner: Nat, ruleSet: RuleSets, selector: GatewayNames, rv: Nat]

Steps == {"Idle", "Get", "AddFinalizer", "Resolve", "GetEngine", "WriteEngine",
          "PatchProgrammed", "PatchSyncFailed", "SetNotAccepted",
          "RemoveFinalizer"}

\* apimeta.SetStatusCondition / RemoveStatusCondition on the list keyed by type
SetCondition(cs, t, c) == [cs EXCEPT ![t] = c]
RemoveCondition(cs, t) == [cs EXCEPT ![t] = NoObj]

-----------------------------------------------------------------------------
(* API server rules the pass depends on.                                   *)

\* Mutant of IsCurrent: the Update carries no resourceVersion precondition
IsCurrentUnchecked(s, cur) == TRUE

\* Optimistic concurrency: an Update is accepted only while the client's
\* resourceVersion is the stored one (the counter is store-wide, so a
\* re-created object never matches an old copy).
IsCurrent(s, cur) == s.rv = cur.rv

\* The Update reaches an existing object whose version the client holds
UpdateAccepted(s, cur) == cur # NoObj /\ IsCurrent(s, cur)

\* What r.Update(ctx, &policy) stores: spec and finalizers from the client's
\* copy; uid, deletionTimestamp and status (a subresource) from the store;
\* generation bumped when the spec changed.
Updated(cur, s, r) ==
    [cur EXCEPT !.targetRef = s.targetRef, !.ruleSet = s.ruleSet,
                !.finalizer = s.finalizer, !.rv = r,
                !.gen = IF <<s.targetRef, s.ruleSet>> = <<cur.targetRef, cur.ruleSet>>
                        THEN cur.gen ELSE cur.gen + 1]

\* A store call fails with a transient error (timeout, throttling, 5xx)
TransientError == failures < MaxFailures /\ failures' = failures + 1

-----------------------------------------------------------------------------
(* Workqueue.                                                              *)

\* Mutant of Finish: the key is forgotten even when the pass failed
FinishForget(p, requeue) ==
    /\ pc'     = [pc EXCEPT ![p] = "Idle"]
    /\ result' = [result EXCEPT ![p] = NoObj]
    /\ snap'   = [snap EXCEPT ![p] = NoObj]
    /\ sel'    = [sel EXCEPT ![p] = NoObj]
    /\ seen'   = [seen EXCEPT ![p] = NoObj]
    /\ reason' = [reason EXCEPT ![p] = NoObj]
    /\ UNCHANGED queue

\* End of Reconcile: an error or Result{Requeue: true} re-adds the key through
\* the exponential rate limiter; a key added while it was being processed is
\* still in the queue and runs again.  The pass's locals are dropped.
Finish(p, requeue) ==
    /\ pc'     = [pc EXCEPT ![p] = "Idle"]
    /\ result' = [result EXCEPT ![p] = NoObj]
    /\ snap'   = [snap EXCEPT ![p] = NoObj]
    /\ sel'    = [sel EXCEPT ![p] = NoObj]
    /\ seen'   = [seen EXCEPT ![p] = NoObj]
    /\ reason' = [reason EXCEPT ![p] = NoObj]
    /\ queue'  = IF requeue THEN queue \cup {p} ELSE queue

\* No informer is more than MaxCacheLag events behind the API server
InformerCaughtUp ==
    \A p \in Policies : Len(evPol[p]) <= MaxCacheLag /\ Len(evEng[p]) <= MaxCacheLag

GoTo(p, step) == pc' = [pc EXCEPT ![p] = step]

\* A worker takes a key that is not being processed by another worker
Dequeue(p) ==
    /\ InformerCaughtUp
    /\ p \in queue
    /\ pc[p] = "Idle"
    /\ Cardinality({q \in Policies : pc[q] # "Idle"}) < MaxConcurrentReconciles
    /\ queue' = queue \ {p}
    /\ GoTo(p, "Get")
    /\ UNCHANGED <<storeVars, snap, sel, seen, reason, result, cacheVars, failures,
                   envSteps, restarts>>

-----------------------------------------------------------------------------
(* The reconcile pass (Reconcile and the functions it calls).              *)

\* Mutant of AfterGet: the pass goes on without attaching the finalizer
AfterGetNoFinalizer(obj) == IF obj.deleting THEN "RemoveFinalizer" ELSE "Resolve"

\* Where Reconcile goes after reading the policy: handleDeletion when a
\* deletionTimestamp is set, else attach the finalizer if missing, else
\* dispatch on spec.targetRef.kind.
AfterGet(obj) ==
    CASE obj.deleting      -> "RemoveFinalizer"
      [] ~obj.finalizer    -> "AddFinalizer"
      [] OTHER             -> "Resolve"

\* r.Get of the policy from the informer cache: not found ends the pass
\* successfully.  A read of the synced cache does not fail (its other error,
\* a cancelled context, comes only with a shutdown: a Restart).
Reconcile(p) ==
    /\ pc[p] = "Get"
    /\ \/ /\ cpol[p] = NoObj
          /\ Finish(p, FALSE)
       \/ /\ cpol[p] # NoObj
          /\ snap' = [snap EXCEPT ![p] = cpol[p]]
          /\ GoTo(p, AfterGet(cpol[p]))
          /\ UNCHANGED <<queue, sel, seen, reason, result>>
    /\ UNCHANGED <<storeVars, failures, envSteps>>

\* Mutant of AddFinalizer: the error of the finalizer Update is not checked
\* and the pass goes on with its copy
AddFinalizerIgnoresError(p) ==
    /\ pc[p] = "AddFinalizer"
    /\ LET s == [snap[p] EXCEPT !.finalizer = TRUE] IN
       \/ /\ ~UpdateAccepted(s, pol[p])
          /\ GoTo(p, "Resolve")
          /\ UNCHANGED <<pol, rev, queue, snap, sel, seen, reason, result, failures>>
       \/ /\ UpdateAccepted(s, pol[p])
          /\ rev' = rev + 1
          /\ pol' = [pol EXCEPT ![p] = Updated(pol[p], s, rev')]
          /\ snap' = [snap EXCEPT ![p] = pol'[p]]
          /\ GoTo(p, "Resolve")
          /\ UNCHANGED <<queue, sel, seen, reason, result, failures>>
    /\ UNCHANGED <<gateways, routes, eng, uids, envSteps>>

\* AddFinalizer then r.Update; on success the copy is refreshed from the
\* server's answer and the same pass continues with the target
AddFinalizer(p) ==
    /\ pc[p] = "AddFinalizer"
    /\ LET s == [snap[p] EXCEPT !.finalizer = TRUE] IN
       \/ /\ TransientError
          /\ Finish(p, TRUE)
          /\ UNCHANGED <<pol, rev>>
       \/ /\ ~UpdateAccepted(s, pol[p])     \* NotFound, Conflict
          /\ Finish(p, TRUE)
          /\ UNCHANGED <<pol, rev, failures>>
       \/ /\ UpdateAccepted(s, pol[p])
          /\ rev' = rev + 1
          /\ pol' = [pol EXCEPT ![p] = Updated(pol[p], s, rev')]
          /\ snap' = [snap EXCEPT ![p] = pol'[p]]
          /\ GoTo(p, "Resolve")
          /\ UNCHANGED <<queue, sel, seen, reason, result, failures>>
    /\ UNCHANGED <<gateways, routes, eng, uids, envSteps>>

\* Target resolved to gateway g: go on to ensureEngine
Resolved(p, g) ==
    /\ sel' = [sel EXCEPT ![p] = g]
    /\ GoTo(p, "GetEngine")
    /\ UNCHANGED <<queue, snap, seen, reason, result, failures>>

\* Target not usable: go on to setNotAccepted with reason r
NotAccepted(p, r) ==
    /\ reason' = [reason EXCEPT ![p] = r]
    /\ GoTo(p, "SetNotAccepted")
    /\ UNCHANGED <<queue, snap, sel, seen, result, failures>>

\* reconcileForGateway: r.Get of the Gateway named by the targetRef
reconcileForGateway(p) ==
    /\ pc[p] = "Resolve"
    /\ snap[p].targetRef.kind = "Gateway"
    /\ LET g == snap[p].targetRef.name IN
       \/ TransientError /\ Finish(p, TRUE)
       \/ g \notin gateways /\ NotAccepted(p, "TargetNotFound")
       \/ g \in gateways /\ Resolved(p, g)
    /\ UNCHANGED <<storeVars, envSteps>>

\* reconcileForHTTPRoute: r.Get of the route, then parentRefs[0].name
reconcileForHTTPRoute(p) ==
    /\ pc[p] = "Resolve"
    /\ snap[p].targetRef.kind = "HTTPRoute"
    /\ LET st == routes[snap[p].targetRef.name] IN
       \/ TransientError /\ Finish(p, TRUE)
       \/ st = "absent" /\ NotAccepted(p, "TargetNotFound")
       \/ st = "noParentRefs" /\ NotAccepted(p, "NoParentGateway")
       \/ st = "invalidParentRef" /\ NotAccepted(p, "InvalidParentRef")
       \/ st \in GatewayNames /\ Resolved(p, st)
    /\ UNCHANGED <<storeVars, envSteps>>

\* Mutant of DesiredEngine: the selector takes the targetRef's name, which
\* for an HTTPRoute target is the route, not its parent gateway
DesiredEngineTargetName(p) ==
    [owner |-> snap[p].uid, ruleSet |-> snap[p].ruleSet, selector |-> snap[p].targetRef.name]

\* The Engine spec the mutate function of ensureEngine builds, with the
\* controller reference to the policy's uid
DesiredEngine(p) ==
    [owner |-> snap[p].uid, ruleSet |-> snap[p].ruleSet, selector |-> sel[p]]

EngineSpec(e) == [owner |-> e.owner, ruleSet |-> e.ruleSet, selector |-> e.selector]

\* The stored object: the spec written with the store's new resourceVersion
Stored(e, r) == [owner |-> e.owner, ruleSet |-> e.ruleSet, selector |-> e.selector, rv |-> r]

\* controllerutil.CreateOrUpdate, first half: Get the Engine from the
\* informer cache and run the mutate function.  SetControllerReference
\* matches an existing controller reference by group, kind and name, not
\* uid, so the Engine of an earlier incarnation of the policy is adopted:
\* its reference is rewritten to the uid the pass read and the Engine
\* differs.  An unchanged object is not written (OperationResultNone).
GetEngine(p) ==
    /\ pc[p] = "GetEngine"
    /\ \/ /\ ceng[p] = NoObj
          /\ GoTo(p, "WriteEngine")
          /\ UNCHANGED <<seen, result>>
       \/ /\ ceng[p] # NoObj /\ EngineSpec(ceng[p]) = DesiredEngine(p)
          /\ result' = [result EXCEPT ![p] = "unchanged"]
          /\ GoTo(p, "PatchProgrammed")
          /\ UNCHANGED seen
       \/ /\ ceng[p] # NoObj /\ EngineSpec(ceng[p]) # DesiredEngine(p)
          /\ seen' = [seen EXCEPT ![p] = ceng[p]]
          /\ GoTo(p, "WriteEngine")
          /\ UNCHANGED result
    /\ UNCHANGED <<storeVars, queue, snap, sel, reason, failures, envSteps>>

\* The write CreateOrUpdate makes: Create when the Get found nothing (fails
\* with AlreadyExists if one appeared), else Update with the resourceVersion
\* it read (fails with NotFound or Conflict)
EngineWritable(p) ==
    IF seen[p] = NoObj THEN eng[p] = NoObj
    ELSE eng[p] # NoObj /\ eng[p].rv = seen[p].rv

\* The error the API server gives a write that is not EngineWritable
EngineWriteError(p) ==
    CASE seen[p] = NoObj -> "alreadyExists"
      [] eng[p] = NoObj  -> "notFound"
      [] OTHER           -> "conflict"

\* controllerutil.CreateOrUpdate, second half: the write goes to the API
\* server; the result or the error is what the status message reports
WriteEngine(p) ==
    /\ pc[p] = "WriteEngine"
    /\ \/ /\ TransientError
          /\ result' = [result EXCEPT ![p] = "transient"]
          /\ GoTo(p, "PatchSyncFailed")
          /\ UNCHANGED <<eng, rev, queue>>
       \/ /\ ~EngineWritable(p)
          /\ result' = [result EXCEPT ![p] = EngineWriteError(p)]
          /\ GoTo(p, "PatchSyncFailed")
          /\ UNCHANGED <<eng, rev, queue, failures>>
       \/ /\ EngineWritable(p)
          /\ rev' = rev + 1
          /\ eng' = [eng EXCEPT ![p] = Stored(DesiredEngine(p), rev')]
          /\ result' = [result EXCEPT ![p] = IF seen[p] = NoObj THEN "created" ELSE "updated"]
          /\ GoTo(p, "PatchProgrammed")
          /\ UNCHANGED <<queue, failures>>
    /\ UNCHANGED <<pol, gateways, routes, uids, snap, sel, seen, reason, envSteps>>

\* r.Status().Patch(ctx, policy, client.MergeFrom(copy)): a JSON merge patch
\* of the difference between the pass's copy and its modified conditions,
\* with no resourceVersion precondition.  conditions is a list, so the patch
\* carries the whole list; an unchanged list (messages included) is an
\* empty patch.
StatusPatched(p, cs) ==
    IF cs = snap[p].conditions THEN UNCHANGED <<pol, rev>>
    ELSE /\ rev' = rev + 1
         /\ pol' = [pol EXCEPT ![p] = [@ EXCEPT !.conditions = cs, !.rv = rev']]

\* The status patch fails with a transient error.  (It cannot meet NotFound:
\* after the finalizer step only this pass could remove the policy.)
PatchFails(p) == TransientError

\* ensureEngine after a successful CreateOrUpdate: Accepted=True and
\* Programmed=True stamped with the copy's generation, the Programmed
\* message naming the OperationResult res
ProgrammedConditions(cs, gen, res) ==
    SetCondition(SetCondition(cs, "Accepted", Cond("True", "Accepted", gen, "accepted")),
                 "Programmed", Cond("True", "Programmed", gen, res))

PatchProgrammed(p) ==
    /\ pc[p] = "PatchProgrammed"
    /\ \/ PatchFails(p) /\ Finish(p, TRUE) /\ UNCHANGED <<pol, rev>>
       \/ /\ pol[p] # NoObj
          /\ StatusPatched(p, ProgrammedConditions(snap[p].conditions, snap[p].gen, result[p]))
          /\ Finish(p, FALSE)
          /\ UNCHANGED failures
    /\ UNCHANGED <<gateways, routes, eng, uids, envSteps>>

\* ensureEngine after CreateOrUpdate failed: Programmed=False with the
\* error in its message, the Accepted condition left as the copy had it; a
\* failed patch is only logged and the CreateOrUpdate error is returned
SyncFailedConditions(cs, gen, err) ==
    SetCondition(cs, "Programmed", Cond("False", "EngineSyncFailed", gen, err))

PatchSyncFailed(p) ==
    /\ pc[p] = "PatchSyncFailed"
    /\ \/ PatchFails(p) /\ UNCHANGED <<pol, rev>>
       \/ /\ pol[p] # NoObj
          /\ StatusPatched(p, SyncFailedConditions(snap[p].conditions, snap[p].gen, result[p]))
          /\ UNCHANGED failures
    /\ Finish(p, TRUE)
    /\ UNCHANGED <<gateways, routes, eng, uids, envSteps>>

\* Mutant of NotAcceptedConditions: Programmed is left in place
NotAcceptedKeepsProgrammed(cs, r, gen, msg) ==
    SetCondition(cs, "Accepted", Cond("False", r, gen, msg))

\* setNotAccepted: Accepted=False with the reason and a message naming the
\* target, Programmed removed
NotAcceptedConditions(cs, r, gen, msg) ==
    RemoveCondition(SetCondition(cs, "Accepted", Cond("False", r, gen, msg)), "Programmed")

\* Only TargetNotFound returns Result{Requeue: true}; the others end the pass
\* unless the patch fails
SetNotAccepted(p) ==
    /\ pc[p] = "SetNotAccepted"
    /\ \/ PatchFails(p) /\ Finish(p, TRUE) /\ UNCHANGED <<pol, rev>>
       \/ /\ pol[p] # NoObj
          /\ StatusPatched(p, NotAcceptedConditions(snap[p].conditions, reason[p],
                                                    snap[p].gen, snap[p].targetRef.name))
          /\ Finish(p, reason[p] = "TargetNotFound")
          /\ UNCHANGED failures
    /\ UNCHANGED <<gateways, routes, eng, uids, envSteps>>

\* handleDeletion: RemoveFinalizer then r.Update; with deletionTimestamp set
\* and no finalizer left the API server removes the object
handleDeletion(p) ==
    /\ pc[p] = "RemoveFinalizer"
    /\ snap[p].finalizer
    /\ LET s == [snap[p] EXCEPT !.finalizer = FALSE] IN
       \/ /\ TransientError
          /\ Finish(p, TRUE)
          /\ UNCHANGED <<pol, rev>>
       \/ /\ ~UpdateAccepted(s, pol[p])     \* NotFound, Conflict
          /\ Finish(p, TRUE)
          /\ UNCHANGED <<pol, rev, failures>>
       \/ /\ UpdateAccepted(s, pol[p])
          /\ rev' = rev + 1
          /\ pol' = [pol EXCEPT ![p] = NoObj]
          /\ Finish(p, FALSE)
          /\ UNCHANGED failures
    /\ UNCHANGED <<gateways, routes, eng, uids, envSteps>>

ReconcileStep(p) ==
    /\ \/ Reconcile(p)
       \/ AddFinalizer(p)
       \/ reconcileForGateway(p)
       \/ reconcileForHTTPRoute(p)
       \/ GetEngine(p)
       \/ WriteEngine(p)
       \/ PatchProgrammed(p)
       \/ PatchSyncFailed(p)
       \/ SetNotAccepted(p)
       \/ handleDeletion(p)
    /\ InformerCaughtUp
    /\ UNCHANGED <<cacheVars, restarts>>

-----------------------------------------------------------------------------
(* Watches (SetupWithManager) and the environment.                         *)

\* Mutant of findPoliciesForTarget: only the first matching policy is
\* enqueued
findPoliciesForTargetFirst(kind, name) ==
    LET matching == {p \in Policies : cpol[p] # NoObj
                                      /\ cpol[p].targetRef = [kind |-> kind, name |-> name]}
    IN IF matching = {} THEN {} ELSE {CHOOSE p \in matching : TRUE}

\* findPoliciesForTarget: List the policies of the namespace (from the
\* informer cache) and keep those whose targetRef is (kind, name)
findPoliciesForTarget(kind, name) ==
    {p \in Policies : cpol[p] # NoObj /\ cpol[p].targetRef = [kind |-> kind, name |-> name]}

\* A Gateway or HTTPRoute event: the mapper's keys are enqueued.  Its List
\* reads the synced informer cache, which fails only once the manager's
\* context is cancelled at shutdown.
TargetEvent(kind, name) ==
    queue' = queue \cup findPoliciesForTarget(kind, name)

EnvStep == envSteps < MaxEnvSteps /\ envSteps' = envSteps + 1

NoConditions == [t \in CondTypes |-> NoObj]

\* A user creates policy p (admission admits only the targetRefs above)
CreatePolicy(p) ==
    /\ EnvStep
    /\ pol[p] = NoObj
    /\ uids[p] < MaxIncarnation
    /\ \E t \in TargetRefs, rs \in RuleSets :
          /\ rev' = rev + 1
          /\ uids' = [uids EXCEPT ![p] = @ + 1]
          /\ pol' = [pol EXCEPT ![p] =
                       [uid |-> uids'[p], gen |-> 1, rv |-> rev', targetRef |-> t,
                        ruleSet |-> rs, deleting |-> FALSE, finalizer |-> FALSE,
                        conditions |-> NoConditions]]
    /\ UNCHANGED <<gateways, routes, eng, queue, passVars, failures>>

\* A user changes the spec: generation bumps
EditPolicy(p) ==
    /\ EnvStep
    /\ pol[p] # NoObj
    /\ \E t \in TargetRefs, rs \in RuleSets :
          /\ <<t, rs>> # <<pol[p].targetRef, pol[p].ruleSet>>
          /\ rev' = rev + 1
          /\ pol' = [pol EXCEPT ![p] = [@ EXCEPT !.targetRef = t, !.ruleSet = rs,
                                          !.gen = @ + 1, !.rv = rev']]
    /\ UNCHANGED <<gateways, routes, eng, uids, queue, passVars, failures>>

\* A user deletes the policy: with a finalizer the API server only sets the
\* deletionTimestamp (and bumps generation), without one it removes it
DeletePolicy(p) ==
    /\ EnvStep
    /\ pol[p] # NoObj
    /\ ~pol[p].deleting
    /\ rev' = rev + 1
    /\ pol' = [pol EXCEPT ![p] = IF @.finalizer
                                 THEN [@ EXCEPT !.deleting = TRUE, !.gen = @ + 1, !.rv = rev']
                                 ELSE NoObj]
    /\ UNCHANGED <<gateways, routes, eng, uids, queue, passVars, failures>>

\* A Gateway is created or deleted
ToggleGateway(g) ==
    /\ EnvStep
    /\ gateways' = IF g \in gateways THEN gateways \ {g} ELSE gateways \cup {g}
    /\ TargetEvent("Gateway", g)
    /\ UNCHANGED <<pol, routes, eng, uids, rev, passVars, failures>>

\* An HTTPRoute is created, deleted, or its parentRefs changed
ChangeRoute(r) ==
    /\ EnvStep
    /\ \E st \in RouteStates \ {routes[r]} : routes' = [routes EXCEPT ![r] = st]
    /\ TargetEvent("HTTPRoute", r)
    /\ UNCHANGED <<pol, gateways, eng, uids, rev, passVars, failures>>

\* Someone edits or deletes the Engine
DriftEngine(p) ==
    /\ EnvStep
    /\ eng[p] # NoObj
    /\ rev' = rev + 1
    /\ \/ eng' = [eng EXCEPT ![p] = NoObj]
       \/ \E rs \in RuleSets \ {eng[p].ruleSet} :
             eng' = [eng EXCEPT ![p] = [@ EXCEPT !.ruleSet = rs, !.rv = rev']]
    /\ UNCHANGED <<pol, gateways, routes, uids, queue, passVars, failures>>

\* The Engine's controlling owner (by uid) no longer exists
Orphaned(p) == eng[p] # NoObj /\ ~(pol[p] # NoObj /\ pol[p].uid = eng[p].owner)

\* The garbage collector deletes an orphaned Engine (it checks the owner
\* with the API server, not a cache)
GarbageCollect(p) ==
    /\ InformerCaughtUp
    /\ Orphaned(p)
    /\ rev' = rev + 1
    /\ eng' = [eng EXCEPT ![p] = NoObj]
    /\ UNCHANGED <<pol, gateways, routes, uids, queue, passVars, cacheVars,
                   failures, envSteps, restarts>>

\* Mutant of PolicyEventPasses: only create and delete events pass
PolicyEventPassesNoGen(old, new) == old = NoObj \/ new = NoObj

\* The For() handler's GenerationChangedPredicate: create and delete events
\* pass, an update passes only when metadata.generation changed
PolicyEventPasses(old, new) ==
    old = NoObj \/ new = NoObj \/ old.gen # new.gen

\* The API server's watch: every change of a policy or an Engine in the
\* store is an event, delivered to its informer in order
WatchEvents ==
    /\ evPol' = [p \in Policies |->
                   IF pol'[p] = pol[p] THEN evPol[p] ELSE Append(evPol[p], pol'[p])]
    /\ evEng' = [p \in Policies |->
                   IF eng'[p] = eng[p] THEN evEng[p] ELSE Append(evEng[p], eng'[p])]

\* The WAFPolicy informer applies the next event for p to its cache and runs
\* the For() handler
SyncPolicy(p) ==
    /\ evPol[p] # <<>>
    /\ cpol' = [cpol EXCEPT ![p] = Head(evPol[p])]
    /\ evPol' = [evPol EXCEPT ![p] = Tail(@)]
    /\ queue' = IF PolicyEventPasses(cpol[p], Head(evPol[p])) THEN queue \cup {p} ELSE queue
    /\ UNCHANGED <<storeVars, passVars, ceng, evEng, failures, envSteps,
                   restarts>>

\* The Engine informer applies the next event for "wafpolicy-"+p; the Owns()
\* handler enqueues the controlling owner's name
SyncEngine(p) ==
    /\ evEng[p] # <<>>
    /\ ceng' = [ceng EXCEPT ![p] = Head(evEng[p])]
    /\ evEng' = [evEng EXCEPT ![p] = Tail(@)]
    /\ queue' = queue \cup {p}
    /\ UNCHANGED <<storeVars, passVars, cpol, evPol, failures, envSteps,
                   restarts>>

\* The controller process restarts (rollout, eviction, crash): the passes in
\* flight stop wherever they were and the workqueue is lost.  The new
\* manager runs SetupWithManager again; its informers start from a List of
\* the API server, and the Add events of that List pass the predicate, so
\* For() enqueues every policy and Owns() the owner of every Engine (the
\* Gateway and HTTPRoute Adds enqueue policies that exist too).  The API
\* server, the garbage collector and the users go on.
Restart ==
    /\ restarts < MaxRestarts
    /\ restarts' = restarts + 1
    /\ pc' = [p \in Policies |-> "Idle"]
    /\ snap' = [p \in Policies |-> NoObj]
    /\ sel' = [p \in Policies |-> NoObj]
    /\ seen' = [p \in Policies |-> NoObj]
    /\ reason' = [p \in Policies |-> NoObj]
    /\ result' = [p \in Policies |-> NoObj]
    /\ cpol' = pol
    /\ ceng' = eng
    /\ evPol' = [p \in Policies |-> <<>>]
    /\ evEng' = [p \in Policies |-> <<>>]
    /\ queue' = {p \in Policies : pol[p] # NoObj \/ eng[p] # NoObj}
    /\ UNCHANGED <<storeVars, failures, envSteps>>

\* The WAFPolicy watch breaks and the reflector relists: the events it still
\* owed for p collapse into one, from the cached copy to the object as it
\* is now, and the For() predicate judges that single event (a delete and
\* re-create of p in the gap is one update of the same generation).
\* Counted with the restarts.
WatchReconnect(p) ==
    /\ restarts < MaxRestarts
    /\ restarts' = restarts + 1
    /\ Len(evPol[p]) >= 2
    /\ evPol' = [evPol EXCEPT ![p] = <<evPol[p][Len(evPol[p])]>>]
    /\ UNCHANGED <<storeVars, queue, passVars, cacheVars, evEng, failures,
                   envSteps>>

-----------------------------------------------------------------------------

Init ==
    /\ pol = [p \in Policies |-> NoObj]
    /\ gateways \in SUBSET GatewayNames
    /\ routes \in [RouteNames -> RouteStates]
    /\ eng = [p \in Policies |-> NoObj]
    /\ uids = [p \in Policies |-> 0]
    /\ rev = 0
    /\ queue = {}
    /\ pc = [p \in Policies |-> "Idle"]
    /\ snap = [p \in Policies |-> NoObj]
    /\ sel = [p \in Policies |-> NoObj]
    /\ seen = [p \in Policies |-> NoObj]
    /\ reason = [p \in Policies |-> NoObj]
    /\ result = [p \in Policies |-> NoObj]
    /\ cpol = pol
    /\ ceng = eng
    /\ evPol = [p \in Policies |-> <<>>]
    /\ evEng = [p \in Policies |-> <<>>]
    /\ failures = 0
    /\ envSteps = 0
    /\ restarts = 0

Environment ==
    /\ \/ \E p \in Policies : CreatePolicy(p) \/ EditPolicy(p) \/ DeletePolicy(p)
                              \/ DriftEngine(p)
       \/ \E g \in GatewayNames : ToggleGateway(g)
       \/ \E r \in RouteNames : ChangeRoute(r)
    /\ InformerCaughtUp
    /\ UNCHANGED <<cacheVars, restarts>>

\* Every step of the controller, the garbage collector or a user is seen by
\* the watch; the informers apply the events
Next ==
    \/ /\ \/ \E p \in Policies : Dequeue(p) \/ ReconcileStep(p) \/ GarbageCollect(p)
          \/ Environment
       /\ WatchEvents
    \/ \E p \in Policies : SyncPolicy(p) \/ SyncEngine(p)
    \/ Restart
    \/ \E p \in Policies : WatchReconnect(p)

\* Workers keep taking keys, and the rate limiter's delay is capped (1 minute),
\* so a key that keeps coming back to the queue is taken (strong fairness:
\* with one worker it is only taken while no other pass runs); a started
\* pass finishes, every store call returning or failing; the garbage
\* collector runs; the informers keep their watches and apply every event.
\* The users and restarts owe nothing.
Fairness ==
    \A p \in Policies :
        /\ SF_vars(Dequeue(p) /\ WatchEvents)
        /\ WF_vars(ReconcileStep(p) /\ WatchEvents)
        /\ WF_vars(GarbageCollect(p) /\ WatchEvents)
        /\ WF_vars(SyncPolicy(p))
        /\ WF_vars(SyncEngine(p))

Spec == Init /\ [][Next]_vars /\ Fairness

-----------------------------------------------------------------------------
(* Properties.                                                             *)

TypeOK ==
    /\ pol \in [Policies -> PolicyObjs \cup {NoObj}]
    /\ gateways \subseteq GatewayNames
    /\ routes \in [RouteNames -> RouteStates]
    /\ eng \in [Policies -> EngineObjs \cup {NoObj}]
    /\ uids \in [Policies -> 0..MaxIncarnation]
    /\ rev \in Nat
    /\ queue \subseteq Policies
    /\ pc \in [Policies -> Steps]
    /\ snap \in [Policies -> PolicyObjs \cup {NoObj}]
    /\ sel \in [Policies -> GatewayNames \cup {NoObj}]
    /\ seen \in [Policies -> EngineObjs \cup {NoObj}]
    /\ reason \in [Policies -> Reasons \cup {NoObj}]
    /\ result \in [Policies -> OperationResults \cup EngineErrors \cup {NoObj}]
    /\ cpol \in [Policies -> PolicyObjs \cup {NoObj}]
    /\ ceng \in [Policies -> EngineObjs \cup {NoObj}]
    /\ evPol \in [Policies -> Seq(PolicyObjs \cup {NoObj})]
    /\ evEng \in [Policies -> Seq(EngineObjs \cup {NoObj})]
    /\ failures \in 0..MaxFailures
    /\ envSteps \in 0..MaxEnvSteps
    /\ restarts \in 0..MaxRestarts

IsTrue(cs, t) == cs[t] # NoObj /\ cs[t].status = "True"

\* Spec section 8, condition mutual exclusion: a policy whose status says
\* Programmed=True also says Accepted=True.  setNotAccepted must remove
\* Programmed when it sets Accepted=False, and the EngineSyncFailed path
\* may only lower Programmed, whatever earlier passes left in the list.
ProgrammedImpliesAccepted ==
    \A p \in Policies :
        pol[p] # NoObj /\ IsTrue(pol[p].conditions, "Programmed")
            => IsTrue(pol[p].conditions, "Accepted")

\* Spec section 4.5: Programmed is set only after Accepted=True; a policy
\* never carries a Programmed condition without an Accepted one.  (ensureEngine
\* sets Programmed=False on an Engine sync failure without touching Accepted.)
ProgrammedOnlyWithAccepted ==
    \A p \in Policies :
        pol[p] # NoObj /\ pol[p].conditions["Programmed"] # NoObj
            => pol[p].conditions["Accepted"] # NoObj

\* The finalizer Update and the finalizer removal send the whole policy as
\* the pass read it: a step of the reconciler never changes a policy's spec
\* or generation, even when a user edited it after the pass read it.
ReconcilerKeepsSpec ==
    [][\A p \in Policies :
          (ReconcileStep(p) /\ pol[p] # NoObj /\ pol'[p] # NoObj)
             => /\ pol'[p].targetRef = pol[p].targetRef
                /\ pol'[p].ruleSet = pol[p].ruleSet
                /\ pol'[p].gen = pol[p].gen]_vars

\* A status patch and an Engine write of a pass land on the incarnation
\* (metadata.uid) of the policy the pass read: the patch is by name with no
\* precondition and the Engine's controller reference carries the uid read,
\* so a policy deleted and re-created during the pass would get the old
\* incarnation's status and an Engine owned by nobody.
WritesLandOnReadIncarnation ==
    [][\A p \in Policies :
          /\ (pol[p] # NoObj /\ pol'[p] # NoObj
                /\ pol'[p].conditions # pol[p].conditions)
                 => pol[p].uid = snap[p].uid
          /\ (pc[p] = "WriteEngine" /\ pc'[p] = "PatchProgrammed" /\ eng'[p] # eng[p])
                 => pol[p] # NoObj /\ pol[p].uid = snap[p].uid]_vars

\* Spec section 4.2, independent of the model's actions: what resolving
\* targetRef t gives in the current world, a gateway name or a reason
ExpectedOutcome(t) ==
    IF t.kind = "Gateway"
    THEN IF t.name \in gateways THEN t.name ELSE "TargetNotFound"
    ELSE CASE routes[t.name] = "absent"           -> "TargetNotFound"
           [] routes[t.name] = "noParentRefs"     -> "NoParentGateway"
           [] routes[t.name] = "invalidParentRef" -> "InvalidParentRef"
           [] OTHER                               -> routes[t.name]

\* Policy p and its Engine agree with the world: a deleted policy is gone
\* with its Engine; a live one has the finalizer and either Accepted and
\* Programmed True at its generation with an Engine that selects the
\* resolved gateway and carries its rule set, or Accepted False with the
\* expected reason and no Programmed condition.  (The Programmed message
\* may name any OperationResult: it reports the last write, not the world.)
Converged(p) ==
    IF pol[p] = NoObj THEN eng[p] = NoObj
    ELSE LET o == pol[p]
             out == ExpectedOutcome(o.targetRef)
         IN /\ ~o.deleting
            /\ o.finalizer
            /\ IF out \in GatewayNames
               THEN /\ o.conditions["Accepted"] = Cond("True", "Accepted", o.gen, "accepted")
                    /\ \E res \in OperationResults :
                          o.conditions["Programmed"] = Cond("True", "Programmed", o.gen, res)
                    /\ eng[p] # NoObj
                    /\ eng[p].owner = o.uid
                    /\ eng[p].ruleSet = o.ruleSet
                    /\ eng[p].selector = out
               ELSE o.conditions = [Accepted   |-> Cond("False", out, o.gen, o.targetRef.name),
                                    Programmed |-> NoObj]

\* Nothing is left to do: no key queued or being processed, the informers
\* have applied every event, and the garbage collector has no work
Quiescent ==
    /\ queue = {}
    /\ \A p \in Policies : pc[p] = "Idle" /\ ~Orphaned(p)
    /\ \A p \in Policies : evPol[p] = <<>> /\ evEng[p] = <<>>

\* Every change that matters reaches a pass that sees it: whenever the
\* controller has nothing left to do (no key queued or running, the caches
\* caught up), every policy and its Engine agree with the current Gateways
\* and HTTPRoutes.  A watch event filtered by the predicate or a pass that
\* writes nothing from a stale copy leaves the controller idle and wrong.
QuiescentImpliesConverged ==
    Quiescent => \A p \in Policies : Converged(p)

\* Level-triggered convergence (spec sections 4.1 and 5): once users stop
\* changing things and transient errors stop, every policy and its Engine
\* end up, and stay, in agreement with the current Gateways and HTTPRoutes,
\* whatever intermediate states the watches reported or a pass read stale.
EventuallyConverged == <>[](\A p \in Policies : Converged(p))


-----------------------------------------------------------------------------
(* Refinement: the reconciler implements the finalizer and ownership      *)
(* protocol of PolicyLifecycle.                                            *)

\* The phase of policy p as its metadata shows it: deletionTimestamp first,
\* then the finalizer, the order Reconcile tests them in
PhaseOf(p) ==
    CASE pol[p] = NoObj      -> "absent"
      [] pol[p].deleting     -> "deleting"
      [] pol[p].finalizer    -> "held"
      [] OTHER               -> "new"

\* The uid in the Engine's controller reference, 0 when there is no Engine
EngineOwner(p) == IF eng[p] = NoObj THEN 0 ELSE eng[p].owner

Lifecycle == INSTANCE PolicyLifecycle
                 WITH phase <- [p \in Policies |-> PhaseOf(p)],
                      inc   <- uids,
                      owner <- [p \in Policies |-> EngineOwner(p)]

\* Every step of users, controller and garbage collector is a step of the
\* lifecycle: the finalizer is attached only to a live policy without one
\* and removed only from a deleting one (Reconcile, handleDeletion), and
\* CreateOrUpdate writes the Engine only with a controller reference to the
\* current incarnation while it holds the finalizer, so no Engine is left
\* behind that the garbage collector would not remove.
ImplementsLifecycle == Lifecycle!Spec

\* The finalizer protocol settles even where the status may not (finding
\* 4): whenever the controller has nothing left to do, every policy is
\* either gone or holds the finalizer with no deletion pending.  A finalizer
\* Update or removal computed from a stale copy must fail and requeue, and
\* every new incarnation must reach a pass, also when a watch reconnect
\* merges its delete and re-create into one update event that the
\* generation predicate judges.
QuiescentLifecycleSettled ==
    Quiescent => \A p \in Policies : PhaseOf(p) \in {"absent", "held"}

=============================================================================
