# TLA+ models of the coraza-kubernetes-operator WAFPolicy controller

This directory holds TLA+ models of the operator's control loop and the TLC
configurations that check them. Source paths below are relative to `src/`.
`internal/controller/utils.go` holds two Go files one after the other: the
helpers of `utils.go` (lines 1-157) and `wafpolicy_controller.go` (lines
158-559). `internal/controller/wafpolicy_controller_test.go` likewise holds
the controller's unit test (lines 1-160) followed by `api/v1alpha1/wafpolicy_types.go`
(lines 161-298). Line numbers are those of the files as they are under `src/`.

## 1. Inventory

### Components and their state

| Component | Source | State it keeps | Operations |
|---|---|---|---|
| API server (external) | — | WAFPolicy, Engine, Gateway, HTTPRoute objects; `resourceVersion`, `uid`, `generation`, finalizers, `deletionTimestamp` | Get, List, Create, Update (optimistic concurrency), status Patch (merge patch, no precondition), Delete (sets `deletionTimestamp` while a finalizer remains) |
| Garbage collector (external) | — | none | deletes an Engine whose controlling owner (by uid) is gone |
| Workqueue + rate limiter | `utils.go` 267-279 (`SetupWithManager`) | set of pending keys, per-key backoff 1 s .. 60 s, one worker (default `MaxConcurrentReconciles`) | Add, AddRateLimited, Forget; a key is never processed by two workers; a key re-added while it runs runs again |
| Watches / fan-out, informer caches | `utils.go` 267-271, 533-559 | the manager's caches of WAFPolicies and Engines, fed by the API server's watch | WAFPolicy events filtered by `GenerationChangedPredicate`; Engine events mapped to the controlling owner (`Owns`); Gateway and HTTPRoute events mapped by `findPoliciesForTarget` (List of the policy cache) |
| Reconciler (`Reconcile`) | `utils.go` 286-324 | the pass's in-memory copy of the policy | Get policy; `handleDeletion`; add finalizer (Update); dispatch on `targetRef.kind` |
| Target resolver | `utils.go` 330-405 | none | `reconcileForGateway` (Get Gateway), `reconcileForHTTPRoute` (Get route, `parentRefs[0].name`) |
| Engine synthesis + upsert | `utils.go` 411-458 | the Engine object | `ensureEngine`: `controllerutil.CreateOrUpdate` (Get, mutate, Create / Update / no-op) with `SetControllerReference` |
| Status projector | `utils.go` 446-527 | `status.conditions` of the policy (`Accepted`, `Programmed`) | `setNotAccepted`; `Programmed=False/EngineSyncFailed`; `Accepted=True` + `Programmed=True`; each a merge patch of the pass's copy |
| Deletion | `utils.go` 491-502 | the finalizer | remove finalizer (Update); the API server then removes the object |
| Generic status helpers | `utils.go` 63-108 | a condition list with `Ready`, `Degraded`, `Progressing` | `setStatusConditionDegraded`, `setStatusProgressing`, `setStatusReady` |
| `createOrUpdate` helper | `utils.go` 114-157 | one unstructured object | identity checks, Get (namespace defaulted), Create, or Update with the read `resourceVersion` |
| WAFPolicy API / CRD validation | `wafpolicy_controller_test.go` 161-298 | — | admission rejects kinds other than Gateway/HTTPRoute and empty rule-set names |
| Logging helpers | `utils.go` 38-57 | — | formatting only |
| Tests, test framework, Helm helpers | `wafpolicy_controller_test.go` 1-160, `unnamed/part_000..002`, `charts/...` | — | not part of the running system |

### How they interact

A user's change to a WAFPolicy (a new generation, creation, deletion) or to
a Gateway/HTTPRoute, or any change to an owned Engine, becomes a key in the
workqueue. The worker runs one *pass* for the key. Every API call of a pass
is a separate, blocking round trip, so between any two of them users, the
garbage collector and other controllers may change anything. The manager's
client answers Gets and Lists of WAFPolicies and Engines from informer
caches. An informer applies the watch events of the API server in order,
some time after the write, and runs the watch handlers as it does so.
Gateways and HTTPRoutes are unstructured and are read from the API server.
A pass reads the policy from the cache and keeps that copy. It then writes back the finalizer (Update
from the copy), the Engine (CreateOrUpdate) and the status (a merge patch
computed from the copy). The pass returns an error or `Requeue: true`, and
the key comes back through the rate limiter, or it returns success.

### What is hard

* **Interleaving of a pass with users.** The pass's copy can be stale at
  every later step. The finalizer Update sends the whole spec of the copy.
  The status patch has no precondition. The Engine owner reference carries
  the uid that was read.
* **Re-creation.** A policy can be deleted and re-created under the same
  name. Its old Engine still names the old uid until the garbage collector
  removes it, or until a pass of the new incarnation adopts it:
  `SetControllerReference` matches the controller reference by group, kind
  and name, not uid, and rewrites it.
* **Partial failure.** A pass can write the Engine and then fail to patch
  the status. A failed Engine write leaves `Accepted` as it was.
* **Stale caches.** A pass can read a policy or an Engine older than one
  it or the previous pass already wrote. A status patch is a diff against
  that copy: an unchanged diff (messages included) writes nothing, and a
  changed one replaces the whole conditions list.
* **Filtered events.** Policy update events pass only on a generation
  change. Three outcomes end without a requeue:
  `NoParentGateway`, `InvalidParentRef`, and success.
* **Restarts and reconnects.** The controller process can stop between
  any two calls of a pass, losing its queue. A broken watch relists, and
  the events it owed for a policy arrive as one; a delete and re-create
  in the gap look like an update of the same generation.
* **Convergence (level-triggered).** Once the world stops changing, every
  policy's status and Engine must match the current Gateways and
  HTTPRoutes.
* **Sequences of helper calls.** For the generic status helpers, the order
  of calls across passes decides which conditions are True.

### Properties that make each component correct

* Reconciler / status projector: `Programmed=True` implies `Accepted=True`.
  `Programmed` is never present without `Accepted` (spec §4.5). Writes land
  on the incarnation the pass read. The reconciler never changes a spec.
* Whole loop: level-triggered convergence of status and Engine. Its safety
  form: whenever the controller is idle, status and Engine agree with the
  world.
* Deletion: a deleted policy eventually disappears, and so does its Engine.
  Whenever the controller is idle, every policy is gone or holds its
  finalizer with no deletion pending.
* Status helpers: at most one of Ready/Degraded/Progressing is True (spec §3).
* `createOrUpdate`: it behaves as one atomic upsert at the defaulted key.
  No write is lost silently. A call fails only for a missing identity, a
  store error or a concurrent writer.

## 2. Modules

| Module | Models | State ↔ code |
|---|---|---|
| `WAFPolicyReconciler` | the WAFPolicy controller with the API server, workqueue, watches, garbage collector and users | see below |
| `MC_WAFPolicy` | model values and sets for the runs | — |
| `PolicyLifecycle` | the finalizer and Engine ownership protocol that spec §4.1 and §4.3 promise, per policy name | `phase[p]` ↔ metadata (absent, new, held, deleting); `inc[p]` ↔ `uids[p]`; `owner[p]` ↔ the Engine's controller uid |
| `StatusConditions` | the generic status helpers | `conditions[t]` ↔ the `[]metav1.Condition` keyed by type |
| `CreateOrUpdate` | `createOrUpdate` (utils.go 118-157) with concurrent callers and other writers | see below |
| `CreateOrUpdateContract` | the atomic upsert that spec §4.4 promises | `store[k]`: content at key k; `result[c]` |
| `MC_CreateOrUpdate` | two callers, one name in two namespaces, two bodies | — |

### WAFPolicyReconciler

State variables:

* `pol[p]`: the WAFPolicy named `p`. Its fields are uid, generation,
  resourceVersion, targetRef, rule set, deletionTimestamp set, finalizer
  present, and conditions.
* `eng[p]`: the Engine `"wafpolicy-"+p`. Its fields are controller owner
  uid, rule set, workload selector, and resourceVersion.
* `gateways` and `routes[r]`: `routes[r]` is absent, no parentRefs, an
  invalid `parentRefs[0]`, or a gateway name.
* `rev`: the store's resourceVersion counter.
* `queue`: the workqueue.
* `cpol[p]` and `ceng[p]`: the informers' copies of `pol[p]` and `eng[p]`.
* `evPol[p]` and `evEng[p]`: the watch events for the object that the
  informer has not applied yet, in order.
* `pc[p]`, `snap[p]` (the pass's copy), `sel[p]` (the resolved gateway),
  `seen[p]` (the Engine the CreateOrUpdate read), `reason[p]` (the
  reason for `setNotAccepted`) and `result[p]` (CreateOrUpdate's
  OperationResult or error): the pass in progress for key `p`.
* A condition is (status, reason, observedGeneration, message). The
  message is abstracted to what it is formatted from: the fixed Accepted
  text, the OperationResult (`created`, `updated`, `unchanged`) in
  `Programmed=True` (line 476), the error kind in `EngineSyncFailed`, and
  the target's name in `setNotAccepted`. It matters: whether a status
  patch is empty depends on it.

Actions:

* `Dequeue`.
* `Reconcile`: the Get (from `cpol`) and the dispatch. `GetEngine` reads
  `ceng` and `findPoliciesForTarget` lists `cpol`.
* `AddFinalizer` and `handleDeletion`: each an Update.
* `reconcileForGateway` and `reconcileForHTTPRoute`.
* `GetEngine` and `WriteEngine`: the two halves of
  `controllerutil.CreateOrUpdate`. An Engine whose controller reference
  names an earlier incarnation is adopted (the reference is rewritten to
  the uid read, and the Engine is updated); `SetControllerReference` never
  fails here, since the only controller an Engine `"wafpolicy-"+p` can
  have is a policy named `p`.
* Reads of the informer caches (the policy Get, the Engine Get, the
  mappers' List) do not fail: their only error is a cancelled context at
  shutdown, which is `Restart`. Transient errors hit the API calls: the
  Gateway and HTTPRoute Gets, the Updates, Engine writes and status
  patches.
* `PatchProgrammed`, `PatchSyncFailed` and `SetNotAccepted`: the three
  status patches.
* Environment: `CreatePolicy`, `EditPolicy`, `DeletePolicy`,
  `ToggleGateway`, `ChangeRoute`, `DriftEngine` and `GarbageCollect`.
* `WatchEvents` is conjoined with every one of the steps above. Each change
  of `pol[p]` or `eng[p]` is appended to `evPol[p]` or `evEng[p]`.
* `Restart`: the controller process restarts. Passes and queue are lost;
  the new informers start from the store, and their initial Add events
  enqueue every policy and the owner of every Engine.
* `WatchReconnect(p)`: the policy watch relists, and the events still owed
  for `p` collapse into the last one, which the predicate then judges
  against the cached copy. Restarts and reconnects share the bound
  `MaxRestarts`.
* `SyncPolicy` and `SyncEngine`: an informer applies the next event to its
  cache and runs the handler. `For` with `GenerationChangedPredicate` lets
  create, delete and generation changes through. `Owns` enqueues the owner
  on every Engine event.
* Gateway and HTTPRoute events are enqueued at the change itself, through
  the mapper, which lists the policy cache. Their own delivery delay only
  moves the pass later, and the pass re-reads them from the API server.

Abstractions:

* Failure policy is copied to the Engine exactly as the rule set is, so
  only the rule set is kept.
* Image, mode and poll interval are constants of the translator config and
  are left out.
* Event recording and logging are left out, and message texts are
  reduced to what they are formatted from.
* The two malformed shapes of `parentRefs[0]` give the same reason and
  are one value.
* The `default:` branch of the kind switch (`InvalidTargetRef`) cannot run:
  CRD validation admits only Gateway and HTTPRoute, so no such state is
  generated.
* A status patch cannot meet NotFound. Past the finalizer step, only the
  pass itself could remove the policy.
* `MaxCacheLag` bounds how many events an informer may still owe for one
  object when any other step starts. With 0 the caches are fresh and the
  handlers run right after each write. With 1 a pass can read a copy one
  write behind, and the steps that read or write go on meanwhile. The bound
  is needed because a pass can rewrite the status from a stale copy again
  and again while its informer never catches up; each rewrite is a new
  resourceVersion.

Refinement: `WAFPolicyReconciler` instantiates `PolicyLifecycle` with
`PhaseOf(p)` (deletionTimestamp first, then the finalizer, the order
`Reconcile` tests them in, utils.go:300-305), `uids` and `EngineOwner(p)`
(the uid `SetControllerReference` records, utils.go:444). Its actions are
`Attach` (the finalizer Update, utils.go:304-310), `Release`
(`handleDeletion`, utils.go:494-501), `BindEngine` (CreateOrUpdate,
utils.go:411-446), and the user and garbage-collector steps `Create`,
`Delete` and `DropEngine`. Edits, status patches, Engine rewrites with the
same owner and every cache step map to stuttering.

### CreateOrUpdate

State variables:

* `obj[k]`: the API server's object at key (namespace, name), with its
  resourceVersion.
* `req[c]`: the desired object caller `c` passes. Kind set or not;
  namespace unset, `default` or another; name set or not; body.
* `pc[c]`, `readRv[c]`, `result[c]`: the call in progress.
* `interfered[c]` and `hitFailure[c]` are history variables. They record
  whether another write hit the call's key after its Get, and whether a
  transient store error hit the call.

Actions:

* `Get`: lines 119-148, the identity checks and then the Get at the
  defaulted key.
* `Create`: lines 140-146.
* `Update`: lines 150-156.
* `OtherWrite`: any other client.

Server rules assumed:

* The kind is namespaced, so a write that names no namespace is refused.
* It is a custom resource, so an Update without a resourceVersion is
  refused. A stale resourceVersion gives Conflict, and a Create at an
  existing key gives AlreadyExists.

`ImplementsContract` maps `obj` to its contents (versions hidden) and
`result` to the returned value. It checks `CreateOrUpdateContract!Spec`.

## 3. Runs

| Run | Checks | Result |
|---|---|---|
| `wafpolicy_safety` | `TypeOK`, `ProgrammedImpliesAccepted`, `ReconcilerKeepsSpec`, `WritesLandOnReadIncarnation`, fresh caches | pass: 2.77 M distinct states |
| `wafpolicy_quiescent` | `QuiescentImpliesConverged`, fresh caches, one restart | pass: 7.07 M distinct states |
| `wafpolicy_reconnect` | `QuiescentLifecycleSettled`, `WritesLandOnReadIncarnation`, `ImplementsLifecycle` (refinement), caches two events behind, one reconnect or restart | pass: 0.50 M distinct states |
| `wafpolicy_fanout` | `QuiescentImpliesConverged`, two policies on one route, two workers | pass: 2.28 M distinct states |
| `wafpolicy_liveness` | `EventuallyConverged` under the fairness below, one restart | pass: 0.40 M distinct states |
| `wafpolicy_stale_status` | `QuiescentImpliesConverged`, caches one event behind, no errors | violation (finding 4) |
| `wafpolicy_programmed_alone` | `ProgrammedOnlyWithAccepted` | violation (finding 1) |
| `status_helpers_exclusive` | `AtMostOneTrue` | violation (finding 2) |
| `createorupdate_contract` | `ImplementsContract` (refinement) | pass |
| `createorupdate_uncontended` | `UncontendedSucceeds`, namespaced requests | pass |
| `createorupdate_unset_namespace` | `UncontendedSucceeds`, all requests | violation (finding 3) |

What each run shows:

* **`ReconcilerKeepsSpec`.** The resourceVersion check on the finalizer
  Update is what stops a pass from undoing a user's edit. Without that
  check the mutant run shows the revert.
* **`WritesLandOnReadIncarnation`.** Attaching the finalizer before
  anything else is what keeps a status patch or an Engine write from
  landing on a re-created policy. Skipping the finalizer lets delete and
  re-create run inside one pass. In `wafpolicy_reconnect` it also holds
  with copies two events behind: a pass can adopt an Engine only for the
  uid it read, and no pass reads a live copy of a dead incarnation,
  because removing the finalizer needs a pass that saw the deletion and
  each informer applies its events in order.
* **`QuiescentImpliesConverged`.** Every change that matters reaches a
  pass: the filtered policy events, the `Owns` events and the mapper are
  enough, as long as the caches are fresh. A predicate that passed only
  creations and deletions fails it.
* **`QuiescentLifecycleSettled`.** A reconnect can turn "policy deleted,
  policy re-created" into one update whose old and new objects have
  generation 1, and `GenerationChangedPredicate` drops it. The new
  incarnation is still reconciled: the first incarnation's create event
  had queued the key, and the pass on the stale copy fails its finalizer
  Update (NotFound or Conflict), so the error requeues it. A pass that
  forgot the key on error (the `FinishForget` mutant) leaves the new
  policy without a finalizer and the controller idle.
* **Restarts.** `QuiescentImpliesConverged` and `EventuallyConverged` hold
  with a restart at any point of a pass: the initial List of the new
  informers re-enqueues every key, and every step of a pass is safe to
  redo.
* **`ImplementsLifecycle`.** Even when passes read copies one event
  behind, the finalizer is attached only to a live policy without one and
  removed only from a deleting one, and the Engine is written only with a
  controller reference to the current incarnation while that incarnation
  holds the finalizer. A pass that ignored the error of its finalizer
  Update (the `AddFinalizerIgnoresError` mutant) writes an Engine for a
  policy without a finalizer, which can vanish unseen.
* **`wafpolicy_fanout`.** One HTTPRoute event reaches both policies that
  target it, and two workers running passes of different keys side by side
  leave nothing unconverged once the controller is idle. A mapper that
  enqueued only the first matching policy (`findPoliciesForTargetFirst`)
  leaves the other stale.
* **`EventuallyConverged`.** This covers requeue on error, the dirty-key
  rerun, the `Owns` and target watches, the generation bump on deletion,
  garbage collection, and a restart. With 2 user changes it does not reach
  a re-creation; `QuiescentImpliesConverged` (3 changes) does.

Findings:

1. When the Engine write fails on a first pass, the status holds
   `Programmed=False/EngineSyncFailed` and no `Accepted` condition
   (utils.go:451). Spec §4.5 says Programmed is set only after
   Accepted=True, and lists `EngineSyncFailed` as a reason of
   `Accepted=False`.
2. `setStatusProgressing` does not remove `Degraded` (utils.go:96-100).
   After Degraded and then Progressing, both are True, against spec §3.
3. `createOrUpdate` defaults an empty namespace only in the Get key
   (utils.go:128). `desired` keeps no namespace, so the Create or Update
   that follows addresses no namespace and is refused. A call for such an
   object fails even alone. Spec §4.4 says the namespace defaults.
4. A stale cache leaves a wrong status for good (utils.go:478 and its
   `setNotAccepted` twin at 522), with no error and three changes of one
   HTTPRoute, each cache at most one event behind:
   * The route has no parentRefs. Pass 1 patches
     `Accepted=False/NoParentGateway`.
   * The route is deleted. Pass 2 reads a copy from before pass 1's patch
     and patches `TargetNotFound`, with a requeue.
   * The route gets back its no-parentRefs shape. The requeued pass 3
     reads the cached copy holding pass 1's `NoParentGateway` (the store
     holds `TargetNotFound`). `SetStatusCondition` changes nothing, since
     status, reason, message and generation are the same, so the merge
     patch is empty and the pass ends without a requeue.
   * The cache events of the two patches change only the status, so
     `GenerationChangedPredicate` drops them.

   The controller is then idle with a status that says the route is not
   found. Lagging the controller's own writes is what informer caches do;
   the code reads its own status from the cache and diffs against it.

Refinement mutants:

* Dropping the error of Create or Update breaks `ImplementsContract`: the
  call reports success with nothing written.
* Not copying the resourceVersion (line 150) breaks `UncontendedSucceeds`.
* Filtering out generation changes breaks `QuiescentImpliesConverged`.

### Bounds

The model has:

* one namespace, with 1 policy name (2 incarnations);
* 2 gateways, 1 route with 5 shapes, and 2 rule sets;
* any initial set of gateways and route shape.

Safety and quiescence with fresh caches allow 3 user changes and 1
transient error. Three
changes are enough for these sequences:

* an edit between the pass's Get and its Update;
* delete and re-create inside a pass;
* a target change after programming.

`createOrUpdate` runs with:

* 2 callers, with every desired object over 1 name, 3 namespace choices
  and 2 bodies, so both callers can hit the same key;
* 1 other write and 1 transient error.

These bounds reach every ordering of two Gets and two writes around a
third write.

With caches one event behind, `wafpolicy_stale_status` allows 3 user
changes and no errors. With 2 changes (a creation and one more), and also
with 2 changes and a lag of 2, `QuiescentImpliesConverged` holds (0.47 M
and 1.67 M states): finding 4 needs two changes after the creation.

`wafpolicy_reconnect` lets an informer owe two events for the policy, the
fewest for a reconnect to merge anything, and allows 3 user changes:
create, delete and re-create, or create, edit and a gateway change. To
finish in five minutes it has 1 gateway, no route, Gateway targets only,
1 rule set, no transient errors, and 1 reconnect or restart (0.50 M
states). The merged
delete and re-create with the key still queued is reached; TLC shows it
at depth 6. A second rule set (spec edits) makes 4 M states, and 2 gateways
with a route 50.9 M; `QuiescentLifecycleSettled` holds in both, but they
take 3 and 13.5 minutes alone. Without spec edits `ReconcilerKeepsSpec`
cannot fail, so it is checked with fresh caches only (`wafpolicy_safety`).

The fan-out run has 2 policy names (1 incarnation each), both limited to
the HTTPRoute target and 1 rule set, 2 workers, 3 user changes and no
errors. Route targets are the case where one event concerns several keys;
the Gateway target and a second rule set add states but no new sharing,
and with them the run does not finish in five minutes. Three changes are
the two creations and one route change, so the route event can arrive
while both passes are running, between them, or after both.

Liveness allows 2 user changes (a creation and one more), 1 transient
error and 1 restart; quiescence allows 3 changes, 1 error and 1 restart. Each property's mutant is found violated under the same bounds.

### Fairness

* `SF(Dequeue(p))`: the worker keeps taking keys, the backoff is capped
  at one minute, and the queue is FIFO. With one worker a key is enabled
  only intermittently, hence strong fairness.
* `WF` of each pass step: every call returns or fails by its deadline.
* `WF(GarbageCollect)`.
* `WF(SyncPolicy)` and `WF(SyncEngine)`: an informer keeps its watch and
  applies every event.

Users, restarts and reconnects get no fairness; they are bounded.

## 4. Not modelled, and why

* Reconnects of the Engine watch: every Engine event enqueues the owner,
  so merging them changes nothing the model could tell apart.
* `ReconcilerKeepsSpec` with lagging caches: spec edits under a lag of
  two events exceed five minutes (see Bounds). The finalizer Update from a
  stale copy carries a stale resourceVersion and fails, which
  `QuiescentLifecycleSettled` relies on and its mutant shows.
* More than one restart or reconnect in a run, and reconnects with caches
  further behind: the state space grows beyond five minutes.
* The rate limiter's delays: the model has no time. The backoff only
  orders retries, and the fairness of `Dequeue` stands for its one-minute
  cap.
* Liveness with lagging caches: finding 4 already shows it fails.
* The informers' periodic resync (by default every 10 hours), which
  replays every object as an update: it re-runs the mappers and `Owns`,
  and would end finding 4 after the resync period. The model has no time.
* Which fields of an existing object other writers own: `createOrUpdate`
  replaces the whole object, and the model keeps a body as one value.
* Logging and events: no state. Message texts beyond what they are
  formatted from.
* Tests, the integration framework and the Helm chart: not part of the
  running system.

## 5. Plan (later sittings)

1. (Done: `CreateOrUpdate`, refined to `CreateOrUpdateContract`.)
2. (Done: informer caches inside `WAFPolicyReconciler`, with `MaxCacheLag`.)
3. (Done: two policies and `MaxConcurrentReconciles = 2`, run
   `wafpolicy_fanout`.)
4. (Done for ownership: `PolicyLifecycle`.) Still open: an abstract
   specification of the status and Engine contents that follow the world,
   with the stale-read steps mapped to stuttering; finding 4 shows the
   detailed module cannot implement it with lagging caches.
5. (Done: restarts of the controller and reconnects of the policy watch.)
6. A passing property for `StatusConditions` once the intended semantics
   of Progressing-after-Degraded is settled.
