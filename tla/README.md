# A verification of contour-operator

This directory holds TLA+ models of the Contour operator (`projectcontour/contour-operator`), the
configurations with which TLC checks them on small instances, and proofs about them that TLAPS
checks for every instance. The source is the reference; paths below are relative to the repository.

Contents: [the system](#1-the-system), [the plan](#2-the-plan), [the models](#3-the-models),
[the runs](#4-the-runs), [fairness](#5-fairness), [the proofs](#6-the-proofs),
[limits](#7-what-is-not-modelled).

## 1. The system

The operator watches `Contour` custom resources. For each it deploys Contour (a Deployment), Envoy (a
DaemonSet), two Services, a ConfigMap, a certificate Job, seven namespaced and two cluster-scoped RBAC
objects, and the namespace they live in (`spec.namespace.name`): sixteen objects. It marks each with
labels naming the owning Contour, keeps a finalizer on the Contour while any may exist, and reports
availability in the Contour's status.

### Inventory

| Component | State | Operations | Correct when |
|---|---|---|---|
| Contour controller, `internal/controller` | the work queue; within a pass the copy of the Contour and the collected errors | `Reconcile`, `ensureContour`, `ensureContourDeleted`, the mapping of events to owners | work is never forgotten; nothing is created without the finalizer; the finalizer goes only when nothing is left; it comes to rest |
| Finalizer and ownership, `internal/objects/contour`, `pkg/labels` | finalizers and labels in the API server | `EnsureFinalizer`, `EnsureFinalizerRemoved`, `OtherContoursExist`, `OtherContoursExistInSpecNs`, `labels.Exist` | an outdated copy never overwrites a Contour; another's objects are left alone |
| RBAC, `internal/objects/rbac.go` and the role packages | nine objects | `EnsureRBAC`, `EnsureRBACDeleted` | gone with the Contour, spared while it lives |
| Namespace, `internal/objects/namespace` | one object | `EnsureNamespace`, `EnsureNamespaceDeleted` | never removed under another Contour |
| Workloads, `deployment`, `daemonset`, `job`, `configmap` | one object each | `Ensure...`, `Ensure...Deleted`, selector replacement, Job recreation | as the spec wants them at last |
| Services, `internal/objects/service` | two objects | the same, and three comparisons for the Envoy Service | what is asked for is in force; a Service in order is not written |
| Equality, `internal/equality` | none | one comparison per kind | a fixpoint: what was written compares equal |
| Status, `internal/status` | the Contour's status | `SyncContour`, `mergeConditions` | agrees with the objects; does not keep the controller busy |
| Validation, `pkg/validation` | none | `Contour`, `ContainerPorts`, `NodePorts`, ... | one Contour per spec namespace; bad specs are turned away |
| Operator process, `internal/operator`, `cmd` | caches, one controller | `New`, `Start` | work survives a crash |
| Retryable errors, `internal/retryableerror` | none | the aggregate | (dead: nothing makes one) |

The components interact only through the API server and the informer caches. Contours are read from the
API server itself (`ClientDisableCacheFor`, `operator.go:77`); the children from caches that may be
stale. The controller has one worker. Contours, Deployments and DaemonSets are watched; the other kinds
are not, so a change to one of them is noticed at the next pass for whatever reason.

What is hard: a pass is some twenty requests with users, other controllers and informers between any two
of them; it works on an old copy of the Contour and on stale copies of the children; each request may
fail, or succeed and lose its reply; the process may die between two of them; the checks against other
Contours are Lists made before the deed. `PROJECT.json` lists the hazards line by line.

## 2. The plan

Done, in this order: `Resources`, `ApiServer`, `ContourController`, `ContourSystem` (the core, with one
action per request), `ContourLifecycle` (the abstract specification the core implements),
`ContourProperties`, the runs, `ContourSystem_proofs`; `EnvoyService`; then three modules that open up what
the core takes as one step or one value: `StatusSync` (the status), `ObjectUpdates` (the comparisons and
updates of the other kinds, and the Job's recreation), `DataPlane` (what the Service, the DaemonSet and the
Deployment add up to); the proofs about `StatusSync` and `ObjectUpdates`; then `ContourInvariants` and the
proofs of every remaining safety property of the core, the refinement of `ContourLifecycle` among them, and
those of `DataPlane`; `ChildObject`, the one value that an object is in the core, which `ObjectUpdates` and the
core's own steps are proved to keep to, and `NoLostStatus`, the safety half of a status that comes to agree.

Left, most important first:

1. Proofs: in which sense the status of `StatusSync`, whose reads and write are apart, refines the value that
   one step writes in the core (not step by step: the value written may be that of neither moment);
   `WorkKept` with others at work on the watched kinds, where an event may be yet to come; what is left of
   `ExclusiveTenancy` when Contours are moved.
2. Two replicas with leader election (off by default): the old leader's last requests after the new one has
   begun.
3. The content of the configuration file and of the pod templates beyond ports and flags, as far as a
   property tells it apart.

## 3. The models

```
Resources <- ApiServer <- ContourController <- ContourSystem <- ContourProperties
ContourProperties <- ContourInvariants <- MCContourSystem
ContourProperties <- ContourSystem_proofs;  ContourLifecycle (instantiated by ContourProperties)
ContourInvariants, ContourSystem_proofs <- ContourSteps_proofs <- ContourTenancy_proofs <- ContourWork_proofs
EnvoyService <- DataPlane <- DataPlane_proofs;  EnvoyService <- MCEnvoyService <- MCDataPlane -> DataPlane
Resources <- ObjectUpdates <- MCObjectUpdates, ObjectUpdates_proofs
Resources <- ChildObject (instantiated by ObjectUpdates and ContourSteps_proofs)
StatusSync <- MCStatusSync, StatusSync_proofs
```

**`Resources`** names the sixteen objects by role and gives the orders in which the code ensures and
deletes them, and which kinds are watched, selector-checked, dependent on the spec, or updated with a
resourceVersion.

**`ApiServer`** is external code, modelled from how the operator uses it: Contours (`phase`,
`finalized`, `spec`, `status`), child objects `obj[resource][namespace]` with an owner (the labels) and a
content, terminating namespaces, the informers' `cache`, and a `budget` for each adversity. The content
of an object is the revision of the spec it was built from, "fixed" for kinds the spec does not reach,
"drifted" if someone changed it, or "oldSelector". A request is served, refused, or takes effect and loses
its reply. An Update with a resourceVersion conflicts with a newer object; one without overwrites it.

**`ContourController`** has the queue and the worker. `pc` says where in `Reconcile` the worker is, `snap`
is the copy of the Contour it read, `fresh` whether that copy is current (so whether an Update of it would
be accepted), `todo` the resources the current loop has left, `errs` whether an error has been collected.

| Code | Action |
|---|---|
| `Reconcile`: Get, NotFound, branch on DeletionTimestamp | `ReadFails`, `SkipAbsent`, `Start` |
| `validation.Contour`, `IsFinalized` | `Validate` |
| `EnsureFinalizer` | `EnsureFinalizer` |
| `Ensure<kind>`: create, update if ours and different, nothing | `CreateResource`, `UpdateResource`, `LeaveAlone` |
| `EnsureDeployment`/`EnsureDaemonSet` with another selector | `ReplaceSelector` |
| `recreateJobIfNeeded`, `retryJobCreate` | `RecreateJob` |
| `SyncContour` | `SyncStatus` |
| `Ensure<kind>Deleted` | `DeleteWorkload` |
| `EnsureRBACDeleted` | `GatherNamespacedRBAC`, `GatherClusterRBAC`, `DeleteRBAC` |
| `EnsureNamespaceDeleted` | `CheckNamespace`, `DropNamespace` |
| `EnsureFinalizerRemoved`, errors collected | `Release` |
| watches, `enqueueRequestForOwningContour` | `Refresh`, `Notify`, `OwnersOf` |
| process | `Crash`, `Restart` |

A read from the cache and the write it decides are one action: the cache may be arbitrarily stale
beforehand, so a delay between the two adds nothing. The gathering of the RBAC objects and their deletion
are separate actions, since what was gathered is remembered.

**`ContourSystem`** adds users (create, edit, delete, strip a finalizer, tamper with children), the
namespace controller, the Job's end, the resync, and fairness.

**`ContourLifecycle`** is the promise in five lines: absent, unclaimed, claimed, departing; workloads
appear only under a claim and a departing Contour is released only without any. `ContourProperties`
instantiates it with a refinement mapping; `KeepsLifecycle` is checked as a property, and proved.

**`ContourInvariants`** names what the properties of `ContourProperties` rest on: the state of the copy a pass
works with (`CopyOK`), what a deletion has gathered (`GatheredOurs`), who has objects where (`Placed`, `Held`,
`Swept`, `Alone`, `SoleTenant`), what a pass has put in place (`Progress`) and who is attended to (`WorkKept`,
`Latecomers`). Three of them are properties of the run `tenancy`; the others were tried out on its instance,
and on those of `single`, `live`, `drift` and `cluster_rbac_leak` where their hypotheses hold, before they were
proved.

**`EnvoyService`** opens up the one resource whose content is computed with most choices. Its state is
the Contour's publishing spec, the stored Service and how the last pass ended. `DesiredEnvoyService` and
the three `...ServiceChanged` comparisons are translated field by field, a port being its name, target and
node port; values of annotations and the constant fields (selector, affinity, protocol) are left out. The
API server assigns node ports (nondeterministically among the free ones, so both releases that keep a
port's number and releases that choose again are covered) and drops or, with `DropsPolicy` FALSE, rejects
an external traffic policy on a ClusterIP Service. In `ContourController` this Service is one value, and an
update makes it what the spec wants; where that is not so (the address of a former load balancer stays in a Service turned into
ClusterIP), `Honoured` says what is guaranteed.

It validates the spec as `ContainerPorts`, `NodePorts`, `LoadBalancerAddress` and `LoadBalancerProvider` do;
`NodePorts` compares pointers (`SamePointer`).

**`DataPlane`** extends `EnvoyService` with the two other objects that the same ports go into, and with the
running Contour. A request gets through under a name if the Service's target is the port where Envoy
listens, which is what the flags of the *running* Contour say, or Contour's default where there is no flag
(`ListenerPort`); the DaemonSet declares the port.

| Code | Action |
|---|---|
| `ensureContour`: `EnsureDeployment`, `EnsureDaemonSet`, `EnsureEnvoyService`, any of them failing | `EnsureWorkloads(failing)` |
| validation | `TurnSpecAway` |
| an edit of the spec; somebody else | `EditSpec`, `DisturbPlane` |
| the Deployment's rollout | `RollContour` |

The pass is one action here: the three objects are read and written independently of each other, and a
pass that stops half way is one in which the rest fails. `ContourController` has the order.

**`StatusSync`** takes `SyncContour` apart: the Get of the Contour, the two reads from the caches, the
computation and the write, with users, controllers and informers between any two. Its state is the stored
Contour (a status and whether the spec is valid), the two workloads and the informers' copies of them, and
the worker: `latest` is the copy read, `copy` whether it is of the stored version, an `"outdated"` one, or of
a `"former"` Contour that has gone, `updated` the status about to be written. A message stands for the text
and reason of the condition; `since` is its `LastTransitionTime`.

| Code | Action |
|---|---|
| the pass up to `SyncContour` | `EnsureContour` |
| `cli.Get` of the Contour | `GetContour` |
| `CurrentDeployment`, `CurrentDaemonSet`, `mergeConditions`, `ContourStatusChanged` | `GetDeployment`, `GetDaemonSet` |
| `cli.Status().Update` and the four outcomes it distinguishes | `UpdateStatus`, `RetryOnConflict` |
| watches and owner labels | `DeliverDeployment`, `DeliverDaemonSet`, `QueuedBy` |
| process | `Restart` |

**`ObjectUpdates`** has one object of any kind but the Envoy Service. An object is a set of labels (the
owner's, the operator's other ones, the one Kubernetes adds to a namespace, others'), what the comparison
sees (`content`), what is immutable (`fixed`: a selector, a roleRef), and what no comparison sees (`extra`).
`Changed` and `Updated` say for each kind what is compared and what is written: a changed copy of the cached
object, with its resourceVersion, or the expected object, without one. The Job is deleted and created again
try by try.

| Code | Action |
|---|---|
| `Ensure<kind>`, not found | `CreateObject` |
| another selector | `ReplaceSelector` |
| `update<kind>IfNeeded` | `UpdateObject`, `LeaveAlone` |
| `recreateJobIfNeeded`, `retryJobCreate` | `DeleteJob`, `RetryJobCreate`, `Crash` |

**`ChildObject`** is what an object is to the rest of the operator: whether it is there, whose it is, whether it
is as wanted or has another selector (`Looks`), once as `stored` and once as `seen` by the informer. A pass acts
on what is seen: it creates what is absent, writes what is drifted, and replaces what has another selector; it
touches nothing foreign, and if the kind is updated with a resourceVersion, writes only what still looks as it
was seen. Two modules are tied to it: `ObjectUpdates` implements it (`KeepsObject`; `LookOf` reads labels, content
and immutable fields), and the core's Ensure steps are steps of it (`EnsuresAsChild`). A namespace is written by every
pass in both, since its labels never compare equal (`Differs`, `Changed`). They differ over the Job, which
the core deletes and creates again in one step (`RecreateJob`, after which it may be left deleted), and the
other two in the three steps `Doom`, `Vanish` and `Create`.

## 4. The runs

`status` takes about two minutes, the others about one or less. Passing runs:

| Run | Instance | Shows |
|---|---|---|
| `single` | one Contour, all sixteen resources, 2 creations, 1 fault, 1 crash | `TypeOK`, `NoOrphans`, `NoLostWork`, `ClaimHolds`, `CreatesOnlyWhileFinalized` |
| `tenancy` | two Contours *of the same name*, one spec namespace, one resource of each class, 5 creations, 1 fault, 1 crash | `WorkloadsHeld`, `Alone`, `WorkKept`, `NamespaceSparesTenants`, `KeepsLifecycle` |
| `live` | two Contours *of the same name*, one spec namespace, in which one of the two Contour resources lives, two workloads, 3 creations, 1 fault, 1 crash, a disturbed Deployment, no resync | `ExclusiveTenancy`, `DeletionCompletes`, `Convergence`, `Quiescence` |
| `lag` | one Contour, informers that lag without bound, 2 creations, 1 fault, 1 crash, a disturbed Deployment or Role, resync | `CreatesOnlyWhileFinalized`, `StrangersKept`, `Convergence` |
| `drift` | a pre-existing namespace of somebody else's, an edit (another revision or an invalid spec), a strip, a disturbed Deployment, Job or Service, resync | `Convergence` |
| `edits` | two Contours of the same name moved between two namespaces, two workloads, a Role and a ClusterRole, 2 edits, 1 fault | `NoLostWork`, `LiveNeverTornDown` |
| `data_plane` | 14 publishing specs of all types, providers and port orders, five of them invalid, three node port numbers, 2 edits, 1 disturbance, 1 pass with failing requests, before or after they take effect | `PlaneTypeOK`, `Honoured`, `AtRest`, `NodePortsKept`, `PathsAgree`, `TrafficFlows` |
| `status` | three reports of a Deployment, up to two Envoys, 2 changes, 2 edits, 1 fault, two instants | `StatusTypeOK`, `Coherent`, `NoLostStatus`, `TransitionTimed`, `Rests`, `AgreesEventually` |
| `object_updates` | nine kinds, one for each way of comparing and updating; 4 disturbances, 1 fault, 4 tries at the Job | `ObjectTypeOK`, `StrangersUntouched`, `NothingLost`, `PassRepairs`, `NoChurn`, `KeepsObject`, `RepairedEventually` |

Bounds. Two Contours are enough for every interaction the code has, since it only asks whether *any other*
exists. Two creations let a Contour be deleted and created again under the same name, with leftovers of the
first life; three let that happen between two Contours, and the
five of `tenancy` let both have an earlier life. One fault at any request, refused or with a lost
reply, and one crash anywhere combine with each other and with everything users do. The smaller resource
sets keep one member of each class the code treats differently (namespace; namespaced RBAC; cluster RBAC;
watched workload with selector; unwatched workload; Job); `single` takes all sixteen. Deadlock is not
checked for `ContourSystem` and `StatusSync` since a system whose users have spent their budgets and whose
Contours are settled has really nothing to do; in `EnvoyService`, `DataPlane` and `ObjectUpdates`, where a
pass is always possible, it is.

In `status`, two changes let both workloads, or one of them twice, change during one pass; two edits delete
the Contour and create it again; two instants tell a kept transition time from a new one; the reports are
the three a Deployment controller distinguishes (availability not yet reported, not met, met). In
`object_updates` four disturbances let the object lose its labels, change, go and be replaced while the
informer's copy is still the first; four tries are what three seconds allow (at once, and after each
second). In `data_plane` two edits switch to another type and back, which shows what a type leaves behind;
the failing pass fails in any subset of the three objects.

In `lag` a stranger may replace the Deployment while the informer still shows ours, and the Role between the
moment a deletion gathers it and the moment it deletes it; an object changed there is one of either class.
`live` has no resync, so a Deployment deleted for its selector is made again because its deletion is an event;
`drift` does have one, and disturbs the unwatched kinds as well.

What the bounds leave out matters for three properties. `ExclusiveTenancy` is checked without edits of
`spec.namespace.name`: a Contour whose pass was cut short by a fault and that is then moved leaves some of
its workloads behind, beside which the next tenant deploys. `NamespaceSparesTenants`
rests likewise on the owner of a namespace being the only one deployed there. `NoOrphans` holds in `single` only because the
instance has one Contour, one namespace and informers that keep up: `cluster_rbac_leak` drops
the first condition and finds objects left behind; without the last, see below.

Runs that show a disagreement of the code with what it says (each has an entry under "findings" with the
quoted line):

| Run | What happens |
|---|---|
| `cluster_rbac_leak` | *a* and *b* in namespaces of their own; *a* is deleted; its ClusterRole stays since *b* exists |
| `service_panic` | a third port in a NodePort Service makes `NodePortServiceChanged` index out of range |
| `duplicate_nodeports` | two equal node port numbers pass validation: pointers are compared; the unit test shares one variable and cannot tell |

Met while modelling, and without a run of their own (most are noted with a hazard in `PROJECT.json`):

* *b* claims the namespace of *a* and *a* is deleted: its Roles stay, owned by nobody (`NoOrphans` fails in an
  instance with two Contours, one namespace and a namespaced RBAC object).
* *a* is deleted before the informer has reported its Service: the deletion pass finds nothing, and the Service
  stays (`NoOrphans` fails in `single` with `InformersKeepUp = FALSE`).
* A Contour that names a namespace is created after the List and before the Delete of `EnsureNamespaceDeleted`:
  the namespace is deleted, and created again by the next pass. With it go RBAC objects of an earlier life of
  that Contour, which bear its labels though it has no finalizer yet: this takes five creations, and is why
  `NamespaceSparesTenants` speaks of Contours with the finalizer.
* The spec namespace of *a* is edited: the objects in the old one stay (`NoOrphans` fails in `single` with
  two namespaces and an edit).
* An object that somebody has put in the place of ours is deleted by what the operator saw of its predecessor:
  by the labels of the informer's copy (`deployment.go:101`), or because a deletion had already gathered it
  (`rbac.go:160`), since the Delete names the object only. `StrangersKept` fails in `lag` without either
  condition of `KnownForeign`.
* A namespace is removed though the Contour resource *b*, which deploys elsewhere, lives in it.
* With node ports of a NodePort Service left to the API server, each pass finds a difference and updates:
  `AtRest` fails without `Chosen`.
* A binding with the operator's labels and another roleRef is never repaired: the API server rejects each
  update. `RepairedEventually` fails without `Stuck`.
* A kind whose update carries no resourceVersion (Deployment, the Contour Service, ServiceAccount, namespace)
  overwrites an object that has lost its owner labels since the informer saw it: `StrangersUntouched` is
  about the others, and about current copies.
* The number of a workload that is missing stays in the status as it was, beside a condition that says that the
  workload is missing. `Coherent` says what is guaranteed.
* The status counts a workload of the right name without the owner labels, of which no event is mapped to the
  Contour: `AgreesEventually` fails without `BothOurs`.
* A new configuration in the ConfigMap is not in force before something else restarts Contour's pods.
* A load balancer's address stays in a Service turned into ClusterIP: `Honoured` fails without its last
  condition.

Each property of a passing run has a mutant, an operator beside the original marked "A bug", that
replaces a guard or a computation the way a slip in the Go code would; TLC finds the property violated.

## 5. Fairness

`Spec` of `ContourSystem` assumes: a worker with a step to take takes one (WF; a Go routine is scheduled);
each queued Contour is taken at last (SF, since the worker is busy with others in between; the queue is
first-in first-out and back-off is bounded at 1000 s, so a failing Contour cannot starve another); informers
deliver (WF); a dead process is restarted (WF; it is a Deployment); the namespace controller works (WF); the
resync period elapses where a run has one (WF; ten hours by default in controller-runtime). Users, faults,
crashes, tampering and the end of the Job owe nothing, and faults and crashes are bounded, so liveness says:
once the trouble stops. `Convergence` excuses a Contour that validation turns away and goes on turning away;
two Contours created at once for one namespace may block each other so for ever, until a user acts.
`drift` and `lag` need the resync: without it, a change of an unwatched kind, or a stale read as the last
thing a pass did, is not repaired.

`StatusSync` assumes that the worker (WF: it has one Contour) and the two informers (WF) go on; nothing of
users, controllers, faults or the clock. `ObjectUpdates` assumes passes (WF: each event and each resync brings
one), the informer (WF) and the garbage collector (WF). `DataPlane` assumes passes without failing requests
(WF: failing ones are bounded and repeated) and that Contour's Deployment rolls out (WF). `EnvoyService` has a
specification of its own without fairness, for the two violation runs, which are about safety.

## 6. The proofs

`ContourSystem_proofs` proves, for any Contours, namespaces, resources, specs and budgets that satisfy the
named assumptions of `ApiServer`, `ContourController` and `ContourSystem`:

* **`TypeCorrectness`**, `SafetySpec => []TypeOK`. `TypeOK` says more than sets of values: an absent Contour
  has neither finalizer nor status and a deleting one has the finalizer (`PhaseOK`). It is not inductive:
  `EnsureFinalizer` writes a Contour by a copy read earlier, and would give an absent one a finalizer were
  it accepted. The invariant is `TypeInv == TypeOK /\ FreshOK`; `FreshOK` says that a copy with a current
  resourceVersion is the copy of an existing Contour, and `NextFresh` proves that whoever writes a Contour
  outdates the copy. This is the optimistic concurrency the code relies on.
* **`ClaimCorrectness`**, `SafetySpec => []ClaimHolds` if `Limits["strips"] = 0`. A pass that read the
  finalizer can count on it to its end. The invariant is `ClaimInv == TypeInv /\ NoStrips /\ ClaimHolds`: the
  finalizer of the worker's Contour could go by a user's strip (excluded by `NoStrips`), by `Release` (which ends
  the pass), or with the Contour itself (which `PhaseOK` forbids for a finalized one).
* **`CreationCorrectness`**, `SafetySpec => CreatesOnlyWhileFinalized` under the same assumption:
  `OnlyEnsureCreates` shows that the only step that gives an object to a Contour is one of `ensureContour`
  for the Contour of the pass, and `ClaimInv` gives the finalizer.

The proofs go action by action: lemmas about the building blocks (`Spend`, `Put`, `Finish`, `Notify`,
`Vanish`, `Ensured`), then one lemma per group of actions, then the step, then the temporal conclusion.

`StatusSync_proofs`, for any reports, edits, changes, faults and instants:

* **`StatusTypeCorrectness`**, `SafetySpec => []StatusTypeOK`; `StatusTypeOK` is inductive. The work is in
  `RecomputedType`: what a pass computes from any two workloads, missing or not, is a status.
* **`CoherenceCorrectness`**, `SafetySpec => []Coherent`. The invariant is `CoherenceInv`: what is stored
  *and* what is about to be stored are each of one pass. `RecomputedCoherent` shows that a pass makes a
  coherent status from any status, which is why stale copies and conflicts do no harm.
* **`TransitionCorrectness`**, `SafetySpec => TransitionTimed`. This one does depend on the conflicts:
  `TransitionInv` says that a copy with a current resourceVersion is the stored status while the workloads
  are read, and that what is about to be written *follows* it (`Follows`) when it is written; and that no
  stored time is in the future. `StatusChanges` shows that nothing else writes the status of a Contour.
* **`StatusAttentionCorrectness`**, `SafetySpec => []NoLostStatus`: a stored status that is not that of the Contour's
  own workloads is attended to, or an informer has yet to deliver. This is what `AgreesEventually` needs beside
  fairness, and where the code could be silently wrong, because it decides not to write at all when nothing
  has changed. `NoLostStatus` says nothing of the middle of a pass and is not inductive. `AttentionInv` adds three
  things, each of a worker whose Contour is not queued again: when it is idle, the status agrees with the
  *informers'* workloads (`IdleAgrees`); the Deployment it has found is still the informer's (`FoundCurrent`),
  since an event that changes it queues the Contour; and the copy of the Contour is of the stored version
  (`CopyKept`), since every write of a Contour is an event as well. With them a pass that finds nothing to write
  leaves a status that agrees (`UnchangedAgrees`), and one that writes, or fails to, queues the Contour.

`ObjectUpdates_proofs`, for any kinds, disturbances, faults and tries:

* **`ObjectTypeCorrectness`**, `SafetySpec => []ObjectTypeOK`, with `ObjectInv` adding the shape of the
  stored object: what is immutable is as wanted in a kind without selector or roleRef, and a namespace has
  the label of Kubernetes.
* **`StrangersCorrectness`**, **`NothingLostCorrectness`**, **`NoChurnCorrectness`** and
  **`PassRepairsCorrectness`**: the four action properties. The first three rest on `PassWrites`, which says
  in which ways a pass changes an object that exists; the fourth needs `ShapeOK`, since no comparison
  looks at what a kind does not have.
* **`ObjectRefinementCorrectness`**, `SafetySpec => KeepsObject`: `ObjectUpdates` implements `ChildObject`. `WrittenLook`
  shows that what any kind writes looks as wanted, whatever it was made from; `DifferingLook`, that
  what compares different does not look as wanted, the namespace apart; `RightLook` and `SameLook`, what looks
  say of labels, content and immutable fields. It needs that a stored copy is an object of its kind, and that
  only a Job is ever on its way out (`OnlyJobsTerminate`): nothing else can vanish.

`ContourSteps_proofs`, `ContourTenancy_proofs` and `ContourWork_proofs` prove the rest of the safety
properties of the core, for any number of Contours, namespaces, resources and specs and any budgets of faults,
crashes, creations and edits. They first say, for an arbitrary step, what it is to the pass (`PassKinds`), to a
Contour (`ContourChange`) and to an object (`ObjectChange`); each invariant is then proved from these three
and not action by action. The hypotheses are stated with each theorem (`ForeignCorrectness` and
`EnsuresAsChildCorrectness` have none) and are these:

| Hypothesis | Meaning | What happens without it |
|---|---|---|
| `InformersKeepUp` | the cache is the cluster | a stranger's Deployment is deleted, a Service is missed (section 4) |
| `Limits["strips"] = 0` | nobody removes the finalizer by hand | the deletion never takes place |
| `[]Stationary` | no user changes `spec.namespace.name` | objects stay in the former namespace |
| `Tamperable \cap RBAC = {}`, `Tamperable = {}` | nobody touches RBAC objects, or any child | an object gathered for deletion is replaced by another's; an object of a live Contour is deleted by hand, and if it is of an unwatched kind nobody notices before the resync |

* **`ForeignCorrectness`**, `SafetySpec => StrangersKept`, *without any of these hypotheses*: informers lag as they
  like, strangers replace any object at any moment, users do what they want. The operator knows an object to be
  a stranger's (`KnownForeign`) when the informer shows nothing of ours in its place and no deletion has it on
  its list. `WorkerSpares` goes through every request of a pass: none writes or deletes a known stranger's
  object, and none puts it on a list, for each decides by the informer's copy or by the list; `OthersSpare`, that
  nobody else makes it less known. Beyond the types it needs no invariant, being a statement of every step, and says that a stranger's object is only ever lost by a decision made on an older one.
* **`LiveCorrectness`**, `SafetySpec => LiveNeverTornDown`, with edits of any kind. `GatherInv` says that what
  `EnsureRBACDeleted` has gathered, and the namespace it has checked, still belong to the Contour of the pass or
  to nobody: the owner labels are not looked at again before the Delete. `DepartsOnly`: a pass that read a
  deletion timestamp is over a Contour that is being deleted, to its end.
* **`EnsuresAsChildCorrectness`**, `SafetySpec => EnsuresAsChild`, with informers that lag and everything else others may
  do. It is stated of each object and each step by a parameterised `INSTANCE` of `ChildObject`, seen from the
  Contour of the pass (`LookOf`). With `ObjectRefinementCorrectness` it justifies that an object is one value in the
  core: both are readings of the same abstract object, the functions' ways to compare and to write included. It
  speaks of `EnsureResource`, not of `RecreateJob` (section 3).
* **`TenancyCorrectness`** (`ExclusiveTenancy`), **`AloneCorrectness`** (`Alone`), **`HeldCorrectness`** (`WorkloadsHeld`) and
  **`NamespaceCorrectness`** (`NamespaceSparesTenants`). `ExclusiveTenancy` is not inductive: validation lists
  Contours, not objects, so that a pass is `Alone` with its workloads needs that whoever has workloads has the
  finalizer and so exists (`Held`) in the namespace it names (`Placed`); `Held` in turn needs that a deletion
  without an error has swept the workloads when it removes the finalizer (`Swept`). That all passes are made by
  one worker is what keeps `Alone` true between the List and the last Create. `SoleTenant` is the
  counterpart for the List in `EnsureNamespaceDeleted`.
* **`NoOrphansCorrectness`** (`NoOrphans`) for one Contour: the same invariants for all kinds but the namespace.
  With two it is false, see `cluster_rbac_leak`.
* **`LifecycleCorrectness`** (`KeepsLifecycle`), for Contour resources that live outside the managed namespaces:
  `LifeOfOne`, `OneNamespace` and `PopulationOfOne` show that a step changes one Contour at a time, since
  all objects that change are in one namespace and by `ExclusiveTenancy` of one Contour; `LifeChange` and
  `ReleasedEmpty`, that it changes it as `ContourLifecycle` allows. A namespace in which several Contour
  resources live would take all of them with it in one step; that case is not a refinement.
* **`AttentionCorrectness`** (`WorkKept`) and **`WorkCorrectness`** (`NoLostWork`). The invariant `WorkInv` adds to
  the above that a pass without an error so far has put in place what it has been through, or that the
  namespace is going and the workloads are yet to fail (`Progress`); that namespaces open and close around
  their objects (`NamespacesOK`); and that whoever comes to need what a deletion has gathered is queued
  (`Latecomers`). The theorem needs a workload other than the Job among the managed resources: it is by
  their workloads that Contours exclude each other.

`DataPlane_proofs`, for any publishing specs, port numbers, defaults and bounds, and API servers that drop or
reject the policy, without further hypotheses:

* **`PlaneTypeCorrectness`**, `PlaneSpec => []PlaneTypeOK`; inductive as it stands.
* **`HonouredCorrectness`** and **`RestCorrectness`** (`Honoured`, `AtRest`). The invariant is `Serves`. The argument
  goes through what an update wants (`Follows`): `UpdatedFollows` shows for each of the three comparisons that
  what is written follows the spec, whatever was there; `StoredHonoured` and `StoredRests`, that what
  the API server makes of it honours the spec and compares equal.
* **`PathsCorrectness`** (`PathsAgree`), from `Serves` and `TemplatesOK`; `FlagsServe` shows that leaving out the flag
  of a default port and passing the others comes to the same.
* **`NodePortsCorrectness`** (`NodePortsKept`), from `AssignedOK`: a stored Service has all its numbers, so an update
  that sends them back leaves the API server no choice.

Besides the named assumptions the constants have one that the proofs brought up: no revision is called
`"oldSelector"` (`RevsAssumption`), else an object built from it would count as outdated.

Only model-checked: all liveness (`DeletionCompletes`, `Convergence`, `Quiescence`, `Rests`, `AgreesEventually`,
`RepairedEventually`, `TrafficFlows`), which is out of the prover's reach; and `NoLostWork` while users
move Contours between namespaces (`edits`), which `[]Stationary` in its theorem excludes.

## 7. What is not modelled

* The content of objects other than the Envoy Service field by field: each comparison sees "wanted" or
  "drifted" beside labels, selectors and roleRefs (`ObjectUpdates`), ports and flags (`DataPlane`). In
  particular it is not checked that what the API server's defaulting makes of an expected object compares
  equal to it.
* The branch of the status for an Available condition that is Unknown (`conditions.go:92`), which the
  Deployment controller never reports; its Reason would not pass the CRD's schema.
* The container ports declared by the DaemonSet decide nothing in Kubernetes; `PathsAgree` compares them all
  the same.
* Errors of reads from the cache other than NotFound: a started cache gives none.
* Leader election: one replica (it is off by default, `internal/operator/config.go`).
* `internal/retryableerror`: nothing makes a retryable error, so an aggregate of errors is an error.
* The image flags: a new image is a new revision of the spec; the Job named after the old image is
  removed by its TTL and not seen.
* Gateway API: this version has no code for it beyond one field of the configuration file.
* `internal/parse`, `object.go`, `sharedconfig`, `ref`, generated deep copies, e2e helpers: no state.
