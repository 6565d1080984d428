--------------------------- MODULE ContourController ---------------------------
(***************************************************************************)
(* The Contour controller: a work queue fed by watches, and one worker     *)
(* that takes a Contour from the queue and runs Reconcile on it.  A pass   *)
(* of Reconcile is a sequence of requests to the API server, each one an   *)
(* action here, so users, other controllers, informers, failures and       *)
(* crashes interleave between any two of them.                             *)
(*                                                                         *)
(* A read from the informer cache and the write it leads to are one        *)
(* action: the cache may be arbitrarily stale already, so a delay between  *)
(* the two adds nothing.                                                   *)
(***************************************************************************)
EXTENDS ApiServer

CONSTANT
  InformersKeepUp    \* TRUE: every read finds the informer cache up to date

ASSUME InformersAssumption == InformersKeepUp \in BOOLEAN

VARIABLES
  queue,       \* the Contours to reconcile
  pc,          \* where the worker is: see WorkerStates
  cur,         \* the Contour of the current pass
  snap,        \* the copy of it that Reconcile read when the pass began
  fresh,       \* whether that copy still has the Contour's resourceVersion
  todo,        \* the resources the current loop has yet to visit
  errs         \* whether the pass has collected an error

workerVars == << pc, cur, snap, fresh, todo, errs >>
vars == << phase, finalized, spec, status, obj, terminating, cache, budget,
           queue, pc, cur, snap, fresh, todo, errs >>

WorkerStates ==
  { "down",              \* the operator process is not running
    "idle",              \* waiting for the queue
    "validate", "finalize", "ensure", "status",
    "delete", "gatherCluster", "deleteRBAC",
    "namespace", "dropNamespace", "release" }

Ensuring == pc \in {"ensure", "status"}
Snapshots == [spec : Specs, finalized : BOOLEAN]

CtrlInit ==
  /\ queue = {}
  /\ pc = "idle"
  /\ cur = None
  /\ snap = None
  /\ fresh = FALSE
  /\ todo = {}
  /\ errs = FALSE

CtrlTypeOK ==
  /\ queue \subseteq Contours
  /\ pc \in WorkerStates
  /\ fresh \in BOOLEAN
  /\ todo \subseteq Managed
  /\ errs \in BOOLEAN
  /\ IF pc \in {"idle", "down"}
     THEN cur = None /\ snap = None
     ELSE cur \in Contours /\ snap \in Snapshots
  /\ pc = "down" => queue = {}

----------------------------------------------------------------------------
(* Building blocks. *)

\* The namespace of the pass: contour.Spec.Namespace.Name of the copy read.
Ns == snap.spec.ns

\* With informers that keep up, the worker acts only on a current cache.
Ready == InformersKeepUp => cache = obj

OwnedBy(o, c) == o # None /\ o.owner = c

\* What the builders of the desired objects return for Contour c with spec s.
Desired(r, c, s) ==
  [owner |-> c, content |-> IF r \in SpecDriven THEN s.rev ELSE "fixed"]

\* A bug: the error is logged and the pass reported as a success.
RequeueNever(failed) == {}

\* What a pass puts back into the queue by its result: itself, after an error.
Requeue(failed) == IF failed THEN {cur} ELSE {}

\* The end of a pass. Besides, the pass's last write may have caused an event.
Finish(failed, events) ==
  /\ pc' = "idle"
  /\ cur' = None
  /\ snap' = None
  /\ fresh' = FALSE
  /\ todo' = {}
  /\ errs' = FALSE
  /\ queue' = queue \cup events \cup Requeue(failed)

\* List all Contours: do others than c exist? With one Contour left the code
\* compares only its name.
OtherContoursExist(c) ==
  LET listed == { d \in Contours : Exists(d) }
  IN  ~ ( \/ listed = {}
          \/ \E d \in listed : listed = {d} /\ NameOf[d] = NameOf[c] )

\* A bug: the Contour skipped in the list is told by its name alone.
OtherNamesExistInSpecNs(c, n) ==
  /\ OtherContoursExist(c)
  /\ \E d \in Contours : NameOf[d] # NameOf[c] /\ Exists(d) /\ spec[d].ns = n

\* Does another Contour claim spec namespace n?
OtherContoursExistInSpecNs(c, n) ==
  /\ OtherContoursExist(c)
  /\ \E d \in Contours \ {c} : Exists(d) /\ spec[d].ns = n

\* A bug: the check for other Contours is dropped.
ValidAlone(c, s) == s.valid

Valid(c, s) == ~OtherContoursExistInSpecNs(c, s.ns) /\ s.valid

----------------------------------------------------------------------------
(* Taking a Contour from the queue and reading it. *)

\* Reading the Contour fails: the request is queued again.
ReadFails(c) ==
  /\ pc = "idle" /\ c \in queue /\ Ready
  /\ Spend("faults")
  /\ UNCHANGED << contourVars, clusterVars, cache, queue, workerVars >>

\* The Contour is gone: the request is dropped.
SkipAbsent(c) ==
  /\ pc = "idle" /\ c \in queue /\ Ready
  /\ ~Exists(c)
  /\ queue' = queue \ {c}
  /\ UNCHANGED << contourVars, clusterVars, cache, budget, workerVars >>

\* The pass begins with a copy of the Contour, and branches on its
\* DeletionTimestamp.
Start(c) ==
  /\ pc = "idle" /\ c \in queue /\ Ready
  /\ Exists(c)
  /\ queue' = queue \ {c}
  /\ cur' = c
  /\ snap' = [spec |-> spec[c], finalized |-> finalized[c]]
  /\ fresh' = TRUE
  /\ pc' = IF phase[c] = "live" THEN "validate" ELSE "delete"
  /\ todo' = IF phase[c] = "live" THEN {} ELSE Managed \cap Workloads
  /\ errs' = FALSE
  /\ UNCHANGED << contourVars, clusterVars, cache, budget >>

Dequeue(c) == ReadFails(c) \/ SkipAbsent(c) \/ Start(c)

----------------------------------------------------------------------------
(* A pass over a Contour that is to exist. *)

\* A bug: any finalizer is taken for the operator's.
IsFinalizedByAnyone == TRUE

\* By the copy read.
IsFinalized == snap.finalized

\* validation.Contour; its List may fail. Only a finalized Contour goes on to
\* ensureContour.
Validate(outcome) ==
  /\ pc = "validate" /\ Ready
  /\ outcome # "lostReply" /\ Suffer(outcome)
  /\ IF outcome = "served" /\ Valid(cur, snap.spec)
     THEN /\ pc' = IF IsFinalized THEN "ensure" ELSE "finalize"
          /\ todo' = IF IsFinalized THEN Managed ELSE {}
          /\ UNCHANGED << queue, cur, snap, fresh, errs >>
     ELSE Finish(TRUE, {})
  /\ UNCHANGED << contourVars, clusterVars, cache >>

\* A bug: the Contour is written back without its resourceVersion.
OverwriteAccepted(outcome) == outcome # "refused"

\* The Update of the copy read is refused if the Contour changed since.
ContourUpdateAccepted(outcome) == fresh /\ outcome # "refused"

\* EnsureFinalizer: one such Update.
EnsureFinalizer(outcome) ==
  /\ pc = "finalize" /\ Ready
  /\ Suffer(outcome)
  /\ IF ContourUpdateAccepted(outcome)
     THEN /\ finalized' = [finalized EXCEPT ![cur] = TRUE]
          /\ Finish(outcome = "lostReply", {cur})
     ELSE /\ UNCHANGED finalized
          /\ Finish(TRUE, {})
  /\ UNCHANGED << phase, spec, status, clusterVars, cache >>

\* What is left after ensuring r: an error ends EnsureRBAC early, and any error in
\* the foundation skips the workloads.
Remaining(r, failed) ==
  LET rest == IF failed /\ r \in RBAC THEN todo \ RBAC ELSE todo \ {r}
  IN  IF (errs \/ failed) /\ rest \cap Foundation = {} /\ r \in Foundation
      THEN {} ELSE rest

Ensured(r, failed) ==
  /\ errs' = (errs \/ failed)
  /\ todo' = Remaining(r, failed)
  /\ pc' = IF Remaining(r, failed) = {} THEN "status" ELSE "ensure"
  /\ UNCHANGED << queue, cur, snap, fresh, contourVars, terminating, cache >>

TurnOf(r) == pc = "ensure" /\ Ready /\ IsNext(r, todo, EnsureOrder)

\* The cache holds no r: create it. Finding it there after all is an error.
CreateResource(r, outcome) ==
  LET served == CreateAccepted(r, Ns) /\ outcome # "refused"
  IN  /\ TurnOf(r) /\ cache[r][Ns] = None
      /\ Suffer(outcome)
      /\ IF served THEN Put(r, Ns, Desired(r, cur, snap.spec)) ELSE UNCHANGED obj
      /\ Ensured(r, ~served \/ outcome = "lostReply")

\* What r needs, by the cached copy `have`, when it is there and ours.
SelectorStale(r, have) == r \in SelectorKinds /\ have.content = "oldSelector"

\* A bug: only a change of the spec is noticed, as with a hash of the spec.
DiffersBySpec(r, have) ==
  have.content \in Revs /\ have.content # Desired(r, cur, snap.spec).content

\* A namespace always differs, by the label that Kubernetes adds: every pass writes it.
Differs(r, have) ==
  r = "namespace" \/ have.content # Desired(r, cur, snap.spec).content

UpdateResource(r, outcome) ==
  LET have   == cache[r][Ns]
      served == UpdateAccepted(r, Ns, have) /\ outcome # "refused"
  IN  /\ TurnOf(r) /\ r # "job"
      /\ OwnedBy(have, cur) /\ Differs(r, have) /\ ~SelectorStale(r, have)
      /\ Suffer(outcome)
      /\ IF served THEN Put(r, Ns, Desired(r, cur, snap.spec)) ELSE UNCHANGED obj
      /\ Ensured(r, ~served \/ outcome = "lostReply")

\* A Job is replaced: deleted, then created again within the three seconds
\* retryJobCreate allows. A lost reply stands for the retries running out.
RecreateJob(outcome) ==
  LET have   == cache["job"][Ns]
      placed == outcome = "served" /\ NamespaceOpen(Ns)
  IN  /\ TurnOf("job")
      /\ OwnedBy(have, cur) /\ Differs("job", have)
      /\ Suffer(outcome)
      /\ IF outcome = "refused" THEN UNCHANGED obj
         ELSE Put("job", Ns, IF placed THEN Desired("job", cur, snap.spec) ELSE None)
      /\ Ensured("job", ~placed)

\* A workload with another selector is deleted; its deletion event is to bring
\* the Contour back for a pass that creates it.
ReplaceSelector(r, outcome) ==
  LET have == cache[r][Ns]
  IN  /\ TurnOf(r)
      /\ OwnedBy(have, cur) /\ SelectorStale(r, have)
      /\ Suffer(outcome)
      /\ IF outcome = "refused" THEN UNCHANGED obj ELSE Put(r, Ns, None)
      /\ Ensured(r, outcome # "served")

\* Somebody else's object, or ours as desired: nothing to do.
LeaveAlone(r) ==
  LET have == cache[r][Ns]
  IN  /\ TurnOf(r)
      /\ have # None /\ (OwnedBy(have, cur) => ~Differs(r, have))
      /\ Ensured(r, FALSE)
      /\ UNCHANGED << obj, budget >>

EnsureResource(r) ==
  \/ \E outcome \in Outcomes : \/ CreateResource(r, outcome)
                               \/ UpdateResource(r, outcome)
                               \/ ReplaceSelector(r, outcome)
  \/ LeaveAlone(r)

\* A bug: a condition of that type that is there already is kept as it is.
MergedOnce(c, found) ==
  IF status[c] # "unset" THEN status[c] ELSE IF found THEN "reported" ELSE "unavailable"

\* The condition computed and merged into the status of c.
Merged(c, found) == IF found THEN "reported" ELSE "unavailable"

\* A bug: every status counts as changed, as with a fresh transition time in each.
StatusAlwaysChanged(c, says) == TRUE

ContourStatusChanged(c, says) == status[c] # says

\* SyncContour: reads the Contour again, and the Deployment and DaemonSet of its
\* current spec namespace from the cache; a missing one is an error. It writes only
\* a changed status; a write makes an event of its own.
SyncStatus(outcome) ==
  LET found == \A r \in SelectorKinds \cap Managed : cache[r][spec[cur].ns] # None
      says  == Merged(cur, found)
      write == ContourStatusChanged(cur, says)
  IN  /\ pc = "status" /\ Ready
      /\ outcome = "lostReply" => Exists(cur) /\ write
      /\ Suffer(outcome)
      /\ IF outcome = "refused" \/ ~Exists(cur)
         THEN UNCHANGED status /\ Finish(errs \/ outcome = "refused", {})
         ELSE /\ status' = [status EXCEPT ![cur] = says]
              /\ Finish(errs \/ ~found \/ outcome = "lostReply",
                        IF write THEN {cur} ELSE {})
      /\ UNCHANGED << phase, finalized, spec, clusterVars, cache >>

----------------------------------------------------------------------------
(* A pass over a Contour that is being deleted. *)

\* A bug: the owner labels are not compared.
DeletableByName(r) == cache[r][Ns] # None

\* The cached copy is there and bears the owner labels.
Deletable(r) == OwnedBy(cache[r][Ns], cur)

\* Delete names the object only: whatever bears the name goes. Not finding it is
\* no error.
DeleteObject(r, outcome) ==
  /\ Suffer(outcome)
  /\ IF outcome = "refused" THEN UNCHANGED obj ELSE Put(r, Ns, None)

\* One Ensure...Deleted of a workload kind. An error does not stop the others.
DeleteWorkload(r, outcome) ==
  /\ pc = "delete" /\ Ready
  /\ IsNext(r, todo, WorkloadDeleteOrder)
  /\ IF Deletable(r)
     THEN DeleteObject(r, outcome)
     ELSE outcome = "served" /\ UNCHANGED << obj, budget >>
  /\ errs' = (errs \/ outcome # "served")
  /\ todo' = todo \ {r}
  /\ UNCHANGED << pc, cur, snap, fresh, queue, contourVars, terminating, cache >>

\* The first List of EnsureRBACDeleted: the namespaced objects stay while another
\* Contour claims the namespace.
GatherNamespacedRBAC(outcome) ==
  /\ pc = "delete" /\ todo = {} /\ Ready
  /\ outcome # "lostReply" /\ Suffer(outcome)
  /\ errs' = (errs \/ outcome # "served")
  /\ pc' = IF outcome = "served" THEN "gatherCluster" ELSE "namespace"
  /\ todo' = IF outcome # "served" \/ OtherContoursExistInSpecNs(cur, Ns) THEN {}
             ELSE { r \in Managed \cap NamespacedRBAC : Deletable(r) }
  /\ UNCHANGED << cur, snap, fresh, queue, contourVars, clusterVars, cache >>

\* The second one: the cluster-scoped objects stay while any other Contour exists.
GatherClusterRBAC(outcome) ==
  /\ pc = "gatherCluster" /\ Ready
  /\ outcome # "lostReply" /\ Suffer(outcome)
  /\ errs' = (errs \/ outcome # "served")
  /\ pc' = IF outcome = "served" THEN "deleteRBAC" ELSE "namespace"
  /\ todo' = IF outcome # "served" THEN {}
             ELSE todo \cup ( IF OtherContoursExist(cur) THEN {}
                              ELSE { r \in Managed \cap ClusterRBAC : Deletable(r) } )
  /\ UNCHANGED << cur, snap, fresh, queue, contourVars, clusterVars, cache >>

\* The gathered objects go one by one, up to the first error.
DeleteRBAC(r, outcome) ==
  /\ pc = "deleteRBAC" /\ Ready
  /\ IsNext(r, todo, RBACDeleteOrder)
  /\ DeleteObject(r, outcome)
  /\ errs' = (errs \/ outcome # "served")
  /\ todo' = IF outcome # "served" THEN {} ELSE todo \ {r}
  /\ UNCHANGED << pc, cur, snap, fresh, queue, contourVars, terminating, cache >>

\* EnsureNamespaceDeleted up to its Delete: the exemptions, the owner labels of the
\* cached copy, and a List.
CheckNamespace(outcome) ==
  LET exempt == \/ ~snap.spec.removeOnDeletion
                \/ Ns \in CoreNamespaces
                \/ ~Deletable("namespace")
  IN  /\ pc = "namespace" \/ (pc = "deleteRBAC" /\ todo = {})
      /\ Ready
      /\ outcome # "lostReply" /\ (exempt => outcome = "served")
      /\ Suffer(outcome)
      /\ errs' = (errs \/ outcome # "served")
      /\ pc' = IF exempt \/ outcome # "served" \/ OtherContoursExistInSpecNs(cur, Ns)
               THEN "release" ELSE "dropNamespace"
      /\ UNCHANGED << cur, snap, fresh, todo, queue, contourVars, clusterVars, cache >>

\* Deleting a namespace only begins its termination.
DropNamespace(outcome) ==
  /\ pc = "dropNamespace" /\ Ready
  /\ Suffer(outcome)
  /\ IF outcome = "refused" \/ obj["namespace"][Ns] = None
     THEN UNCHANGED terminating
     ELSE terminating' = terminating \cup {Ns}
  /\ errs' = (errs \/ outcome # "served")
  /\ pc' = "release"
  /\ UNCHANGED << cur, snap, fresh, todo, queue, contourVars, obj, cache >>

\* A bug: the collected errors do not hold the finalizer.
CleanAlways == TRUE

\* The pass collected no error.
Clean == ~errs

\* The finalizer comes off only after a pass without an error, by an Update of the
\* copy the pass began with. The Contour is gone with it.
Release(outcome) ==
  /\ pc = "release" /\ Ready
  /\ ~Clean => outcome = "served"
  /\ Suffer(outcome)
  /\ IF Clean /\ ContourUpdateAccepted(outcome)
     THEN /\ phase' = [phase EXCEPT ![cur] = "absent"]
          /\ finalized' = [finalized EXCEPT ![cur] = FALSE]
          /\ spec' = [spec EXCEPT ![cur] = Manifest[cur]]
          /\ status' = [status EXCEPT ![cur] = "unset"]
          /\ Finish(outcome = "lostReply", {cur})
     ELSE /\ UNCHANGED contourVars
          /\ Finish(TRUE, {})
  /\ UNCHANGED << clusterVars, cache >>

----------------------------------------------------------------------------
(* The worker as a whole; the process; the informers. *)

WorkerStep ==
  \/ \E outcome \in Outcomes :
       \/ Validate(outcome) \/ EnsureFinalizer(outcome) \/ RecreateJob(outcome)
       \/ SyncStatus(outcome)
       \/ GatherNamespacedRBAC(outcome) \/ GatherClusterRBAC(outcome)
       \/ CheckNamespace(outcome) \/ DropNamespace(outcome) \/ Release(outcome)
       \/ \E r \in Managed : DeleteWorkload(r, outcome) \/ DeleteRBAC(r, outcome)
  \/ \E r \in Managed : EnsureResource(r)

\* The Contours an event on a watched object is mapped to.
OwnersOf(o) == IF o = None THEN {} ELSE {o.owner} \cap Contours

\* The process dies between two requests, and all it knew with it.
Crash ==
  /\ pc # "down"
  /\ Spend("crashes")
  /\ pc' = "down"
  /\ queue' = {}
  /\ cur' = None /\ snap' = None /\ fresh' = FALSE /\ todo' = {} /\ errs' = FALSE
  /\ UNCHANGED << contourVars, clusterVars, cache >>

\* It starts again: the caches are filled before the worker runs, and the initial
\* lists of the watches queue every Contour and every owner.
Restart ==
  /\ pc = "down"
  /\ pc' = "idle"
  /\ cache' = obj
  /\ queue' = { c \in Contours : Exists(c) } \cup
              UNION { OwnersOf(obj[r][n]) : r \in Managed \cap WatchedKinds, n \in Namespaces }
  /\ UNCHANGED << contourVars, clusterVars, budget, cur, snap, fresh, todo, errs >>

\* An informer catches up on one object. If its kind is watched, the owners named
\* by the old and by the new object are queued.
Refresh(r, n) ==
  /\ pc # "down"
  /\ cache[r][n] # obj[r][n]
  /\ cache' = [cache EXCEPT ![r][n] = obj[r][n]]
  /\ queue' = IF r \in WatchedKinds
              THEN queue \cup OwnersOf(cache[r][n]) \cup OwnersOf(obj[r][n])
              ELSE queue
  /\ UNCHANGED << contourVars, clusterVars, budget, workerVars >>
================================================================================
