-------------------------- MODULE ContourSteps_proofs --------------------------
(***************************************************************************)
(* What one step does to a pass, to the Contours and to the objects, when  *)
(* the informers keep up; what follows for the objects of live Contours;   *)
(* and what holds for the objects of strangers however the informers lag.  *)
(* All for every set of Contours, namespaces, resources and specs, and     *)
(* every budget.                                                           *)
(***************************************************************************)
EXTENDS ContourInvariants, ContourSystem_proofs

----------------------------------------------------------------------------
(* What a request of the worker does. *)

\* The worker ensures r, and fails or not: it leaves r alone, which without an error
\* means that r is there and as wanted where it is the Contour's own; it writes what is
\* wanted, over an object of its own or where none is; or it deletes an object of its
\* own, a Job to be created anew or a workload with an outdated selector.
Ensures(r, failed) ==
  /\ pc = "ensure" /\ IsNext(r, todo, EnsureOrder) /\ Ensured(r, failed)
  /\ \/ /\ UNCHANGED obj
        /\ ~failed => /\ obj[r][Ns] # None
                      /\ OwnedBy(obj[r][Ns], cur) =>
                           obj[r][Ns].content = Desired(r, cur, snap.spec).content
     \/ /\ Put(r, Ns, Desired(r, cur, snap.spec))
        /\ \/ OwnedBy(obj[r][Ns], cur)
           \/ CreateAccepted(r, Ns)
     \/ /\ Put(r, Ns, None)
        /\ OwnedBy(obj[r][Ns], cur)
        /\ r = "job" \/ obj[r][Ns].content = "oldSelector"

\* An Ensure<kind> is of that form: the cache is the cluster when the informers keep
\* up, so what the code compares is what it then writes over.
LEMMA EnsureEffect ==
  ASSUME InformersKeepUp, NEW r \in Managed, EnsureResource(r)
  PROVE  \E failed \in BOOLEAN : Ensures(r, failed)
<1>1. ASSUME NEW outcome \in Outcomes, CreateResource(r, outcome)
      PROVE  \E failed \in BOOLEAN : Ensures(r, failed)
  <2>. DEFINE served == CreateAccepted(r, Ns) /\ outcome # "refused"
              failed == ~served \/ outcome = "lostReply"
  <2>1. failed \in BOOLEAN
    BY DEF CreateAccepted
  <2>2. Ensures(r, failed)
    BY <1>1 DEF CreateResource, TurnOf, Ready, Ensures
  <2>. QED BY <2>1, <2>2
<1>2. ASSUME NEW outcome \in Outcomes, UpdateResource(r, outcome)
      PROVE  \E failed \in BOOLEAN : Ensures(r, failed)
  <2>. DEFINE served == UpdateAccepted(r, Ns, cache[r][Ns]) /\ outcome # "refused"
              failed == ~served \/ outcome = "lostReply"
  <2>1. failed \in BOOLEAN
    BY DEF UpdateAccepted
  <2>2. Ensures(r, failed)
    BY <1>2 DEF UpdateResource, TurnOf, Ready, Ensures
  <2>. QED BY <2>1, <2>2
<1>3. ASSUME NEW outcome \in Outcomes, ReplaceSelector(r, outcome)
      PROVE  \E failed \in BOOLEAN : Ensures(r, failed)
  <2>1. Ensures(r, outcome # "served")
    BY <1>3 DEF ReplaceSelector, TurnOf, Ready, Ensures, SelectorStale, Outcomes
  <2>. QED BY <2>1
<1>4. ASSUME LeaveAlone(r)
      PROVE  \E failed \in BOOLEAN : Ensures(r, failed)
  <2>1. Ensures(r, FALSE)
    BY <1>4 DEF LeaveAlone, TurnOf, Ready, Ensures, Differs
  <2>. QED BY <2>1
<1>. QED BY <1>1, <1>2, <1>3, <1>4 DEF EnsureResource

\* So is the deletion and creation of a Job that differs.
LEMMA RecreateEffect ==
  ASSUME InformersKeepUp, NEW outcome \in Outcomes, RecreateJob(outcome)
  PROVE  \E failed \in BOOLEAN : Ensures("job", failed)
<1>. DEFINE placed == outcome = "served" /\ NamespaceOpen(Ns)
<1>1. (~placed) \in BOOLEAN
  BY DEF NamespaceOpen
<1>2. Ensures("job", ~placed)
  <2>1. /\ pc = "ensure" /\ IsNext("job", todo, EnsureOrder) /\ Ensured("job", ~placed)
        /\ OwnedBy(obj["job"][Ns], cur)
    BY DEF RecreateJob, TurnOf, Ready
  <2>2. CASE outcome = "refused"
    BY <2>1, <2>2 DEF RecreateJob, Ensures
  <2>3. CASE placed
    BY <2>1, <2>3 DEF RecreateJob, Ensures
  <2>4. CASE outcome # "refused" /\ ~placed
    BY <2>1, <2>4 DEF RecreateJob, Ensures
  <2>. QED BY <2>2, <2>3, <2>4
<1>. QED BY <1>1, <1>2

\* The worker deletes r, or finds nothing of its own to delete, and goes on, but on an
\* error while RBAC objects are deleted, which ends their loop.
Deletes(r, served) ==
  /\ errs' = (errs \/ ~served)
  /\ r \in todo /\ todo' \subseteq todo /\ (served => todo' = todo \ {r})
  /\ \/ pc = "delete" /\ r \in Workloads /\ todo' = todo \ {r}
     \/ pc = "deleteRBAC" /\ r \in RBAC
  /\ \/ UNCHANGED obj /\ (served => pc = "delete" /\ ~OwnedBy(obj[r][Ns], cur))
     \/ Put(r, Ns, None) /\ (pc = "delete" => OwnedBy(obj[r][Ns], cur))
  /\ UNCHANGED << pc, cur, snap, fresh, queue, contourVars, terminating, cache >>

\* The next resource is one of those that remain.
LEMMA IsNextIn ==
  ASSUME NEW r, NEW remaining, NEW order, IsNext(r, remaining, order)
  PROVE  r \in remaining /\ r \in NamesIn(order)
BY DEF IsNext, NamesIn

\* An Ensure<kind>Deleted and the deletion of a gathered RBAC object are of that
\* form; only the former looks at the labels again.
LEMMA DeleteEffect ==
  ASSUME InformersKeepUp, NEW r \in Managed, NEW outcome \in Outcomes,
         DeleteWorkload(r, outcome) \/ DeleteRBAC(r, outcome)
  PROVE  \E served \in BOOLEAN : Deletes(r, served)
<1>1. CASE DeleteWorkload(r, outcome)
  <2>1. r \in todo /\ r \in Workloads
    <3>1. r \in NamesIn(WorkloadDeleteOrder)
      BY <1>1, IsNextIn DEF DeleteWorkload
    <3>2. NamesIn(WorkloadDeleteOrder) = Workloads
      BY DEF NamesIn, WorkloadDeleteOrder, WorkloadEnsureOrder, Workloads
    <3>. QED BY <1>1, <3>1, <3>2 DEF DeleteWorkload, IsNext
  <2>2. Deletes(r, outcome = "served")
    BY <1>1, <2>1 DEF DeleteWorkload, DeleteObject, Deletable, Ready, Deletes, Outcomes
  <2>. QED BY <2>2
<1>2. CASE DeleteRBAC(r, outcome)
  <2>1. r \in todo /\ r \in RBAC
    <3>1. r \in NamesIn(RBACDeleteOrder)
      BY <1>2, IsNextIn DEF DeleteRBAC
    <3>2. NamesIn(RBACDeleteOrder) \subseteq RBAC
      BY DEF NamesIn, RBACDeleteOrder, NamespacedRBACDeleteOrder, ClusterRBACDeleteOrder, RBAC,
             NamespacedRBAC, ClusterRBAC
    <3>. QED BY <1>2, <3>1, <3>2 DEF DeleteRBAC, IsNext
  <2>2. Deletes(r, outcome = "served")
    BY <1>2, <2>1 DEF DeleteRBAC, DeleteObject, Ready, Deletes, Outcomes
  <2>. QED BY <2>2
<1>. QED BY <1>1, <1>2

----------------------------------------------------------------------------
(* What a step does to the pass. *)

\* The pass goes on, without a write to a Contour.
WithinPass ==
  /\ Busy /\ pc' \notin {"idle", "down"} /\ (pc \in Departures <=> pc' \in Departures)
  /\ UNCHANGED << cur, snap, fresh, queue >> /\ UNCHANGED contourVars

\* The pass is over.
EndsPass ==
  /\ Busy /\ pc' = "idle" /\ cur' = None /\ snap' = None /\ fresh' = FALSE /\ todo' = {}
  /\ queue \subseteq queue'

\* The other steps of a pass write no object.
Plain(outcome) ==
  \/ Validate(outcome) \/ EnsureFinalizer(outcome) \/ SyncStatus(outcome)
  \/ GatherNamespacedRBAC(outcome) \/ GatherClusterRBAC(outcome)
  \/ CheckNamespace(outcome) \/ DropNamespace(outcome) \/ Release(outcome)

\* The worker ensures, deletes, or does neither.
LEMMA WorkerKinds ==
  ASSUME TypeInv, InformersKeepUp, WorkerStep
  PROVE  \/ \E r \in Managed, failed \in BOOLEAN : Ensures(r, failed)
         \/ \E r \in Managed, served \in BOOLEAN : Deletes(r, served)
         \/ \E outcome \in Outcomes : Plain(outcome)
<1>1. ASSUME NEW outcome \in Outcomes, RecreateJob(outcome)
      PROVE  \E r \in Managed, failed \in BOOLEAN : Ensures(r, failed)
  <2>1. "job" \in Managed
    BY <1>1 DEF RecreateJob, TurnOf, IsNext, TypeInv, TypeOK, CtrlTypeOK
  <2>. QED BY <1>1, <2>1, RecreateEffect
<1>. QED BY <1>1, EnsureEffect, DeleteEffect, Zenon DEF WorkerStep, Plain

\* A resource that has been ensured without an error so far is off the list, and the
\* status is next when the list is empty.
LEMMA EnsuresEffect ==
  ASSUME TypeInv, NEW r, NEW failed, Ensures(r, failed)
  PROVE  /\ r \in todo /\ WithinPass /\ UNCHANGED << terminating, cache >>
         /\ pc' \in {"ensure", "status"} /\ errs' = (errs \/ failed)
         /\ ~errs' => todo' = todo \ {r} /\ (pc' = "status" <=> todo' = {})
<1>1. r \in todo
  BY IsNextIn DEF Ensures
<1>2. ~(errs \/ failed) => Remaining(r, failed) = todo \ {r}
  BY DEF Remaining
<1>3. todo' = Remaining(r, failed) /\ errs' = (errs \/ failed)
      /\ pc' = IF Remaining(r, failed) = {} THEN "status" ELSE "ensure"
  BY DEF Ensures, Ensured
<1>. QED BY <1>1, <1>2, <1>3 DEF Ensures, Ensured, WithinPass, Busy, Departures

\* Nothing happens to the pass.
Elsewhere == UNCHANGED << pc, cur, snap, todo, errs >>

\* What neither ensures nor deletes goes on with the pass or ends it, and writes no
\* object.
LEMMA PlainPass ==
  ASSUME TypeInv, NEW outcome \in Outcomes, Plain(outcome)
  PROVE  /\ WithinPass \/ EndsPass
         /\ UNCHANGED << obj, cache >>
<1>1. CASE Validate(outcome)
  BY <1>1 DEF Validate, Finish, WithinPass, EndsPass, Busy, Departures, clusterVars
<1>2. CASE EnsureFinalizer(outcome)
  BY <1>2 DEF EnsureFinalizer, Finish, EndsPass, Busy, clusterVars
<1>3. CASE SyncStatus(outcome)
  BY <1>3 DEF SyncStatus, Finish, EndsPass, Busy, clusterVars
<1>4. CASE GatherNamespacedRBAC(outcome) \/ GatherClusterRBAC(outcome)
  BY <1>4 DEF GatherNamespacedRBAC, GatherClusterRBAC, WithinPass, Busy, Departures, clusterVars
<1>5. CASE CheckNamespace(outcome) \/ DropNamespace(outcome)
  BY <1>5 DEF CheckNamespace, DropNamespace, WithinPass, Busy, Departures, clusterVars
<1>6. CASE Release(outcome)
  BY <1>6 DEF Release, Finish, EndsPass, Busy, clusterVars
<1>. QED BY <1>1, <1>2, <1>3, <1>4, <1>5, <1>6 DEF Plain

\* Others act: they may queue Contours and outdate the copy the pass works with, and
\* then the Contour of the pass is queued.
Outside ==
  /\ Elsewhere /\ (fresh' => fresh)
  /\ Busy => queue \subseteq queue' /\ (fresh => fresh' \/ cur \in queue')

\* Users, Kubernetes and stuttering steps are outside of the pass.
LEMMA EnvironmentOutside ==
  ASSUME TypeInv, Users \/ Kubernetes \/ UNCHANGED vars
  PROVE  Outside
<1>1. ASSUME NEW cs \in SUBSET Contours, Notify(cs)
      PROVE  Outside
  <2>1. Busy => pc # "down"
    BY DEF Busy
  <2>. QED BY <1>1, <2>1 DEF Notify, Outside, Elsewhere
<1>2. CASE Users
  <2>1. ASSUME NEW r \in Tamperable, NEW n \in Namespaces, Tamper(r, n)
        PROVE  Outside
    BY <2>1 DEF Tamper, workerVars, Outside, Elsewhere
  <2>2. ASSUME NEW c \in Contours,
               UserCreates(c) \/ UserDeletes(c) \/ UserStripsFinalizer(c)
                 \/ \E s \in Specs : UserEdits(c, s)
        PROVE  Notify({c})
    BY <2>2 DEF UserCreates, UserDeletes, UserStripsFinalizer, UserEdits
  <2>. QED BY <1>1, <1>2, <2>1, <2>2 DEF Users
<1>3. CASE Kubernetes
  <2>1. ASSUME NEW n \in Namespaces, DrainNamespace(n)
        PROVE  Outside
    <3>1. Notify({ c \in Residents(n) : phase[c] = "live" })
      BY <2>1 DEF DrainNamespace
    <3>2. { c \in Residents(n) : phase[c] = "live" } \subseteq Contours
      BY DEF Residents
    <3>. QED BY <1>1, <3>1, <3>2
  <2>2. ASSUME \/ \E n \in Namespaces : JobFinishes(n) \/ FinishNamespace(n)
               \/ \E r \in Managed, n \in Namespaces : Refresh(r, n)
               \/ Resync
        PROVE  Outside
    BY <2>2 DEF JobFinishes, FinishNamespace, Refresh, Resync, workerVars, Outside, Elsewhere
  <2>. QED BY <1>3, <2>1, <2>2 DEF Kubernetes
<1>4. CASE UNCHANGED vars
  BY <1>4 DEF vars, Outside, Elsewhere
<1>. QED BY <1>2, <1>3, <1>4

\* What any step is to the pass.
LEMMA PassKinds ==
  ASSUME TypeInv, [Next]_vars, InformersKeepUp
  PROVE  \/ Outside \/ WithinPass \/ EndsPass \/ Crash \/ Restart
         \/ \E c \in Contours : Start(c)
<1>1. ASSUME NEW c \in Contours, Dequeue(c)
      PROVE  Outside \/ Start(c)
  BY <1>1 DEF Dequeue, ReadFails, SkipAbsent, workerVars, Outside, Elsewhere, Busy
<1>2. CASE WorkerStep
  <2>1. ASSUME NEW r \in Managed, NEW served \in BOOLEAN, Deletes(r, served)
        PROVE  WithinPass
    BY <2>1 DEF Deletes, WithinPass, Busy, Departures
  <2>. QED BY <1>2, <2>1, WorkerKinds, EnsuresEffect, PlainPass
<1>. QED BY <1>1, <1>2, EnvironmentOutside DEF Next, Operator

----------------------------------------------------------------------------
(* What a step does to a Contour. *)

\* The step does nothing to Contour c.
Kept(c) ==
  /\ phase'[c] = phase[c] /\ finalized'[c] = finalized[c]
  /\ spec'[c] = spec[c] /\ status'[c] = status[c]

\* Somebody else has written c: the operator is down or has c queued, and a copy of c
\* is outdated.
Noticed(c) ==
  /\ Elsewhere /\ (pc = "down" \/ c \in queue') /\ (fresh' => cur # c) /\ UNCHANGED cache

\* Somebody else creates c, deletes it before or after it was given the finalizer, or
\* edits its spec.
ByOthers(c) ==
  /\ Noticed(c)
  /\ \/ /\ phase[c] = "absent" /\ phase'[c] = "live"
        /\ finalized'[c] = finalized[c] /\ spec'[c] = spec[c] /\ status'[c] = status[c]
     \/ /\ phase[c] = "live" /\ ~finalized[c] /\ phase'[c] = "absent" /\ finalized'[c] = FALSE
        /\ spec'[c] = Manifest[c] /\ status'[c] = "unset"
     \/ /\ phase[c] = "live" /\ finalized[c] /\ phase'[c] = "deleting"
        /\ finalized'[c] = finalized[c] /\ spec'[c] = spec[c] /\ status'[c] = status[c]
     \/ /\ Exists(c) /\ phase'[c] = phase[c]
        /\ finalized'[c] = finalized[c] /\ status'[c] = status[c]

\* The pass over c ends with a write to it: of the finalizer, of the status, or of the
\* removal of the finalizer, after a deletion without an error.
ByWorker(c) ==
  /\ c = cur /\ EndsPass /\ UNCHANGED << obj, terminating, cache >>
  /\ \/ /\ pc = "finalize" /\ fresh /\ c \in queue' /\ finalized'[c] = TRUE
        /\ phase'[c] = phase[c] /\ spec'[c] = spec[c] /\ status'[c] = status[c]
     \/ /\ pc = "status" /\ c \in queue'
        /\ phase'[c] = phase[c] /\ finalized'[c] = finalized[c] /\ spec'[c] = spec[c]
     \/ /\ pc = "release" /\ fresh /\ ~errs
        /\ phase'[c] = "absent" /\ finalized'[c] = FALSE
        /\ spec'[c] = Manifest[c] /\ status'[c] = "unset"

\* What users do to a Contour, strips apart.
LEMMA UserChange ==
  ASSUME TypeInv, NoStrips, Users, NEW c \in Contours
  PROVE  Kept(c) \/ ByOthers(c)
<1>. USE DEF TypeInv, TypeOK, ApiTypeOK, ContoursTypeOK
<1>1. ASSUME NEW d \in Contours, Notify({d}), UNCHANGED cache
      PROVE  Noticed(d)
  BY <1>1 DEF Notify, Noticed, Elsewhere
<1>2. ASSUME NEW d \in Contours, UserCreates(d)
      PROVE  Kept(c) \/ ByOthers(c)
  BY <1>1, <1>2 DEF UserCreates, Exists, Kept, ByOthers
<1>3. ASSUME NEW d \in Contours, UserDeletes(d)
      PROVE  Kept(c) \/ ByOthers(c)
  <2>1. CASE finalized[d]
    BY <1>1, <1>3, <2>1 DEF UserDeletes, Kept, ByOthers
  <2>2. CASE ~finalized[d]
    BY <1>1, <1>3, <2>2 DEF UserDeletes, Vanish, Kept, ByOthers
  <2>. QED BY <2>1, <2>2
<1>4. ASSUME NEW d \in Contours, UserStripsFinalizer(d)
      PROVE  FALSE
  BY <1>4 DEF UserStripsFinalizer, Spend, NoStrips
<1>5. ASSUME NEW d \in Contours, NEW s \in Specs, UserEdits(d, s)
      PROVE  Kept(c) \/ ByOthers(c)
  BY <1>1, <1>5 DEF UserEdits, Exists, Kept, ByOthers
<1>6. ASSUME NEW r \in Tamperable, NEW n \in Namespaces, Tamper(r, n)
      PROVE  Kept(c)
  BY <1>6 DEF Tamper, contourVars, Kept
<1>. QED BY <1>2, <1>3, <1>4, <1>5, <1>6 DEF Users

\* The namespace controller deletes the Contours that live in a namespace.
LEMMA KubernetesChange ==
  ASSUME TypeInv, Kubernetes, NEW c \in Contours
  PROVE  Kept(c) \/ ByOthers(c)
<1>. USE DEF TypeInv, TypeOK, ApiTypeOK, ContoursTypeOK
<1>1. ASSUME NEW n \in Namespaces, DrainNamespace(n)
      PROVE  Kept(c) \/ ByOthers(c)
  <2>. DEFINE doomed == { d \in Residents(n) : phase[d] = "live" }
              gone == { d \in doomed : ~finalized[d] }
  <2>1. /\ phase'[c] = IF c \in gone THEN "absent" ELSE IF c \in doomed THEN "deleting" ELSE phase[c]
        /\ spec'[c] = IF c \in gone THEN Manifest[c] ELSE spec[c]
        /\ status'[c] = IF c \in gone THEN "unset" ELSE status[c]
        /\ finalized'[c] = finalized[c] /\ UNCHANGED cache
        /\ Notify(doomed)
    BY <1>1 DEF DrainNamespace
  <2>2. CASE c \notin doomed
    BY <2>1, <2>2 DEF Kept
  <2>3. CASE c \in doomed
    <3>1. Noticed(c)
      BY <2>1, <2>3 DEF Notify, Noticed, Elsewhere
    <3>2. phase[c] = "live" /\ (c \in gone <=> ~finalized[c])
      BY <2>3
    <3>3. finalized[c] \in BOOLEAN
      OBVIOUS
    <3>. QED BY <2>1, <2>3, <3>1, <3>2, <3>3 DEF ByOthers
  <2>. QED BY <2>2, <2>3
<1>2. ASSUME \/ \E n \in Namespaces : JobFinishes(n) \/ FinishNamespace(n)
             \/ \E r \in Managed, n \in Namespaces : Refresh(r, n)
             \/ Resync
      PROVE  Kept(c)
  BY <1>2 DEF JobFinishes, FinishNamespace, Refresh, Resync, contourVars, Kept
<1>. QED BY <1>1, <1>2 DEF Kubernetes

\* The worker writes no Contour but its own, and at the end of a pass.
LEMMA WorkerChange ==
  ASSUME TypeInv, InformersKeepUp, WorkerStep, NEW c \in Contours
  PROVE  Kept(c) \/ ByWorker(c)
<1>. USE DEF TypeInv, TypeOK, ApiTypeOK, ContoursTypeOK
<1>1. ASSUME NEW r \in Managed, NEW failed \in BOOLEAN, Ensures(r, failed)
      PROVE  Kept(c)
  BY <1>1 DEF Ensures, Ensured, contourVars, Kept
<1>2. ASSUME NEW r \in Managed, NEW served \in BOOLEAN, Deletes(r, served)
      PROVE  Kept(c)
  BY <1>2 DEF Deletes, contourVars, Kept
<1>3. ASSUME NEW outcome \in Outcomes, Plain(outcome)
      PROVE  Kept(c) \/ ByWorker(c)
  <2>1. CASE UNCHANGED contourVars
    BY <2>1 DEF contourVars, Kept
  <2>2. CASE EnsureFinalizer(outcome) /\ ~UNCHANGED contourVars
    <3>1. /\ pc = "finalize" /\ fresh /\ finalized' = [finalized EXCEPT ![cur] = TRUE]
          /\ cur \in queue' /\ UNCHANGED << phase, spec, status, obj, terminating, cache >>
      BY <2>2 DEF EnsureFinalizer, ContourUpdateAccepted, Finish, contourVars, clusterVars
    <3>2. EndsPass
      BY <2>2 DEF EnsureFinalizer, Finish, EndsPass, Busy
    <3>. QED BY <3>1, <3>2 DEF Kept, ByWorker
  <2>3. CASE SyncStatus(outcome) /\ ~UNCHANGED contourVars
    <3>1. PICK says : /\ pc = "status" /\ status' = [status EXCEPT ![cur] = says]
                      /\ ContourStatusChanged(cur, says) => cur \in queue'
                      /\ UNCHANGED << phase, finalized, spec, obj, terminating, cache >>
      BY <2>3 DEF SyncStatus, Finish, contourVars, clusterVars
    <3>2. EndsPass
      BY <2>3 DEF SyncStatus, Finish, EndsPass, Busy
    <3>3. CASE ContourStatusChanged(cur, says)
      BY <3>1, <3>2, <3>3 DEF Kept, ByWorker
    <3>4. CASE ~ContourStatusChanged(cur, says)
      BY <3>1, <3>4 DEF Kept, ContourStatusChanged
    <3>. QED BY <3>3, <3>4
  <2>4. CASE Release(outcome) /\ ~UNCHANGED contourVars
    <3>1. /\ pc = "release" /\ fresh /\ ~errs
          /\ phase' = [phase EXCEPT ![cur] = "absent"]
          /\ finalized' = [finalized EXCEPT ![cur] = FALSE]
          /\ spec' = [spec EXCEPT ![cur] = Manifest[cur]]
          /\ status' = [status EXCEPT ![cur] = "unset"]
          /\ UNCHANGED << obj, terminating, cache >>
      BY <2>4 DEF Release, Clean, ContourUpdateAccepted, clusterVars
    <3>2. EndsPass
      BY <2>4 DEF Release, Finish, EndsPass, Busy
    <3>. QED BY <3>1, <3>2 DEF Kept, ByWorker
  <2>. QED BY <1>3, <2>1, <2>2, <2>3, <2>4
           DEF Plain, Validate, GatherNamespacedRBAC, GatherClusterRBAC, CheckNamespace, DropNamespace
<1>. QED BY <1>1, <1>2, <1>3, WorkerKinds

\* What any step does to a Contour.
LEMMA ContourChange ==
  ASSUME TypeInv, NoStrips, InformersKeepUp, [Next]_vars, NEW c \in Contours
  PROVE  Kept(c) \/ ByOthers(c) \/ ByWorker(c)
<1>1. CASE (\E d \in Contours : Dequeue(d)) \/ Crash \/ Restart
  BY <1>1 DEF Dequeue, ReadFails, SkipAbsent, Start, Crash, Restart, contourVars, Kept
<1>2. CASE UNCHANGED vars
  BY <1>2 DEF vars, Kept
<1>. QED BY <1>1, <1>2, UserChange, KubernetesChange, WorkerChange DEF Next, Operator

----------------------------------------------------------------------------
(* What a step does to an object. *)

\* Somebody else has deleted an object of a Contour, changed it or made it theirs.
Tampered(r, n) ==
  /\ r \in Tamperable /\ obj[r][n] # None /\ obj[r][n].owner \in Contours
  /\ obj'[r][n] # None => obj'[r][n].owner \in {Foreign, obj[r][n].owner}
  /\ Elsewhere /\ UNCHANGED << contourVars, terminating, queue >> /\ budget["tampers"] > 0

\* The Job has ended, or the namespace controller has removed r with its namespace.
Cleared(r, n) ==
  /\ obj'[r][n] = None /\ Elsewhere
  /\ \/ r = "job" /\ \E c \in Contours : OwnedBy(obj[r][n], c)
     \/ r \in Namespaced /\ n \in terminating
     \/ /\ r = "namespace" /\ n \in terminating
        /\ n \notin terminating' /\ \A q \in Managed \cap Namespaced : obj[q][n] = None

\* While r is ensured it is written as wanted, or deleted to be created anew.
Replaced(r, n) ==
  /\ n = Ns /\ \E failed \in BOOLEAN : Ensures(r, failed)
  /\ \/ /\ obj'[r][n] = Desired(r, cur, snap.spec)
        /\ OwnedBy(obj[r][n], cur) \/ CreateAccepted(r, n)
     \/ /\ obj'[r][n] = None
        /\ OwnedBy(obj[r][n], cur)
        /\ r = "job" \/ obj[r][n].content = "oldSelector"

\* A deletion has removed r.
Removed(r, n) ==
  /\ n = Ns /\ obj'[r][n] = None /\ \E served \in BOOLEAN : Deletes(r, served)
  /\ pc = "delete" => OwnedBy(obj[r][n], cur)

\* A write of one object changes no other.
LEMMA PutEffect ==
  ASSUME TypeInv, NEW q \in Managed, NEW m \in Namespaces, NEW o, Put(q, m, o),
         NEW r \in Managed, NEW n \in Namespaces, obj'[r][n] # obj[r][n]
  PROVE  r = q /\ n = m /\ obj'[r][n] = o
BY DEF Put, TypeInv, TypeOK, ApiTypeOK, ClusterTypeOK

\* Somebody else's doing changes the one object it is done to.
LEMMA TamperChange ==
  ASSUME TypeInv, NEW q \in Tamperable, NEW m \in Namespaces, Tamper(q, m),
         NEW r \in Managed, NEW n \in Namespaces, obj'[r][n] # obj[r][n]
  PROVE  Tampered(r, n)
<1>1. q \in Managed
  BY EnvironmentAssumption
<1>2. PICK o : /\ Put(q, m, o)
               /\ o # None => o.owner \in {Foreign, obj[q][m].owner}
  BY DEF Tamper
<1>3. r = q /\ n = m /\ obj'[r][n] = o
  BY <1>1, <1>2, PutEffect
<1>. QED BY <1>2, <1>3 DEF Tamper, Tampered, Elsewhere, workerVars, contourVars, Spend

\* What Kubernetes does to an object that it changes.
LEMMA KubernetesObjects ==
  ASSUME TypeInv, Kubernetes,
         NEW r \in Managed, NEW n \in Namespaces, obj'[r][n] # obj[r][n]
  PROVE  Cleared(r, n)
<1>1. ASSUME NEW m \in Namespaces, JobFinishes(m)
      PROVE  Cleared(r, n)
  <2>1. r = "job" /\ n = m /\ obj'[r][n] = None
    BY <1>1, PutEffect DEF JobFinishes
  <2>. QED BY <1>1, <2>1 DEF JobFinishes, Cleared, Elsewhere, workerVars
<1>2. ASSUME NEW m \in Namespaces, DrainNamespace(m)
      PROVE  Cleared(r, n)
  <2>1. /\ m \in terminating
        /\ obj' = [q \in Managed |-> IF q \in Namespaced THEN [obj[q] EXCEPT ![m] = None] ELSE obj[q]]
    BY <1>2 DEF DrainNamespace
  <2>2. r \in Namespaced /\ n = m /\ obj'[r][n] = None
    BY <2>1 DEF TypeInv, TypeOK, ApiTypeOK, ClusterTypeOK
  <2>3. Elsewhere
    BY <1>2 DEF DrainNamespace, Notify, Elsewhere
  <2>. QED BY <2>1, <2>2, <2>3 DEF Cleared
<1>3. ASSUME NEW m \in Namespaces, FinishNamespace(m)
      PROVE  Cleared(r, n)
  <2>1. r = "namespace" /\ n = m /\ obj'[r][n] = None
    BY <1>3, PutEffect, ManagedAssumption DEF FinishNamespace
  <2>. QED BY <1>3, <2>1 DEF FinishNamespace, Cleared, Elsewhere, workerVars
<1>4. ASSUME (\E q \in Managed, m \in Namespaces : Refresh(q, m)) \/ Resync
      PROVE  FALSE
  BY <1>4 DEF Refresh, Resync, clusterVars
<1>. QED BY <1>1, <1>2, <1>3, <1>4 DEF Kubernetes

\* What the worker does to an object that it changes.
LEMMA WorkerObjects ==
  ASSUME TypeInv, InformersKeepUp, WorkerStep,
         NEW r \in Managed, NEW n \in Namespaces, obj'[r][n] # obj[r][n]
  PROVE  Replaced(r, n) \/ Removed(r, n)
<1>0. Busy => Ns \in Namespaces
  BY BusyType DEF TypeInv, TypeOK, Busy
<1>1. ASSUME NEW q \in Managed, NEW failed \in BOOLEAN, Ensures(q, failed)
      PROVE  Replaced(r, n)
  <2>1. Ns \in Namespaces
    BY <1>0, <1>1 DEF Ensures, Busy
  <2>2. PICK o : Put(q, Ns, o) /\ o \in {None, Desired(q, cur, snap.spec)}
    BY <1>1 DEF Ensures
  <2>3. r = q /\ n = Ns /\ obj'[r][n] = o
    BY <2>1, <2>2, PutEffect
  <2>4. CASE Put(q, Ns, Desired(q, cur, snap.spec)) /\ (OwnedBy(obj[q][Ns], cur) \/ CreateAccepted(q, Ns))
    <3>1. obj'[r][n] = Desired(r, cur, snap.spec)
      BY <2>1, <2>3, <2>4, PutEffect
    <3>. QED BY <1>1, <2>3, <2>4, <3>1 DEF Replaced
  <2>5. CASE Put(q, Ns, None) /\ OwnedBy(obj[q][Ns], cur) /\ (q = "job" \/ obj[q][Ns].content = "oldSelector")
    <3>1. obj'[r][n] = None
      BY <2>1, <2>3, <2>5, PutEffect
    <3>. QED BY <1>1, <2>3, <2>5, <3>1 DEF Replaced
  <2>. QED BY <1>1, <2>4, <2>5 DEF Ensures
<1>2. ASSUME NEW q \in Managed, NEW served \in BOOLEAN, Deletes(q, served)
      PROVE  Removed(r, n)
  <2>1. Ns \in Namespaces
    BY <1>0, <1>2 DEF Deletes, Busy
  <2>2. Put(q, Ns, None) /\ (pc = "delete" => OwnedBy(obj[q][Ns], cur))
    BY <1>2 DEF Deletes
  <2>3. r = q /\ n = Ns /\ obj'[r][n] = None
    BY <2>1, <2>2, PutEffect
  <2>. QED BY <1>2, <2>2, <2>3 DEF Removed
<1>3. ASSUME NEW outcome \in Outcomes, Plain(outcome)
      PROVE  FALSE
  BY <1>3, PlainPass
<1>. QED BY <1>1, <1>2, <1>3, WorkerKinds

\* What any step does to an object that it changes.
LEMMA ObjectChange ==
  ASSUME TypeInv, InformersKeepUp, [Next]_vars,
         NEW r \in Managed, NEW n \in Namespaces, obj'[r][n] # obj[r][n]
  PROVE  Tampered(r, n) \/ Cleared(r, n) \/ Replaced(r, n) \/ Removed(r, n)
<1>1. ~UNCHANGED obj
  OBVIOUS
<1>2. CASE Users
  <2>1. \E q \in Tamperable, m \in Namespaces : Tamper(q, m)
    BY <1>1, <1>2 DEF Users, UserCreates, UserDeletes, UserStripsFinalizer, UserEdits, clusterVars
  <2>. QED BY <2>1, TamperChange
<1>3. ~(\E d \in Contours : Dequeue(d)) /\ ~Crash /\ ~Restart
  BY <1>1 DEF Dequeue, ReadFails, SkipAbsent, Start, Crash, Restart, clusterVars
<1>. QED BY <1>1, <1>2, <1>3, KubernetesObjects, WorkerObjects DEF Next, Operator, vars

\* Nothing but the end of EnsureNamespaceDeleted starts the removal of a namespace.
LEMMA TerminatingChange ==
  ASSUME TypeInv, InformersKeepUp, [Next]_vars, NEW n \in terminating' \ terminating
  PROVE  /\ \E outcome \in Outcomes : DropNamespace(outcome)
         /\ n = Ns /\ obj["namespace"][n] # None
<1>1. ~UNCHANGED terminating
  OBVIOUS
<1>2. ~Users
  BY <1>1 DEF Users, Tamper, UserCreates, UserDeletes, UserStripsFinalizer, UserEdits, clusterVars
<1>3. ~Kubernetes
  BY <1>1 DEF Kubernetes, JobFinishes, DrainNamespace, FinishNamespace, Refresh, Resync, clusterVars
<1>4. ~(\E d \in Contours : Dequeue(d)) /\ ~Crash /\ ~Restart
  BY <1>1 DEF Dequeue, ReadFails, SkipAbsent, Start, Crash, Restart, clusterVars
<1>5. WorkerStep
  BY <1>1, <1>2, <1>3, <1>4 DEF Next, Operator, vars
<1>6. ASSUME NEW r \in Managed, NEW failed \in BOOLEAN, Ensures(r, failed) \/ Deletes(r, failed)
      PROVE  FALSE
  BY <1>1, <1>6 DEF Ensures, Ensured, Deletes
<1>7. PICK outcome \in Outcomes : Plain(outcome)
  BY <1>5, <1>6, WorkerKinds
<1>8. DropNamespace(outcome)
  BY <1>1, <1>7 DEF Plain, Validate, EnsureFinalizer, SyncStatus, GatherNamespacedRBAC,
                    GatherClusterRBAC, CheckNamespace, Release, clusterVars
<1>. QED BY <1>8 DEF DropNamespace

----------------------------------------------------------------------------
(* The copy of the Contour that a pass works with. *)

\* The copy stays good for what the pass does with it as long as no Contour is moved:
\* a write to the Contour outdates the copy and queues the Contour, and a deletion is
\* not taken back.
LEMMA NextCopyOK ==
  ASSUME TypeInv, NoStrips, InformersKeepUp, CopyOK, Stationary, [Next]_vars
  PROVE  CopyOK'
<1>. USE DEF CopyOK, Busy, Departures
<1>0. /\ ~fresh \/ cur \in Contours
      /\ Busy => cur \in Contours
      /\ ~Busy => cur = None /\ None \notin Contours
  BY NamesAssumption DEF TypeInv, TypeOK, CtrlTypeOK, FreshOK
<1>1. CASE Outside
  <2>1. ASSUME Busy
        PROVE  Kept(cur) \/ (ByOthers(cur) /\ ~fresh')
    <3>1. Kept(cur) \/ ByOthers(cur) \/ ByWorker(cur)
      BY <1>0, <2>1, ContourChange
    <3>2. ~ByWorker(cur)
      BY <1>1, <2>1 DEF Outside, Elsewhere, ByWorker, EndsPass
    <3>3. ByOthers(cur) => ~fresh'
      BY DEF ByOthers, Noticed
    <3>. QED BY <3>1, <3>2, <3>3
  <2>. QED BY <1>0, <1>1, <2>1 DEF Outside, Elsewhere, Kept, ByOthers, Exists
<1>2. ASSUME NEW c \in Contours, Start(c)
      PROVE  CopyOK'
  <2>1. phase[c] = "live" \/ phase[c] = "deleting"
    BY <1>2 DEF Start, Exists, TypeInv, TypeOK, ApiTypeOK, ContoursTypeOK
  <2>. QED BY <1>2, <2>1 DEF Start, contourVars, Stationary
<1>3. CASE WithinPass
  BY <1>3 DEF WithinPass, contourVars
<1>4. CASE EndsPass
  BY <1>4 DEF EndsPass
<1>5. CASE Crash \/ Restart
  BY <1>0, <1>5 DEF Crash, Restart
<1>. QED BY <1>1, <1>2, <1>3, <1>4, <1>5, PassKinds

----------------------------------------------------------------------------
(* What a deletion has gathered. *)

\* The deletion goes on with what is left when the workloads are gone.
Onward(outcome) ==
  \/ GatherNamespacedRBAC(outcome) \/ GatherClusterRBAC(outcome)
  \/ CheckNamespace(outcome) \/ DropNamespace(outcome)

\* How a state of a deletion comes about.
LEMMA DepartureKinds ==
  ASSUME TypeInv, InformersKeepUp, [Next]_vars, pc' \in Departures
  PROVE  \/ Outside
         \/ \E c \in Contours : Start(c)
         \/ \E r \in Managed, served \in BOOLEAN : Deletes(r, served)
         \/ \E outcome \in Outcomes : Onward(outcome)
<1>. USE DEF Departures
<1>1. CASE WorkerStep
  <2>1. ASSUME NEW r \in Managed, NEW failed \in BOOLEAN, Ensures(r, failed)
        PROVE  FALSE
    BY <2>1, EnsuresEffect
  <2>2. ASSUME NEW outcome \in Outcomes, Plain(outcome)
        PROVE  Onward(outcome)
    BY <2>2 DEF Plain, Onward, Validate, EnsureFinalizer, SyncStatus, Release, Finish
  <2>. QED BY <1>1, <2>1, <2>2, WorkerKinds
<1>2. CASE ~WorkerStep
  <2>1. ~Crash /\ ~Restart
    BY DEF Crash, Restart
  <2>2. ASSUME NEW c \in Contours, Dequeue(c)
        PROVE  Outside \/ Start(c)
    BY <2>2 DEF Dequeue, ReadFails, SkipAbsent, workerVars, Outside, Elsewhere, Busy
  <2>3. CASE Users \/ Kubernetes \/ UNCHANGED vars
    BY <2>3, EnvironmentOutside
  <2>. QED BY <1>2, <2>1, <2>2, <2>3 DEF Next, Operator
<1>. QED BY <1>1, <1>2

\* Between the List that gathers the RBAC objects and their Delete nobody else can come
\* to own one of them: their names are taken, and the operator, which alone would
\* create them for another Contour, is busy with the deletion. Somebody who replaces
\* RBAC objects by hand would break this, so Tamperable contains none.
LEMMA NextGatheredOurs ==
  ASSUME TypeInv, InformersKeepUp, Tamperable \cap RBAC = {}, GatheredOurs, [Next]_vars
  PROVE  GatheredOurs'
<1>. USE DEF NobodyElses
<1>0. Busy => Ns \in Namespaces /\ todo \subseteq Managed /\ cur \in Contours
  BY BusyType DEF TypeInv, TypeOK, Busy, CtrlTypeOK
<1>1. SUFFICES ASSUME pc' \in Departures
               PROVE  GatheredOurs'
  BY DEF GatheredOurs, Departures
<1>2. ASSUME NEW r \in RBAC \cup {"namespace"}, r \in Managed, NobodyElses(r), Busy,
             UNCHANGED << cur, snap >>, pc \in Departures
      PROVE  NobodyElses(r)'
  <2>. SUFFICES ASSUME obj'[r][Ns] # obj[r][Ns]
                PROVE  obj'[r][Ns] = None
    BY <1>0, <1>2 DEF Ns
  <2>1. ~Tampered(r, Ns)
    BY <1>2, EnvironmentAssumption DEF Tampered
  <2>2. ~Replaced(r, Ns)
    BY <1>2 DEF Replaced, Ensures, Departures
  <2>. QED BY <1>0, <1>2, <2>1, <2>2, ObjectChange DEF Cleared, Removed
<1>3. CASE Outside
  <2>1. UNCHANGED << pc, cur, snap, todo >> /\ Busy
    BY <1>1, <1>3 DEF Outside, Elsewhere, Busy, Departures
  <2>. QED BY <1>0, <1>2, <2>1, ManagedAssumption DEF GatheredOurs, Departures
<1>4. ASSUME NEW c \in Contours, Start(c)
      PROVE  GatheredOurs'
  BY <1>4 DEF Start, GatheredOurs
<1>5. ASSUME NEW q \in Managed, NEW served \in BOOLEAN, Deletes(q, served)
      PROVE  GatheredOurs'
  <2>1. UNCHANGED << pc, cur, snap >> /\ todo' \subseteq todo /\ pc \in {"delete", "deleteRBAC"}
    BY <1>5 DEF Deletes
  <2>. QED BY <1>0, <1>2, <2>1 DEF GatheredOurs, Departures, Busy
<1>6. ASSUME NEW outcome \in Outcomes, Onward(outcome)
      PROVE  GatheredOurs'
  <2>0. NamespacedRBAC \subseteq RBAC /\ ClusterRBAC \subseteq RBAC
    BY DEF RBAC
  <2>1. CASE GatherNamespacedRBAC(outcome)
    BY <2>0, <2>1 DEF GatherNamespacedRBAC, Deletable, OwnedBy, Ready, GatheredOurs, clusterVars, Ns
  <2>2. CASE GatherClusterRBAC(outcome)
    BY <2>0, <2>2 DEF GatherClusterRBAC, Deletable, OwnedBy, Ready, GatheredOurs, clusterVars, Ns
  <2>3. CASE CheckNamespace(outcome)
    BY <2>3 DEF CheckNamespace, Deletable, OwnedBy, Ready, GatheredOurs, clusterVars, Ns
  <2>4. CASE DropNamespace(outcome)
    BY <2>4 DEF DropNamespace, GatheredOurs
  <2>. QED BY <1>6, <2>1, <2>2, <2>3, <2>4 DEF Onward
<1>. QED BY <1>1, <1>3, <1>4, <1>5, <1>6, DepartureKinds

\* What LiveCorrectness rests on.
GatherInv == TypeInv /\ GatheredOurs

\* GatherInv is an invariant.
LEMMA GatherInvariance ==
  ASSUME InformersKeepUp, Tamperable \cap RBAC = {}
  PROVE  SafetySpec => []GatherInv
<1>1. Init => GatherInv
  BY InitTypeInv DEF GatherInv, GatheredOurs, Init, CtrlInit
<1>2. GatherInv /\ [Next]_vars => GatherInv'
  BY NextTypeInv, NextGatheredOurs DEF GatherInv
<1>. QED BY <1>1, <1>2, PTL DEF SafetySpec

\* What a deletion removes is the Contour's own, also where the labels were looked at in
\* an earlier step.
LEMMA RemovedOurs ==
  ASSUME GatheredOurs, NEW r \in Managed, NEW n \in Namespaces, Removed(r, n), obj[r][n] # None
  PROVE  OwnedBy(obj[r][n], cur) /\ pc \in Departures
BY DEF Removed, Deletes, GatheredOurs, NobodyElses, OwnedBy, Departures

----------------------------------------------------------------------------
(* The objects of strangers, however the informers lag. *)

\* The step leaves r in n alone, does not put it on a deletion's list, and does not
\* begin the removal of n if r is the namespace; an informer at most catches up on it.
Spares(r, n) ==
  /\ obj'[r][n] = obj[r][n] /\ cache'[r][n] \in {cache[r][n], obj[r][n]} /\ ~Listed(r, n)'
  /\ r = "namespace" => n \notin terminating'

\* No Contour finds its labels on an object that no Contour owns.
LEMMA NotOurs ==
  ASSUME NEW o, OwnersOf(o) = {}, NEW c \in Contours
  PROVE  ~OwnedBy(o, c)
BY DEF OwnersOf, OwnedBy

\* A stranger's object bears nobody's labels.
LEMMA ForeignOwners ==
  ASSUME NEW o, o.owner = Foreign
  PROVE  OwnersOf(o) = {}
BY NamesAssumption DEF OwnersOf

\* Users, Kubernetes and stuttering steps change other objects only: tampering is with
\* the operator's own, and a namespace that stays is not emptied.
LEMMA OthersSpare ==
  ASSUME TypeInv, Users \/ Kubernetes \/ UNCHANGED vars,
         NEW r \in Managed, NEW n \in Namespaces, KnownForeign(r, n), n \notin terminating
  PROVE  Spares(r, n)
<1>0. obj[r][n].owner \notin Contours /\ \A c \in Contours : ~OwnedBy(obj[r][n], c)
  BY NamesAssumption DEF KnownForeign, OwnedBy
<1>1. ~Listed(r, n)'
  <2>1. Elsewhere
    BY EnvironmentOutside DEF Outside
  <2>. QED BY <2>1 DEF Elsewhere, Listed, Ns, KnownForeign
<1>2. obj'[r][n] = obj[r][n]
  <2>. SUFFICES ASSUME obj'[r][n] # obj[r][n]
                PROVE  FALSE
    OBVIOUS
  <2>1. CASE Users
    <3>1. \E q \in Tamperable, m \in Namespaces : Tamper(q, m)
      BY <2>1 DEF Users, UserCreates, UserDeletes, UserStripsFinalizer, UserEdits, clusterVars
    <3>. QED BY <1>0, <3>1, TamperChange DEF Tampered
  <2>2. CASE Kubernetes
    BY <1>0, <2>2, KubernetesObjects DEF Cleared
  <2>3. CASE UNCHANGED vars
    BY <2>3 DEF vars
  <2>. QED BY <2>1, <2>2, <2>3
<1>3. cache'[r][n] \in {cache[r][n], obj[r][n]}
  <2>1. ASSUME NEW q \in Managed, NEW m \in Namespaces, Refresh(q, m)
        PROVE  cache'[r][n] \in {cache[r][n], obj[r][n]}
    BY <2>1 DEF Refresh, TypeInv, TypeOK, ApiTypeOK, ClusterTypeOK
  <2>2. CASE ~\E q \in Managed, m \in Namespaces : Refresh(q, m)
    BY <2>2 DEF Users, UserCreates, UserDeletes, UserStripsFinalizer, UserEdits, Tamper,
                Kubernetes, JobFinishes, DrainNamespace, FinishNamespace, Resync, vars
  <2>. QED BY <2>1, <2>2
<1>4. terminating' \subseteq terminating
  BY DEF Users, UserCreates, UserDeletes, UserStripsFinalizer, UserEdits, Tamper, Kubernetes,
         JobFinishes, DrainNamespace, FinishNamespace, Refresh, Resync, clusterVars, vars
<1>. QED BY <1>1, <1>2, <1>3, <1>4 DEF Spares

\* A pass looks at the cached labels before it updates, deletes or lists an object, and
\* creates one only where there is none: whether the copy is current or not, it shows no
\* labels of a Contour.
LEMMA WorkerSpares ==
  ASSUME TypeInv, WorkerStep,
         NEW r \in Managed, NEW n \in Namespaces, KnownForeign(r, n), n \notin terminating
  PROVE  Spares(r, n)
<1>0. /\ Busy => cur \in Contours /\ Ns \in Namespaces
      /\ obj[r][n] # None /\ ~Listed(r, n)
      /\ Busy => ~OwnedBy(cache[r][n], cur)
  <2>1. Busy => cur \in Contours /\ Ns \in Namespaces
    BY BusyType DEF TypeInv, TypeOK, Busy
  <2>. QED BY <2>1, NotOurs DEF KnownForeign
<1>1. ASSUME NEW q \in Managed, NEW failed, pc = "ensure", Ensured(q, failed),
             \/ UNCHANGED obj
             \/ \E o : Put(q, Ns, o) /\ (obj[q][Ns] = None \/ OwnedBy(cache[q][Ns], cur))
      PROVE  Spares(r, n)
  <2>1. UNCHANGED << terminating, cache >> /\ pc' \in {"ensure", "status"}
    BY <1>1 DEF Ensured
  <2>2. obj'[r][n] = obj[r][n]
    <3>1. ASSUME NEW o, Put(q, Ns, o), obj[q][Ns] = None \/ OwnedBy(cache[q][Ns], cur)
          PROVE  obj'[r][n] = obj[r][n]
      BY <1>0, <1>1, <3>1, PutEffect DEF Busy
    <3>. QED BY <1>1, <3>1
  <2>. QED BY <2>1, <2>2 DEF Spares, Listed
<1>2. ASSUME NEW q \in Managed, EnsureResource(q)
      PROVE  Spares(r, n)
  BY <1>1, <1>2 DEF EnsureResource, CreateResource, CreateAccepted, UpdateResource,
                    ReplaceSelector, LeaveAlone, TurnOf
<1>3. ASSUME NEW outcome \in Outcomes, RecreateJob(outcome)
      PROVE  Spares(r, n)
  <2>1. "job" \in Managed
    BY <1>3 DEF RecreateJob, TurnOf, IsNext, TypeInv, TypeOK, CtrlTypeOK
  <2>. QED BY <1>1, <1>3, <2>1 DEF RecreateJob, TurnOf
<1>4. ASSUME NEW q \in Managed, NEW outcome, DeleteWorkload(q, outcome)
      PROVE  Spares(r, n)
  <2>1. pc = "delete" /\ UNCHANGED << pc, terminating, cache >>
    BY <1>4 DEF DeleteWorkload
  <2>2. UNCHANGED obj \/ (Put(q, Ns, None) /\ OwnedBy(cache[q][Ns], cur))
    BY <1>4 DEF DeleteWorkload, DeleteObject, Deletable
  <2>3. obj'[r][n] = obj[r][n]
    BY <1>0, <2>1, <2>2, PutEffect DEF Busy
  <2>. QED BY <2>1, <2>3 DEF Spares, Listed
<1>5. ASSUME NEW q \in Managed, NEW outcome, DeleteRBAC(q, outcome)
      PROVE  Spares(r, n)
  <2>1. /\ pc = "deleteRBAC" /\ q \in todo /\ todo' \subseteq todo
        /\ UNCHANGED << pc, snap, terminating, cache >>
    BY <1>5 DEF DeleteRBAC, IsNext
  <2>2. UNCHANGED obj \/ Put(q, Ns, None)
    BY <1>5 DEF DeleteRBAC, DeleteObject
  <2>3. ~(r = q /\ n = Ns)
    BY <1>0, <2>1 DEF Listed
  <2>4. obj'[r][n] = obj[r][n]
    BY <1>0, <2>1, <2>2, <2>3, PutEffect DEF Busy
  <2>. QED BY <1>0, <2>1, <2>4 DEF Spares, Listed, Ns
<1>6. ASSUME NEW outcome \in Outcomes, Plain(outcome)
      PROVE  Spares(r, n)
  <2>1. UNCHANGED << obj, cache >>
    BY <1>6, PlainPass
  <2>2. CASE GatherNamespacedRBAC(outcome) \/ GatherClusterRBAC(outcome)
    <3>1. /\ Busy /\ pc' \in {"gatherCluster", "deleteRBAC", "namespace"}
          /\ UNCHANGED << snap, terminating >>
          /\ \A q \in todo' : (q \in todo /\ pc = "gatherCluster") \/ OwnedBy(cache[q][Ns], cur)
      BY <2>2 DEF GatherNamespacedRBAC, GatherClusterRBAC, Deletable, clusterVars, Busy
    <3>. QED BY <1>0, <2>1, <3>1 DEF Spares, Listed, Ns
  <2>3. CASE CheckNamespace(outcome)
    <3>1. /\ Busy /\ UNCHANGED << snap, terminating >>
          /\ pc' = "dropNamespace" => OwnedBy(cache["namespace"][Ns], cur)
          /\ pc' \in {"release", "dropNamespace"}
      BY <2>3 DEF CheckNamespace, Deletable, clusterVars, Busy
    <3>. QED BY <1>0, <2>1, <3>1 DEF Spares, Listed, Ns
  <2>4. CASE DropNamespace(outcome)
    <3>1. pc = "dropNamespace" /\ pc' = "release" /\ terminating' \subseteq terminating \cup {Ns}
      BY <2>4 DEF DropNamespace
    <3>2. r = "namespace" => n # Ns
      BY <1>0, <3>1 DEF Listed
    <3>. QED BY <2>1, <3>1, <3>2 DEF Spares, Listed
  <2>5. CASE \/ Validate(outcome) \/ EnsureFinalizer(outcome) \/ SyncStatus(outcome)
             \/ Release(outcome)
    <3>1. UNCHANGED terminating /\ pc' \in {"ensure", "finalize", "idle"}
      BY <2>5 DEF Validate, EnsureFinalizer, SyncStatus, Release, Finish, clusterVars
    <3>. QED BY <2>1, <3>1 DEF Spares, Listed
  <2>. QED BY <1>6, <2>2, <2>3, <2>4, <2>5 DEF Plain
<1>. QED BY <1>2, <1>3, <1>4, <1>5, <1>6, Zenon DEF WorkerStep, Plain

\* So does every step.
LEMMA StepSpares ==
  ASSUME TypeInv, [Next]_vars,
         NEW r \in Managed, NEW n \in Namespaces, KnownForeign(r, n), n \notin terminating
  PROVE  Spares(r, n)
<1>1. CASE (\E c \in Contours : Dequeue(c)) \/ Crash \/ Restart
  <2>1. /\ UNCHANGED clusterVars /\ cache' \in {cache, obj}
        /\ UNCHANGED << pc, snap, todo >> \/ pc' \in {"validate", "delete", "idle", "down"}
    BY <1>1 DEF Dequeue, ReadFails, SkipAbsent, Start, Crash, Restart, workerVars
  <2>2. ~Listed(r, n)'
    BY <2>1 DEF Listed, Ns, KnownForeign
  <2>. QED BY <2>1, <2>2 DEF Spares, clusterVars
<1>. QED BY <1>1, OthersSpare, WorkerSpares DEF Next, Operator

\* An object somebody else has in the place of one of the operator's is safe for good
\* from the moment the informer has seen it, if no deletion under way has found the
\* labels of a Contour there before: no Ensure function, no Ensure...Deleted, no gathered
\* list and no end of a namespace touches it, whatever the caches show of other objects,
\* whatever anybody does to any object or Contour, and whatever fails. Nothing is assumed
\* of the informers or of the users. Until then it may go by a decision made on what was
\* there before: by the Delete of a stale copy (deployment.go:101), or of an RBAC object
\* listed earlier (rbac.go:160).
THEOREM ForeignCorrectness == SafetySpec => StrangersKept
<1>1. TypeInv /\ [Next]_vars =>
        [ \A r \in Managed, n \in Namespaces :
            KnownForeign(r, n) /\ n \notin terminating =>
              /\ obj[r][n]' = obj[r][n]
              /\ KnownForeign(r, n)'
              /\ r = "namespace" => n \notin terminating' ]_vars
  <2>. SUFFICES ASSUME TypeInv, [Next]_vars, NEW r \in Managed, NEW n \in Namespaces,
                       KnownForeign(r, n), n \notin terminating
                PROVE  /\ obj'[r][n] = obj[r][n]
                       /\ KnownForeign(r, n)'
                       /\ r = "namespace" => n \notin terminating'
    OBVIOUS
  <2>1. Spares(r, n)
    BY StepSpares
  <2>2. OwnersOf(cache'[r][n]) = {}
    BY <2>1, ForeignOwners DEF Spares, KnownForeign
  <2>. QED BY <2>1, <2>2 DEF Spares, KnownForeign
<1>. QED BY <1>1, TypeInvariance, PTL DEF SafetySpec, StrangersKept

----------------------------------------------------------------------------
(* The objects of live Contours. *)

\* A deletion is of a Contour that is being deleted.
DepartsOnly == pc \in Departures => phase[cur] = "deleting"

\* No one takes a deletion back, so a pass that read a deletion timestamp is right about
\* it to its end, however old its copy is.
LEMMA NextDepartsOnly ==
  ASSUME TypeInv, NoStrips, InformersKeepUp, DepartsOnly, [Next]_vars
  PROVE  DepartsOnly'
<1>. USE DEF DepartsOnly
<1>1. SUFFICES ASSUME pc' \in Departures
               PROVE  phase'[cur'] = "deleting"
  OBVIOUS
<1>2. ASSUME NEW c \in Contours, Start(c)
      PROVE  phase'[cur'] = "deleting"
  BY <1>1, <1>2 DEF Start, Exists, contourVars, Departures, TypeInv, TypeOK, ApiTypeOK, ContoursTypeOK
<1>3. ASSUME pc \in Departures, cur' = cur
      PROVE  phase'[cur'] = "deleting"
  <2>1. cur \in Contours
    BY <1>3 DEF TypeInv, TypeOK, CtrlTypeOK, Departures
  <2>2. Kept(cur) \/ ByOthers(cur)
    BY <1>1, <2>1, ContourChange DEF ByWorker, EndsPass, Departures
  <2>. QED BY <1>3, <2>2 DEF Kept, ByOthers, Exists
<1>4. CASE Outside
  BY <1>1, <1>3, <1>4 DEF Outside, Elsewhere
<1>5. CASE WithinPass
  BY <1>1, <1>3, <1>5 DEF WithinPass
<1>6. ~EndsPass /\ ~Crash /\ ~Restart
  BY <1>1 DEF EndsPass, Crash, Restart, Departures
<1>. QED BY <1>2, <1>4, <1>5, <1>6, PassKinds

\* While a Contour exists and claims its namespace, the operator takes none of its child
\* objects away, but for a workload with an outdated selector, although a pass over
\* another Contour of the same name or in the same namespace, or over an earlier copy,
\* may be under way. Users may edit specs as they like, spec.namespace.name included; only
\* that they strip a finalizer or touch child objects is ruled out, and that informers lag.
THEOREM LiveCorrectness ==
  ASSUME InformersKeepUp, Limits["strips"] = 0, Tamperable = {}
  PROVE  SafetySpec => LiveNeverTornDown
<1>1. SafetySpec => []GatherInv
  BY GatherInvariance
<1>2. SafetySpec => []ClaimInv
  BY InitClaimInv, NextClaimInv, PTL DEF SafetySpec
<1>3. SafetySpec => []DepartsOnly
  <2>1. Init => DepartsOnly
    BY DEF Init, CtrlInit, DepartsOnly, Departures
  <2>2. ClaimInv /\ DepartsOnly /\ [Next]_vars => DepartsOnly'
    BY NextDepartsOnly DEF ClaimInv
  <2>. QED BY <1>2, <2>1, <2>2, PTL DEF SafetySpec
<1>4. GatherInv /\ DepartsOnly /\ [Next]_vars =>
        [ \A r \in Managed \ {"job"}, n \in Namespaces, c \in Contours :
            /\ OwnedBy(obj[r][n], c) /\ phase[c] = "live" /\ spec[c].ns = n
            /\ n \notin terminating
            => OwnedBy(obj[r][n]', c) \/ obj[r][n].content = "oldSelector" ]_vars
  <2>. SUFFICES ASSUME GatherInv, DepartsOnly, [Next]_vars,
                       NEW r \in Managed \ {"job"}, NEW n \in Namespaces, NEW c \in Contours,
                       OwnedBy(obj[r][n], c), phase[c] = "live", n \notin terminating,
                       ~OwnedBy(obj'[r][n], c), obj[r][n].content # "oldSelector"
                PROVE  FALSE
    OBVIOUS
  <2>1. obj'[r][n] # obj[r][n] /\ obj[r][n] # None
    BY DEF OwnedBy
  <2>2. ~Tampered(r, n) /\ ~Cleared(r, n)
    BY DEF Tampered, Cleared
  <2>3. ~Replaced(r, n)
    <3>1. ASSUME OwnedBy(obj[r][n], cur), obj'[r][n] = Desired(r, cur, snap.spec), pc = "ensure"
          PROVE  FALSE
      <4>1. c = cur
        BY <3>1 DEF OwnedBy
      <4>2. snap.spec \in Specs
        BY <3>1, BusyType DEF GatherInv, TypeInv, TypeOK
      <4>. QED BY <3>1, <4>1, <4>2, DesiredType, NoneAssumption DEF OwnedBy, Desired
    <3>. QED BY <2>1, <3>1 DEF Replaced, Ensures, CreateAccepted
  <2>4. ~Removed(r, n)
    BY <2>1, RemovedOurs DEF GatherInv, DepartsOnly, OwnedBy
  <2>. QED BY <2>1, <2>2, <2>3, <2>4, ObjectChange DEF GatherInv
<1>. QED BY <1>1, <1>3, <1>4, PTL DEF SafetySpec, LiveNeverTornDown

----------------------------------------------------------------------------
(* One object of many: each Ensure function as a step of ChildObject. *)

\* What the Contour of the pass makes of an object of kind r.
LookOf(r, o) ==
  CASE o = None                                              -> "absent"
    [] o # None /\ ~OwnedBy(o, cur)                          -> "foreign"
    [] OwnedBy(o, cur) /\ SelectorStale(r, o)                -> "oldSelector"
    [] OwnedBy(o, cur) /\ ~SelectorStale(r, o)               ->
         IF o.content = Desired(r, cur, snap.spec).content THEN "wanted" ELSE "drifted"

Child(r) == INSTANCE ChildObject
  WITH Kinds <- Managed, MaxDisturbances <- Limits["tampers"],
       kind         <- r,
       stored       <- LookOf(r, obj[r][Ns]),
       seen         <- LookOf(r, cache[r][Ns]),
       doomed       <- FALSE,
       disturbances <- budget["tampers"]

EnsuresAsChild ==
  [][ \A r \in Managed :
        EnsureResource(r) => Child(r)!ChildNext \/ UNCHANGED Child(r)!childVars ]_vars

\* A request costs others nothing of what they may do.
LEMMA SufferTampers ==
  ASSUME BudgetTypeOK, NEW outcome, Suffer(outcome)
  PROVE  UNCHANGED budget["tampers"]
BY DEF Suffer, Spend, BudgetTypeOK, BudgetKinds

\* What the operator writes is as wanted: no spec asks for the selector of an earlier
\* release.
LEMMA DesiredLook ==
  ASSUME CtrlTypeOK, pc = "ensure", NEW r \in Managed
  PROVE  LookOf(r, Desired(r, cur, snap.spec)) = "wanted"
<1> DEFINE o == Desired(r, cur, snap.spec)
<1>1. cur \in Contours /\ snap.spec \in Specs
  BY BusyType
<1>2. o \in Objects /\ o # None
  BY <1>1, DesiredType, NoneAssumption
<1>3. o.owner = cur /\ o.content # "oldSelector"
  BY <1>1, RevsAssumption, SpecsAssumption DEF Desired
<1> HIDE DEF o
<1>. QED BY <1>2, <1>3 DEF LookOf, OwnedBy, SelectorStale, o

\* The worker takes up an object as ChildObject lets it: what it does rests on what the
\* copy looks like to the Contour of the pass, and what it leaves is absent, as it was,
\* or as wanted. ObjectRefinementCorrectness says the same of the functions themselves,
\* with all their ways to compare; there the Job, too, which RecreateJob here deletes and
\* creates in one step.
THEOREM EnsuresAsChildCorrectness == SafetySpec => EnsuresAsChild
<1>1. ASSUME TypeInv, NEW r \in Managed, EnsureResource(r)
      PROVE  Child(r)!ChildNext \/ UNCHANGED Child(r)!childVars
  <2>1. pc = "ensure" /\ UNCHANGED << cur, snap, cache >>
    BY <1>1 DEF EnsureResource, CreateResource, UpdateResource, ReplaceSelector, LeaveAlone,
                TurnOf, Ensured
  <2>2. CtrlTypeOK /\ ApiTypeOK
    BY <1>1 DEF TypeInv, TypeOK
  <2>3. cur \in Contours /\ Ns \in Namespaces /\ Ns' = Ns
    BY <2>1, <2>2, BusyType DEF Ns
  <2>4. ASSUME NEW o, Put(r, Ns, o) PROVE obj'[r][Ns] = o
    BY <2>2, <2>3, <2>4 DEF Put, ApiTypeOK, ClusterTypeOK
  <2>5. /\ LookOf(r, obj[r][Ns])' = LookOf(r, obj'[r][Ns])
        /\ LookOf(r, cache[r][Ns])' = LookOf(r, cache[r][Ns])
    BY <2>1, <2>3 DEF LookOf, OwnedBy, SelectorStale, Desired
  <2>6. LookOf(r, Desired(r, cur, snap.spec)) = "wanted" /\ LookOf(r, None) = "absent"
    BY <2>1, <2>2, DesiredLook DEF LookOf, OwnedBy
  <2>7. UNCHANGED budget["tampers"]
    BY <1>1, <2>2, SufferTampers
       DEF EnsureResource, CreateResource, UpdateResource, ReplaceSelector, LeaveAlone, ApiTypeOK
  <2>8. CASE UNCHANGED obj
    BY <2>1, <2>3, <2>5, <2>7, <2>8 DEF Child!childVars
  <2>9. ASSUME NEW outcome \in Outcomes, CreateResource(r, outcome), ~UNCHANGED obj
        PROVE  Child(r)!Create
    <3>1. /\ obj[r][Ns] = None /\ cache[r][Ns] = None
          /\ obj'[r][Ns] = Desired(r, cur, snap.spec)
      BY <2>4, <2>9 DEF CreateResource, CreateAccepted
    <3>. QED BY <2>5, <2>6, <2>7, <3>1 DEF Child!Create
  <2>10. ASSUME NEW outcome \in Outcomes, UpdateResource(r, outcome), ~UNCHANGED obj
         PROVE  Child(r)!Update
    <3>1. /\ r # "job" /\ obj[r][Ns] # None
          /\ r \in ConditionalUpdate => obj[r][Ns] = cache[r][Ns]
          /\ OwnedBy(cache[r][Ns], cur) /\ ~SelectorStale(r, cache[r][Ns])
          /\ Differs(r, cache[r][Ns])
          /\ obj'[r][Ns] = Desired(r, cur, snap.spec)
      BY <2>4, <2>10 DEF UpdateResource, UpdateAccepted
    <3>2. LookOf(r, cache[r][Ns]) = "drifted"
          \/ (LookOf(r, cache[r][Ns]) = "wanted" /\ r = "namespace")
      BY <3>1 DEF LookOf, OwnedBy, Differs
    <3>3. LookOf(r, obj[r][Ns]) # "absent"
      BY <3>1 DEF LookOf
    <3>. QED BY <2>5, <2>6, <2>7, <3>1, <3>2, <3>3
         DEF Child!Update, Child!ConditionalUpdate, ConditionalUpdate
  <2>11. ASSUME NEW outcome \in Outcomes, ReplaceSelector(r, outcome), ~UNCHANGED obj
         PROVE  Child(r)!Replace
    <3>1. /\ OwnedBy(cache[r][Ns], cur) /\ SelectorStale(r, cache[r][Ns])
          /\ obj'[r][Ns] = None
      BY <2>4, <2>11 DEF ReplaceSelector
    <3>2. LookOf(r, cache[r][Ns]) = "oldSelector" /\ r \in SelectorKinds
      BY <3>1 DEF LookOf, OwnedBy, SelectorStale
    <3>. QED BY <2>5, <2>6, <2>7, <3>1, <3>2
         DEF Child!Replace, Child!SelectorKinds, SelectorKinds
  <2>. QED BY <1>1, <2>8, <2>9, <2>10, <2>11 DEF EnsureResource, LeaveAlone, Child!ChildNext
<1>2. TypeInv /\ [Next]_vars =>
        [ \A r \in Managed :
            EnsureResource(r) => Child(r)!ChildNext \/ UNCHANGED Child(r)!childVars ]_vars
  BY <1>1
<1>. QED BY <1>2, TypeInvariance, PTL DEF SafetySpec, EnsuresAsChild

================================================================================
