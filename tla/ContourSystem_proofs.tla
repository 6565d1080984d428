--------------------------- MODULE ContourSystem_proofs ---------------------------
(***************************************************************************)
(* Proofs about ContourSystem, for every set of Contours, namespaces,      *)
(* resources and specs, and every budget of adversity.                     *)
(***************************************************************************)
EXTENDS ContourProperties, TLAPS

USE DEF BudgetKinds

----------------------------------------------------------------------------
(* Lemmas about the operators the actions are built from. *)

\* A step that charges the budget leaves numbers in it.
LEMMA SpendType ==
  ASSUME BudgetTypeOK, NEW kind \in BudgetKinds, Spend(kind)
  PROVE  BudgetTypeOK'
BY DEF BudgetTypeOK, Spend

\* A fault that is suffered or not leaves numbers in the budget.
LEMMA SufferType ==
  ASSUME BudgetTypeOK, NEW outcome, Suffer(outcome)
  PROVE  BudgetTypeOK'
<1>1. CASE outcome = "served"
  BY <1>1 DEF Suffer, BudgetTypeOK
<1>2. CASE outcome # "served"
  BY <1>2, SpendType DEF Suffer
<1>. QED BY <1>1, <1>2

\* A write of one object, or of none, leaves objects in the cluster.
LEMMA PutType ==
  ASSUME ClusterTypeOK, NEW r \in Managed, NEW n \in Namespaces,
         NEW o \in Objects \cup {None}, Put(r, n, o)
  PROVE  obj' \in [Managed -> [Namespaces -> Objects \cup {None}]]
BY DEF ClusterTypeOK, Put

\* The builders build objects.
LEMMA DesiredType ==
  ASSUME NEW r, NEW c \in Contours, NEW s \in Specs
  PROVE  Desired(r, c, s) \in Objects
BY SpecsAssumption DEF Desired, Objects, Contents

\* The end of a pass leaves the worker idle with a proper queue.
LEMMA FinishType ==
  ASSUME CtrlTypeOK, cur \in Contours, NEW failed, NEW events \in SUBSET Contours,
         Finish(failed, events)
  PROVE  CtrlTypeOK'
BY DEF Finish, Requeue, CtrlTypeOK, WorkerStates

\* An event about Contours leaves the worker where it is.
LEMMA NotifyType ==
  ASSUME CtrlTypeOK, NEW cs \in SUBSET Contours, Notify(cs)
  PROVE  CtrlTypeOK'
BY DEF Notify, CtrlTypeOK, WorkerStates, Snapshots

\* Contours that leave the API server leave nothing of themselves.
LEMMA VanishType ==
  ASSUME ContoursTypeOK, NEW D \in SUBSET Contours, Vanish(D)
  PROVE  ContoursTypeOK'
<1>1. /\ phase' \in [Contours -> {"absent", "live", "deleting"}]
      /\ finalized' \in [Contours -> BOOLEAN]
      /\ status' \in [Contours -> {"unset", "unavailable", "reported"}]
  BY DEF Vanish, ContoursTypeOK
<1>2. spec' \in [Contours -> Specs]
  BY SpecsAssumption DEF Vanish, ContoursTypeOK
<1>3. PhaseOK'
  BY DEF Vanish, ContoursTypeOK, PhaseOK
<1>. QED BY <1>1, <1>2, <1>3 DEF ContoursTypeOK

\* A worker that is neither idle nor down has a Contour and a copy of it.
LEMMA BusyType ==
  ASSUME CtrlTypeOK, pc \notin {"idle", "down"}
  PROVE  /\ cur \in Contours /\ snap \in Snapshots
         /\ snap.spec \in Specs /\ Ns \in Namespaces
BY SpecsAssumption DEF CtrlTypeOK, Snapshots, Ns

\* What is left to ensure is a part of what was.
LEMMA RemainingType ==
  ASSUME CtrlTypeOK, NEW r, NEW failed
  PROVE  Remaining(r, failed) \subseteq Managed
BY DEF CtrlTypeOK, Remaining

\* The bookkeeping after a resource is ensured.
LEMMA EnsuredType ==
  ASSUME ContoursTypeOK, CtrlTypeOK, pc = "ensure", NEW r, NEW failed \in BOOLEAN,
         Ensured(r, failed)
  PROVE  /\ ContoursTypeOK' /\ CtrlTypeOK'
         /\ UNCHANGED << terminating, cache >>
<1>1. ContoursTypeOK' /\ UNCHANGED << terminating, cache >>
  BY DEF Ensured, contourVars, ContoursTypeOK, PhaseOK
<1>2. todo' \subseteq Managed
  BY RemainingType DEF Ensured
<1>3. pc' \in {"ensure", "status"} /\ errs' \in BOOLEAN /\ UNCHANGED << queue, cur, snap, fresh >>
  BY DEF Ensured, CtrlTypeOK
<1>4. CtrlTypeOK'
  BY <1>2, <1>3 DEF CtrlTypeOK, WorkerStates, Snapshots
<1>. QED BY <1>1, <1>4

----------------------------------------------------------------------------
(* Every step of the environment keeps the types. *)

\* Users, whatever they do to Contours and child objects.
LEMMA UsersType ==
  ASSUME TypeOK, Users
  PROVE  TypeOK'
<1>. USE DEF TypeOK, ApiTypeOK
<1>1. ASSUME NEW c \in Contours, UserCreates(c)
      PROVE  TypeOK'
  <2>1. BudgetTypeOK'
    BY <1>1, SpendType DEF UserCreates
  <2>2. ContoursTypeOK' /\ ClusterTypeOK'
    BY <1>1 DEF UserCreates, ContoursTypeOK, PhaseOK, ClusterTypeOK, clusterVars, Exists
  <2>3. CtrlTypeOK'
    BY <1>1, NotifyType DEF UserCreates
  <2>. QED BY <2>1, <2>2, <2>3
<1>2. ASSUME NEW c \in Contours, NEW s \in Specs, UserEdits(c, s)
      PROVE  TypeOK'
  <2>1. BudgetTypeOK'
    BY <1>2, SpendType DEF UserEdits
  <2>2. ContoursTypeOK' /\ ClusterTypeOK'
    BY <1>2 DEF UserEdits, ContoursTypeOK, PhaseOK, ClusterTypeOK, clusterVars
  <2>3. CtrlTypeOK'
    BY <1>2, NotifyType DEF UserEdits
  <2>. QED BY <2>1, <2>2, <2>3
<1>3. ASSUME NEW c \in Contours, UserDeletes(c)
      PROVE  TypeOK'
  <2>1. BudgetTypeOK' /\ ClusterTypeOK'
    BY <1>3 DEF UserDeletes, BudgetTypeOK, ClusterTypeOK, clusterVars
  <2>2. ContoursTypeOK'
    <3>1. CASE finalized[c]
      BY <1>3, <3>1 DEF UserDeletes, ContoursTypeOK, PhaseOK
    <3>2. CASE ~finalized[c]
      BY <1>3, <3>2, VanishType DEF UserDeletes
    <3>. QED BY <3>1, <3>2
  <2>3. CtrlTypeOK'
    BY <1>3, NotifyType DEF UserDeletes
  <2>. QED BY <2>1, <2>2, <2>3
<1>4. ASSUME NEW c \in Contours, UserStripsFinalizer(c)
      PROVE  TypeOK'
  <2>1. BudgetTypeOK'
    BY <1>4, SpendType DEF UserStripsFinalizer
  <2>2. ClusterTypeOK'
    BY <1>4 DEF UserStripsFinalizer, ClusterTypeOK, clusterVars
  <2>3. ContoursTypeOK'
    <3>1. CASE phase[c] = "deleting"
      BY <1>4, <3>1, VanishType DEF UserStripsFinalizer
    <3>2. CASE phase[c] # "deleting"
      BY <1>4, <3>2 DEF UserStripsFinalizer, ContoursTypeOK, PhaseOK
    <3>. QED BY <3>1, <3>2
  <2>4. CtrlTypeOK'
    BY <1>4, NotifyType DEF UserStripsFinalizer
  <2>. QED BY <2>1, <2>2, <2>3, <2>4
<1>5. ASSUME NEW r \in Tamperable, NEW n \in Namespaces, Tamper(r, n)
      PROVE  TypeOK'
  <2>1. BudgetTypeOK'
    BY <1>5, SpendType DEF Tamper
  <2>2. r \in Managed
    BY EnvironmentAssumption
  <2>3. obj[r][n].owner \in Contours
    BY <1>5 DEF Tamper
  <2>4. \E o \in Objects \cup {None} : Put(r, n, o)
    BY <1>5, <2>3 DEF Tamper, Objects, Contents
  <2>5. ClusterTypeOK'
    BY <1>5, <2>2, <2>4, PutType DEF Tamper, ClusterTypeOK
  <2>6. ContoursTypeOK' /\ CtrlTypeOK'
    BY <1>5 DEF Tamper, contourVars, workerVars, ContoursTypeOK, PhaseOK, CtrlTypeOK, WorkerStates, Snapshots
  <2>. QED BY <2>1, <2>5, <2>6
<1>. QED BY <1>1, <1>2, <1>3, <1>4, <1>5 DEF Users

\* The namespace controller, the Job's end, the informers and the resync.
LEMMA KubernetesType ==
  ASSUME TypeOK, Kubernetes
  PROVE  TypeOK'
<1>. USE DEF TypeOK, ApiTypeOK
<1>1. ASSUME NEW n \in Namespaces, JobFinishes(n)
      PROVE  TypeOK'
  <2>1. ClusterTypeOK'
    BY <1>1, PutType DEF JobFinishes, ClusterTypeOK
  <2>2. ContoursTypeOK' /\ BudgetTypeOK' /\ CtrlTypeOK'
    BY <1>1 DEF JobFinishes, contourVars, workerVars, ContoursTypeOK, PhaseOK, BudgetTypeOK, CtrlTypeOK,
                WorkerStates, Snapshots
  <2>. QED BY <2>1, <2>2
<1>2. ASSUME NEW n \in Namespaces, DrainNamespace(n)
      PROVE  TypeOK'
  <2>1. ClusterTypeOK' /\ BudgetTypeOK'
    BY <1>2 DEF DrainNamespace, ClusterTypeOK, BudgetTypeOK
  <2>2. ContoursTypeOK'
    BY <1>2, SpecsAssumption DEF DrainNamespace, Residents, ContoursTypeOK, PhaseOK
  <2>3. CtrlTypeOK'
    <3>1. Notify({ c \in Residents(n) : phase[c] = "live" })
      BY <1>2 DEF DrainNamespace
    <3>2. { c \in Residents(n) : phase[c] = "live" } \subseteq Contours
      BY DEF Residents
    <3>. QED BY <3>1, <3>2, NotifyType
  <2>. QED BY <2>1, <2>2, <2>3
<1>3. ASSUME NEW n \in Namespaces, FinishNamespace(n)
      PROVE  TypeOK'
  <2>1. ClusterTypeOK'
    BY <1>3, PutType, ManagedAssumption DEF FinishNamespace, ClusterTypeOK
  <2>2. ContoursTypeOK' /\ BudgetTypeOK' /\ CtrlTypeOK'
    BY <1>3 DEF FinishNamespace, contourVars, workerVars, ContoursTypeOK, PhaseOK, BudgetTypeOK,
                CtrlTypeOK, WorkerStates, Snapshots
  <2>. QED BY <2>1, <2>2
<1>4. ASSUME NEW r \in Managed, NEW n \in Namespaces, Refresh(r, n)
      PROVE  TypeOK'
  <2>1. ClusterTypeOK' /\ ContoursTypeOK' /\ BudgetTypeOK'
    BY <1>4 DEF Refresh, clusterVars, contourVars, ClusterTypeOK, ContoursTypeOK, PhaseOK, BudgetTypeOK
  <2>2. queue' \subseteq Contours
    BY <1>4 DEF Refresh, OwnersOf, CtrlTypeOK
  <2>3. CtrlTypeOK'
    BY <1>4, <2>2 DEF Refresh, workerVars, CtrlTypeOK, WorkerStates, Snapshots
  <2>. QED BY <2>1, <2>3
<1>5. ASSUME Resync
      PROVE  TypeOK'
  BY <1>5 DEF Resync, clusterVars, contourVars, workerVars, ClusterTypeOK, ContoursTypeOK, PhaseOK,
              BudgetTypeOK, CtrlTypeOK, WorkerStates, Snapshots
<1>. QED BY <1>1, <1>2, <1>3, <1>4, <1>5 DEF Kubernetes

----------------------------------------------------------------------------
(* Every step of the operator keeps the types. *)

\* Taking a Contour from the queue.
LEMMA DequeueType ==
  ASSUME TypeOK, NEW c \in Contours, Dequeue(c)
  PROVE  TypeOK'
<1>. USE DEF TypeOK, ApiTypeOK
<1>1. CASE ReadFails(c)
  <2>1. BudgetTypeOK'
    BY <1>1, SpendType DEF ReadFails
  <2>. QED BY <1>1, <2>1 DEF ReadFails, contourVars, clusterVars, workerVars, ContoursTypeOK,
                  PhaseOK, ClusterTypeOK, CtrlTypeOK, WorkerStates, Snapshots
<1>2. CASE SkipAbsent(c)
  BY <1>2 DEF SkipAbsent, contourVars, clusterVars, workerVars, ContoursTypeOK, PhaseOK,
              ClusterTypeOK, BudgetTypeOK, CtrlTypeOK, WorkerStates, Snapshots
<1>3. CASE Start(c)
  <2>1. ContoursTypeOK' /\ ClusterTypeOK' /\ BudgetTypeOK'
    BY <1>3 DEF Start, contourVars, clusterVars, ContoursTypeOK, PhaseOK, ClusterTypeOK, BudgetTypeOK
  <2>2. snap' \in Snapshots
    BY <1>3 DEF Start, ContoursTypeOK, Snapshots
  <2>3. pc' \in {"validate", "delete"} /\ todo' \subseteq Managed
    BY <1>3 DEF Start
  <2>4. CtrlTypeOK'
    BY <1>3, <2>2, <2>3 DEF Start, CtrlTypeOK, WorkerStates
  <2>. QED BY <2>1, <2>4
<1>. QED BY <1>1, <1>2, <1>3 DEF Dequeue

\* Ensuring a resource writes at most one object, and moves on.
LEMMA EnsureResourceType ==
  ASSUME TypeOK, NEW r \in Managed,
         EnsureResource(r) \/ \E outcome \in Outcomes : RecreateJob(outcome)
  PROVE  TypeOK'
<1>. USE DEF TypeOK, ApiTypeOK
<1>1. ASSUME NEW q \in Managed, NEW failed \in BOOLEAN, NEW o \in Objects \cup {None},
             pc = "ensure", BudgetTypeOK', Ensured(q, failed),
             Put(q, Ns, o) \/ UNCHANGED obj
      PROVE  TypeOK'
  <2>1. Ns \in Namespaces
    BY <1>1, BusyType
  <2>2. ContoursTypeOK' /\ CtrlTypeOK' /\ UNCHANGED << terminating, cache >>
    BY <1>1, EnsuredType
  <2>3. ClusterTypeOK'
    <3>1. obj' \in [Managed -> [Namespaces -> Objects \cup {None}]]
      BY <1>1, <2>1, PutType DEF ClusterTypeOK
    <3>. QED BY <2>2, <3>1 DEF ClusterTypeOK
  <2>. QED BY <1>1, <2>2, <2>3
<1>2. ASSUME pc = "ensure"
      PROVE  \A q : Desired(q, cur, snap.spec) \in Objects
  BY <1>2, BusyType, DesiredType
<1>3. ASSUME NEW outcome \in Outcomes, CreateResource(r, outcome)
      PROVE  TypeOK'
  <2>1. pc = "ensure" /\ BudgetTypeOK'
    BY <1>3, SufferType DEF CreateResource, TurnOf
  <2>2. Put(r, Ns, Desired(r, cur, snap.spec)) \/ UNCHANGED obj
    BY <1>3 DEF CreateResource
  <2>3. \E failed \in BOOLEAN : Ensured(r, failed)
    BY <1>3 DEF CreateResource, CreateAccepted
  <2>. QED BY <1>1, <1>2, <2>1, <2>2, <2>3
<1>4. ASSUME NEW outcome \in Outcomes, UpdateResource(r, outcome)
      PROVE  TypeOK'
  <2>1. pc = "ensure" /\ BudgetTypeOK'
    BY <1>4, SufferType DEF UpdateResource, TurnOf
  <2>2. Put(r, Ns, Desired(r, cur, snap.spec)) \/ UNCHANGED obj
    BY <1>4 DEF UpdateResource
  <2>3. \E failed \in BOOLEAN : Ensured(r, failed)
    BY <1>4 DEF UpdateResource, UpdateAccepted
  <2>. QED BY <1>1, <1>2, <2>1, <2>2, <2>3
<1>5. ASSUME NEW outcome \in Outcomes, ReplaceSelector(r, outcome)
      PROVE  TypeOK'
  <2>1. pc = "ensure" /\ BudgetTypeOK'
    BY <1>5, SufferType DEF ReplaceSelector, TurnOf
  <2>2. Put(r, Ns, None) \/ UNCHANGED obj
    BY <1>5 DEF ReplaceSelector
  <2>3. Ensured(r, outcome # "served") /\ (outcome # "served") \in BOOLEAN
    BY <1>5 DEF ReplaceSelector
  <2>. QED BY <1>1, <2>1, <2>2, <2>3
<1>6. ASSUME LeaveAlone(r)
      PROVE  TypeOK'
  <2>1. pc = "ensure" /\ BudgetTypeOK' /\ UNCHANGED obj /\ Ensured(r, FALSE)
    BY <1>6 DEF LeaveAlone, TurnOf, BudgetTypeOK
  <2>. QED BY <1>1, <2>1
<1>7. ASSUME NEW outcome \in Outcomes, RecreateJob(outcome)
      PROVE  TypeOK'
  <2>1. pc = "ensure" /\ "job" \in Managed /\ BudgetTypeOK'
    BY <1>7, SufferType DEF RecreateJob, TurnOf, IsNext, CtrlTypeOK
  <2>2. \/ Put("job", Ns, Desired("job", cur, snap.spec))
        \/ Put("job", Ns, None)
        \/ UNCHANGED obj
    BY <1>7 DEF RecreateJob
  <2>3. \E failed \in BOOLEAN : Ensured("job", failed)
    BY <1>7 DEF RecreateJob
  <2>. QED BY <1>1, <1>2, <2>1, <2>2, <2>3
<1>. QED BY <1>3, <1>4, <1>5, <1>6, <1>7 DEF EnsureResource

\* A step inside a pass that stays in it: the worker goes to another state with
\* other resources to visit, and keeps the Contour and its copy.
LEMMA WithinPassType ==
  ASSUME CtrlTypeOK, pc \notin {"idle", "down"},
         pc' \in WorkerStates \ {"idle", "down"}, todo' \subseteq Managed, errs' \in BOOLEAN,
         UNCHANGED << queue, cur, snap, fresh >>
  PROVE  CtrlTypeOK'
BY DEF CtrlTypeOK, WorkerStates, Snapshots

\* The steps of a pass over a Contour that is to exist, but for the resources.
LEMMA PassType ==
  ASSUME TypeOK, NEW outcome \in Outcomes,
         FreshOK, Validate(outcome) \/ EnsureFinalizer(outcome) \/ SyncStatus(outcome)
  PROVE  TypeOK'
<1>. USE DEF TypeOK, ApiTypeOK
<1>1. CASE Validate(outcome)
  <2>1. BudgetTypeOK'
    BY <1>1, SufferType DEF Validate
  <2>2. ContoursTypeOK' /\ ClusterTypeOK'
    BY <1>1 DEF Validate, contourVars, clusterVars, ContoursTypeOK, PhaseOK, ClusterTypeOK
  <2>3. cur \in Contours
    BY <1>1, BusyType DEF Validate
  <2>4. CtrlTypeOK'
    <3>1. CASE Finish(TRUE, {})
      BY <3>1, <2>3, FinishType
    <3>2. CASE ~Finish(TRUE, {})
      <4>1. /\ pc' \in {"ensure", "finalize"} /\ todo' \subseteq Managed
            /\ UNCHANGED << queue, cur, snap, fresh, errs >>
        BY <1>1, <3>2 DEF Validate
      <4>. QED BY <1>1, <4>1, WithinPassType DEF Validate, WorkerStates, CtrlTypeOK
    <3>. QED BY <3>1, <3>2
  <2>. QED BY <2>1, <2>2, <2>4
<1>2. CASE EnsureFinalizer(outcome)
  <2>1. BudgetTypeOK' /\ ClusterTypeOK'
    BY <1>2, SufferType DEF EnsureFinalizer, clusterVars, ClusterTypeOK
  <2>2. cur \in Contours
    BY <1>2, BusyType DEF EnsureFinalizer
  <2>3. CtrlTypeOK'
    BY <1>2, <2>2, FinishType DEF EnsureFinalizer
  <2>4. ContoursTypeOK'
    BY <1>2, <2>2 DEF EnsureFinalizer, ContourUpdateAccepted, FreshOK, Exists, ContoursTypeOK, PhaseOK
  <2>. QED BY <2>1, <2>3, <2>4
<1>3. CASE SyncStatus(outcome)
  <2>1. BudgetTypeOK' /\ ClusterTypeOK'
    BY <1>3, SufferType DEF SyncStatus, clusterVars, ClusterTypeOK
  <2>2. cur \in Contours
    BY <1>3, BusyType DEF SyncStatus
  <2>3. CtrlTypeOK'
    <3>1. \E failed \in BOOLEAN, events \in SUBSET Contours : Finish(failed, events)
      BY <1>3, <2>2 DEF SyncStatus, CtrlTypeOK
    <3>. QED BY <3>1, <2>2, FinishType
  <2>4. ContoursTypeOK'
    <3>1. CASE UNCHANGED status
      BY <1>3, <3>1 DEF SyncStatus, ContoursTypeOK, PhaseOK
    <3>2. CASE ~UNCHANGED status
      <4>1. Exists(cur)
        BY <1>3, <3>2 DEF SyncStatus
      <4>2. \E says \in {"reported", "unavailable"} : status' = [status EXCEPT ![cur] = says]
        BY <1>3, <3>2 DEF SyncStatus, Merged
      <4>. QED BY <1>3, <2>2, <4>1, <4>2 DEF SyncStatus, Exists, ContoursTypeOK, PhaseOK
    <3>. QED BY <3>1, <3>2
  <2>. QED BY <2>1, <2>3, <2>4
<1>. QED BY <1>1, <1>2, <1>3

\* The steps of a pass over a Contour that is being deleted.
LEMMA DeletionType ==
  ASSUME TypeOK, NEW outcome \in Outcomes, NEW r \in Managed,
         \/ DeleteWorkload(r, outcome) \/ DeleteRBAC(r, outcome)
         \/ GatherNamespacedRBAC(outcome) \/ GatherClusterRBAC(outcome)
         \/ CheckNamespace(outcome) \/ DropNamespace(outcome) \/ Release(outcome)
  PROVE  TypeOK'
<1>. USE DEF TypeOK, ApiTypeOK
<1>1. CASE DeleteWorkload(r, outcome) \/ DeleteRBAC(r, outcome)
  <2>1. Ns \in Namespaces
    BY <1>1, BusyType DEF DeleteWorkload, DeleteRBAC
  <2>2. BudgetTypeOK'
    BY <1>1, SufferType DEF DeleteWorkload, DeleteRBAC, DeleteObject, BudgetTypeOK
  <2>3. ClusterTypeOK'
    <3>1. Put(r, Ns, None) \/ UNCHANGED obj
      BY <1>1 DEF DeleteWorkload, DeleteRBAC, DeleteObject
    <3>2. obj' \in [Managed -> [Namespaces -> Objects \cup {None}]]
      BY <2>1, <3>1, PutType DEF ClusterTypeOK
    <3>. QED BY <1>1, <3>2 DEF DeleteWorkload, DeleteRBAC, ClusterTypeOK
  <2>4. ContoursTypeOK'
    BY <1>1 DEF DeleteWorkload, DeleteRBAC, contourVars, ContoursTypeOK, PhaseOK
  <2>5. CtrlTypeOK'
    <3>1. /\ pc \in {"delete", "deleteRBAC"} /\ pc' = pc
          /\ UNCHANGED << queue, cur, snap, fresh >>
          /\ errs' \in BOOLEAN
      BY <1>1 DEF DeleteWorkload, DeleteRBAC, CtrlTypeOK
    <3>2. todo' \subseteq Managed
      BY <1>1 DEF DeleteWorkload, DeleteRBAC, CtrlTypeOK
    <3>. QED BY <3>1, <3>2, WithinPassType DEF WorkerStates
  <2>. QED BY <2>2, <2>3, <2>4, <2>5
<1>2. CASE GatherNamespacedRBAC(outcome) \/ GatherClusterRBAC(outcome)
  <2>1. BudgetTypeOK'
    BY <1>2, SufferType DEF GatherNamespacedRBAC, GatherClusterRBAC
  <2>2. ContoursTypeOK' /\ ClusterTypeOK'
    BY <1>2 DEF GatherNamespacedRBAC, GatherClusterRBAC, contourVars, clusterVars, ContoursTypeOK,
                PhaseOK, ClusterTypeOK
  <2>3. CtrlTypeOK'
    <3>1. /\ pc \notin {"idle", "down"} /\ pc' \in {"gatherCluster", "deleteRBAC", "namespace"}
          /\ UNCHANGED << queue, cur, snap, fresh >>
          /\ errs' \in BOOLEAN
      BY <1>2 DEF GatherNamespacedRBAC, GatherClusterRBAC, CtrlTypeOK
    <3>2. todo' \subseteq Managed
      BY <1>2 DEF GatherNamespacedRBAC, GatherClusterRBAC, CtrlTypeOK
    <3>. QED BY <3>1, <3>2, WithinPassType DEF WorkerStates
  <2>. QED BY <2>1, <2>2, <2>3
<1>3. CASE CheckNamespace(outcome) \/ DropNamespace(outcome)
  <2>1. BudgetTypeOK'
    BY <1>3, SufferType DEF CheckNamespace, DropNamespace
  <2>2. ContoursTypeOK'
    BY <1>3 DEF CheckNamespace, DropNamespace, contourVars, ContoursTypeOK, PhaseOK
  <2>3. Ns \in Namespaces
    BY <1>3, BusyType DEF CheckNamespace, DropNamespace
  <2>4. ClusterTypeOK'
    BY <1>3, <2>3 DEF CheckNamespace, DropNamespace, clusterVars, ClusterTypeOK
  <2>5. CtrlTypeOK'
    <3>1. /\ pc \notin {"idle", "down"} /\ pc' \in {"release", "dropNamespace"}
          /\ UNCHANGED << queue, cur, snap, fresh, todo >>
          /\ errs' \in BOOLEAN
      BY <1>3 DEF CheckNamespace, DropNamespace, CtrlTypeOK
    <3>. QED BY <3>1, WithinPassType DEF WorkerStates, CtrlTypeOK
  <2>. QED BY <2>1, <2>2, <2>4, <2>5
<1>4. CASE Release(outcome)
  <2>1. BudgetTypeOK' /\ ClusterTypeOK'
    BY <1>4, SufferType DEF Release, clusterVars, ClusterTypeOK
  <2>2. cur \in Contours
    BY <1>4, BusyType DEF Release
  <2>3. CtrlTypeOK'
    <3>1. \E failed \in BOOLEAN, events \in SUBSET Contours : Finish(failed, events)
      BY <1>4, <2>2 DEF Release
    <3>. QED BY <3>1, <2>2, FinishType
  <2>4. ContoursTypeOK'
    <3>1. CASE UNCHANGED contourVars
      BY <3>1 DEF contourVars, ContoursTypeOK, PhaseOK
    <3>2. CASE ~UNCHANGED contourVars
      <4>1. /\ phase' = [phase EXCEPT ![cur] = "absent"]
            /\ finalized' = [finalized EXCEPT ![cur] = FALSE]
            /\ spec' = [spec EXCEPT ![cur] = Manifest[cur]]
            /\ status' = [status EXCEPT ![cur] = "unset"]
        BY <1>4, <3>2 DEF Release
      <4>. QED BY <2>2, <4>1, SpecsAssumption DEF ContoursTypeOK, PhaseOK
    <3>. QED BY <3>1, <3>2
  <2>. QED BY <2>1, <2>3, <2>4
<1>. QED BY <1>1, <1>2, <1>3, <1>4

\* A crash and a restart.
LEMMA ProcessType ==
  ASSUME TypeOK, Crash \/ Restart
  PROVE  TypeOK'
<1>. USE DEF TypeOK, ApiTypeOK
<1>1. CASE Crash
  <2>1. BudgetTypeOK'
    BY <1>1, SpendType DEF Crash
  <2>2. ContoursTypeOK' /\ ClusterTypeOK' /\ CtrlTypeOK'
    BY <1>1 DEF Crash, contourVars, clusterVars, ContoursTypeOK, PhaseOK, ClusterTypeOK,
                CtrlTypeOK, WorkerStates
  <2>. QED BY <2>1, <2>2
<1>2. CASE Restart
  <2>1. ContoursTypeOK' /\ ClusterTypeOK' /\ BudgetTypeOK'
    BY <1>2 DEF Restart, contourVars, clusterVars, ContoursTypeOK, PhaseOK, ClusterTypeOK,
                BudgetTypeOK
  <2>2. queue' \subseteq Contours
    BY <1>2 DEF Restart, OwnersOf
  <2>3. CtrlTypeOK'
    BY <1>2, <2>2 DEF Restart, CtrlTypeOK, WorkerStates
  <2>. QED BY <2>1, <2>3
<1>. QED BY <1>1, <1>2

----------------------------------------------------------------------------
(* Type correctness. *)

\* TypeOK is not inductive by itself: EnsureFinalizer writes the Contour it read
\* at the start of the pass, and only FreshOK tells that it is still there.
TypeInv == TypeOK /\ FreshOK

\* The invariant holds at first: nothing exists and the worker is idle.
LEMMA InitTypeInv == Init => TypeInv
<1>. SUFFICES ASSUME Init PROVE TypeInv
  OBVIOUS
<1>. USE DEF Init, ApiInit, CtrlInit
<1>1. ContoursTypeOK /\ BudgetTypeOK
  BY SpecsAssumption, LimitsAssumption DEF ContoursTypeOK, PhaseOK, BudgetTypeOK
<1>2. ClusterTypeOK
  BY DEF ClusterTypeOK, Objects, Contents
<1>3. CtrlTypeOK /\ FreshOK
  BY DEF CtrlTypeOK, WorkerStates, FreshOK
<1>. QED BY <1>1, <1>2, <1>3 DEF TypeInv, TypeOK, ApiTypeOK

\* One step of the worker, from its types.
LEMMA WorkerType ==
  ASSUME TypeInv, WorkerStep
  PROVE  TypeOK'
<1>. USE DEF TypeInv
<1>1. ASSUME NEW r \in Managed, EnsureResource(r)
      PROVE  TypeOK'
  BY <1>1, EnsureResourceType
<1>2. ASSUME NEW outcome \in Outcomes,
             Validate(outcome) \/ EnsureFinalizer(outcome) \/ SyncStatus(outcome)
      PROVE  TypeOK'
  BY <1>2, PassType
<1>3. ASSUME NEW outcome \in Outcomes, RecreateJob(outcome)
      PROVE  TypeOK'
  BY <1>3, EnsureResourceType, ManagedAssumption
<1>4. ASSUME NEW outcome \in Outcomes, NEW r \in Managed,
             DeleteWorkload(r, outcome) \/ DeleteRBAC(r, outcome)
      PROVE  TypeOK'
  BY <1>4, DeletionType
<1>5. ASSUME NEW outcome \in Outcomes,
             \/ GatherNamespacedRBAC(outcome) \/ GatherClusterRBAC(outcome)
             \/ CheckNamespace(outcome) \/ DropNamespace(outcome) \/ Release(outcome)
      PROVE  TypeOK'
  BY <1>5, DeletionType, ManagedAssumption
<1>. QED BY <1>1, <1>2, <1>3, <1>4, <1>5 DEF WorkerStep

\* A step of the worker keeps its copy of the Contour, or ends the pass.
LEMMA WorkerKeepsCopy ==
  ASSUME WorkerStep
  PROVE  \/ pc' = "idle" /\ fresh' = FALSE
         \/ UNCHANGED << cur, snap, fresh, phase, finalized >>
<1>1. ASSUME NEW r \in Managed, EnsureResource(r)
      PROVE  UNCHANGED << cur, snap, fresh, phase, finalized >>
  BY <1>1 DEF EnsureResource, CreateResource, UpdateResource, ReplaceSelector, LeaveAlone, Ensured,
              contourVars
<1>2. ASSUME NEW outcome \in Outcomes, RecreateJob(outcome)
      PROVE  UNCHANGED << cur, snap, fresh, phase, finalized >>
  BY <1>2 DEF RecreateJob, Ensured, contourVars
<1>3. ASSUME NEW outcome \in Outcomes,
             Validate(outcome) \/ EnsureFinalizer(outcome) \/ SyncStatus(outcome)
      PROVE  \/ pc' = "idle" /\ fresh' = FALSE
             \/ UNCHANGED << cur, snap, fresh, phase, finalized >>
  BY <1>3 DEF Validate, EnsureFinalizer, SyncStatus, Finish, contourVars
<1>4. ASSUME NEW outcome \in Outcomes, NEW r \in Managed,
             DeleteWorkload(r, outcome) \/ DeleteRBAC(r, outcome)
      PROVE  UNCHANGED << cur, snap, fresh, phase, finalized >>
  BY <1>4 DEF DeleteWorkload, DeleteRBAC, contourVars
<1>5. ASSUME NEW outcome \in Outcomes,
             \/ GatherNamespacedRBAC(outcome) \/ GatherClusterRBAC(outcome)
             \/ CheckNamespace(outcome) \/ DropNamespace(outcome)
      PROVE  UNCHANGED << cur, snap, fresh, phase, finalized >>
  BY <1>5 DEF GatherNamespacedRBAC, GatherClusterRBAC, CheckNamespace, DropNamespace, contourVars
<1>6. ASSUME NEW outcome \in Outcomes, Release(outcome)
      PROVE  pc' = "idle" /\ fresh' = FALSE
  BY <1>6 DEF Release, Finish
<1>. QED BY <1>1, <1>2, <1>3, <1>4, <1>5, <1>6 DEF WorkerStep

\* Whoever writes a Contour outdates the worker's copy of it.
LEMMA NextFresh ==
  ASSUME TypeInv, Next
  PROVE  FreshOK'
<1>. USE DEF FreshOK, Exists, TypeInv
<1>1. CASE Users
  <2>1. ASSUME NEW c \in Contours,
               UserCreates(c) \/ UserDeletes(c) \/ UserStripsFinalizer(c)
                 \/ \E s \in Specs : UserEdits(c, s)
        PROVE  FreshOK'
    <3>1. Notify({c})
      BY <2>1 DEF UserCreates, UserDeletes, UserStripsFinalizer, UserEdits
    <3>2. \A d \in Contours \ {c} : phase'[d] = phase[d]
      BY <2>1 DEF UserCreates, UserDeletes, UserStripsFinalizer, UserEdits, Vanish, TypeOK,
                  ApiTypeOK, ContoursTypeOK
    <3>. QED BY <3>1, <3>2 DEF Notify
  <2>2. ASSUME NEW r \in Tamperable, NEW n \in Namespaces, Tamper(r, n)
        PROVE  FreshOK'
    BY <2>2 DEF Tamper, workerVars, contourVars
  <2>. QED BY <1>1, <2>1, <2>2 DEF Users
<1>2. CASE Kubernetes
  <2>1. ASSUME NEW n \in Namespaces, DrainNamespace(n)
        PROVE  FreshOK'
    <3>. DEFINE doomed == { c \in Residents(n) : phase[c] = "live" }
    <3>1. Notify(doomed)
      BY <2>1 DEF DrainNamespace
    <3>2. \A d \in Contours \ doomed : phase'[d] = phase[d]
      BY <2>1 DEF DrainNamespace
    <3>. QED BY <3>1, <3>2 DEF Notify
  <2>2. ASSUME \/ \E n \in Namespaces : JobFinishes(n) \/ FinishNamespace(n)
               \/ \E r \in Managed, n \in Namespaces : Refresh(r, n)
               \/ Resync
        PROVE  FreshOK'
    BY <2>2 DEF JobFinishes, FinishNamespace, Refresh, Resync, workerVars, contourVars
  <2>. QED BY <1>2, <2>1, <2>2 DEF Kubernetes
<1>3. CASE Operator
  <2>1. CASE WorkerStep
    BY <2>1, WorkerKeepsCopy
  <2>2. ASSUME NEW c \in Contours, Dequeue(c)
        PROVE  FreshOK'
    BY <2>2 DEF Dequeue, ReadFails, SkipAbsent, Start, workerVars, contourVars
  <2>3. CASE Crash
    BY <2>3 DEF Crash
  <2>4. CASE Restart
    BY <2>4 DEF Restart, contourVars
  <2>. QED BY <1>3, <2>1, <2>2, <2>3, <2>4 DEF Operator
<1>. QED BY <1>1, <1>2, <1>3 DEF Next

\* Every step, or none, keeps the types and the freshness of the copy.
LEMMA NextTypeInv == TypeInv /\ [Next]_vars => TypeInv'
<1>. SUFFICES ASSUME TypeInv, [Next]_vars PROVE TypeInv'
  OBVIOUS
<1>1. CASE Next
  <2>1. TypeOK'
    <3>1. CASE Users
      BY <3>1, UsersType DEF TypeInv
    <3>2. CASE Kubernetes
      BY <3>2, KubernetesType DEF TypeInv
    <3>3. CASE Operator
      <4>1. ASSUME NEW c \in Contours, Dequeue(c)
            PROVE  TypeOK'
        BY <4>1, DequeueType DEF TypeInv
      <4>2. CASE WorkerStep
        BY <4>2, WorkerType
      <4>3. CASE Crash \/ Restart
        BY <4>3, ProcessType DEF TypeInv
      <4>. QED BY <3>3, <4>1, <4>2, <4>3 DEF Operator
    <3>. QED BY <1>1, <3>1, <3>2, <3>3 DEF Next
  <2>2. FreshOK'
    BY <1>1, NextFresh
  <2>. QED BY <2>1, <2>2 DEF TypeInv
<1>2. CASE UNCHANGED vars
  BY <1>2 DEF vars, TypeInv, TypeOK, ApiTypeOK, ContoursTypeOK, PhaseOK, ClusterTypeOK, BudgetTypeOK,
              CtrlTypeOK, WorkerStates, Snapshots, FreshOK, Exists
<1>. QED BY <1>1, <1>2

\* The invariant holds throughout.
LEMMA TypeInvariance == SafetySpec => []TypeInv
BY InitTypeInv, NextTypeInv, PTL DEF SafetySpec

\* Every variable keeps its type, in particular: an absent Contour has neither
\* finalizer nor status, and one that is being deleted has the finalizer. An
\* operator that wrote a Contour without its resourceVersion would break it.
THEOREM TypeCorrectness == SafetySpec => []TypeOK
BY TypeInvariance, PTL DEF TypeInv

----------------------------------------------------------------------------
(* Objects are created only under the finalizer. *)

\* Nobody strips finalizers.
NoStrips == budget["strips"] = 0

\* The inductive invariant: without strips only Release takes a finalizer off, and it
\* ends the pass.
ClaimInv == TypeInv /\ NoStrips /\ ClaimHolds

\* No step gives budget back.
LEMMA NextNoStrips ==
  ASSUME TypeInv, NoStrips, Next
  PROVE  NoStrips'
<1>. USE DEF NoStrips, TypeInv, TypeOK, ApiTypeOK, BudgetTypeOK, Spend, Suffer
<1>1. CASE Users
  <2>1. \A kind \in BudgetKinds : Spend(kind) => NoStrips'
    OBVIOUS
  <2>2. ASSUME NEW c \in Contours, UserDeletes(c)
        PROVE  NoStrips'
    BY <2>2 DEF UserDeletes
  <2>3. ASSUME \/ \E c \in Contours : \/ UserCreates(c) \/ UserStripsFinalizer(c)
                                     \/ \E s \in Specs : UserEdits(c, s)
               \/ \E r \in Tamperable, n \in Namespaces : Tamper(r, n)
        PROVE  \E kind \in BudgetKinds : Spend(kind)
    BY <2>3, Zenon DEF UserCreates, UserEdits, UserStripsFinalizer, Tamper
  <2>. QED BY <1>1, <2>1, <2>2, <2>3 DEF Users
<1>2. CASE Kubernetes
  BY <1>2 DEF Kubernetes, JobFinishes, DrainNamespace, FinishNamespace, Refresh, Resync
<1>3. CASE WorkerStep
  <2>1. \A outcome \in Outcomes : Suffer(outcome) => NoStrips'
    OBVIOUS
  <2>2. ASSUME NEW r \in Managed, EnsureResource(r)
        PROVE  NoStrips'
    BY <2>1, <2>2 DEF EnsureResource, CreateResource, UpdateResource, ReplaceSelector, LeaveAlone
  <2>3. ASSUME NEW outcome \in Outcomes,
               \/ Validate(outcome) \/ EnsureFinalizer(outcome) \/ RecreateJob(outcome)
               \/ SyncStatus(outcome) \/ GatherNamespacedRBAC(outcome)
               \/ GatherClusterRBAC(outcome) \/ CheckNamespace(outcome)
               \/ DropNamespace(outcome) \/ Release(outcome)
        PROVE  NoStrips'
    BY <2>1, <2>3 DEF Validate, EnsureFinalizer, RecreateJob, SyncStatus, GatherNamespacedRBAC,
                      GatherClusterRBAC, CheckNamespace, DropNamespace, Release
  <2>4. ASSUME NEW outcome \in Outcomes, NEW r \in Managed,
               DeleteWorkload(r, outcome) \/ DeleteRBAC(r, outcome)
        PROVE  NoStrips'
    BY <2>1, <2>4 DEF DeleteWorkload, DeleteRBAC, DeleteObject
  <2>. QED BY <1>3, <2>2, <2>3, <2>4 DEF WorkerStep
<1>4. CASE (\E c \in Contours : Dequeue(c)) \/ Crash \/ Restart
  BY <1>4 DEF Dequeue, ReadFails, SkipAbsent, Start, Crash, Restart
<1>. QED BY <1>1, <1>2, <1>3, <1>4 DEF Next, Operator

\* Users and the namespace controller never take the finalizer off, as long as
\* there are no strips.
LEMMA OthersKeepFinalizers ==
  ASSUME TypeInv, NoStrips, Users \/ Kubernetes
  PROVE  /\ UNCHANGED << pc, cur, snap >>
         /\ \A c \in Contours : finalized[c] => finalized'[c]
<1>. USE DEF TypeInv, TypeOK, ApiTypeOK, ContoursTypeOK
<1>1. ASSUME NEW c \in Contours, UserDeletes(c)
      PROVE  /\ UNCHANGED << pc, cur, snap >>
             /\ \A d \in Contours : finalized[d] => finalized'[d]
  BY <1>1 DEF UserDeletes, Vanish, Notify
<1>2. ASSUME NEW c \in Contours, UserStripsFinalizer(c)
      PROVE  FALSE
  BY <1>2 DEF UserStripsFinalizer, Spend, NoStrips
<1>3. ASSUME \/ \E c \in Contours : UserCreates(c) \/ \E s \in Specs : UserEdits(c, s)
             \/ \E r \in Tamperable, n \in Namespaces : Tamper(r, n)
      PROVE  UNCHANGED << pc, cur, snap, finalized >>
  BY <1>3 DEF UserCreates, UserEdits, Tamper, Notify, contourVars, workerVars
<1>4. ASSUME Kubernetes
      PROVE  UNCHANGED << pc, cur, snap, finalized >>
  BY <1>4 DEF Kubernetes, JobFinishes, DrainNamespace, FinishNamespace, Refresh, Resync, Notify,
              contourVars, workerVars
<1>. QED BY <1>1, <1>2, <1>3, <1>4 DEF Users

\* A step of the worker reaches ensureContour only from a copy with the finalizer.
LEMMA WorkerEnsuresFinalized ==
  ASSUME TypeInv, ClaimHolds, WorkerStep, Ensuring'
  PROVE  snap.finalized
<1>. USE DEF Ensuring, IsFinalized
<1>1. ASSUME NEW r \in Managed, EnsureResource(r)
      PROVE  pc = "ensure"
  BY <1>1 DEF EnsureResource, CreateResource, UpdateResource, ReplaceSelector, LeaveAlone, TurnOf
<1>2. ASSUME NEW outcome \in Outcomes, RecreateJob(outcome)
      PROVE  pc = "ensure"
  BY <1>2 DEF RecreateJob, TurnOf
<1>3. ASSUME NEW outcome \in Outcomes, Validate(outcome)
      PROVE  snap.finalized
  BY <1>3 DEF Validate, Finish
<1>4. ASSUME NEW outcome \in Outcomes,
             \/ EnsureFinalizer(outcome) \/ SyncStatus(outcome) \/ GatherNamespacedRBAC(outcome)
             \/ GatherClusterRBAC(outcome) \/ CheckNamespace(outcome)
             \/ DropNamespace(outcome) \/ Release(outcome)
             \/ \E r \in Managed : DeleteWorkload(r, outcome) \/ DeleteRBAC(r, outcome)
      PROVE  FALSE
  BY <1>4 DEF EnsureFinalizer, SyncStatus, GatherNamespacedRBAC, GatherClusterRBAC, CheckNamespace,
              DropNamespace, Release, DeleteWorkload, DeleteRBAC, Finish
<1>. QED BY <1>1, <1>2, <1>3, <1>4 DEF WorkerStep, ClaimHolds

\* Every step keeps a finalizer that the worker has read.
LEMMA NextClaimHolds ==
  ASSUME ClaimInv, Next
  PROVE  ClaimHolds'
<1>. USE DEF ClaimInv
<1>1. CASE Users \/ Kubernetes
  <2>1. pc \notin {"idle", "down"} => cur \in Contours
    BY DEF TypeInv, TypeOK, CtrlTypeOK
  <2>2. /\ UNCHANGED << pc, cur, snap >>
        /\ \A c \in Contours : finalized[c] => finalized'[c]
    BY <1>1, OthersKeepFinalizers
  <2>. QED BY <2>1, <2>2 DEF ClaimHolds, Ensuring
<1>2. CASE WorkerStep
  <2>1. CASE pc' = "idle"
    BY <2>1 DEF ClaimHolds, Ensuring
  <2>2. CASE pc' # "idle"
    <3>1. UNCHANGED << cur, snap, finalized >>
      BY <1>2, <2>2, WorkerKeepsCopy
    <3>2. pc \notin {"idle", "down"}
      BY <1>2 DEF WorkerStep, EnsureResource, CreateResource, UpdateResource, ReplaceSelector,
                  LeaveAlone, RecreateJob, TurnOf, Validate, EnsureFinalizer, SyncStatus,
                  GatherNamespacedRBAC, GatherClusterRBAC, CheckNamespace, DropNamespace, Release,
                  DeleteWorkload, DeleteRBAC
    <3>3. Ensuring' => snap.finalized
      BY <1>2, WorkerEnsuresFinalized
    <3>. QED BY <3>1, <3>2, <3>3 DEF ClaimHolds
  <2>. QED BY <2>1, <2>2
<1>3. ASSUME NEW c \in Contours, Dequeue(c)
      PROVE  ClaimHolds'
  <2>1. CASE ReadFails(c) \/ SkipAbsent(c)
    BY <2>1 DEF ReadFails, SkipAbsent, workerVars, contourVars, ClaimHolds, Ensuring
  <2>2. CASE Start(c)
    BY <2>2 DEF Start, contourVars, ClaimHolds, Ensuring
  <2>. QED BY <1>3, <2>1, <2>2 DEF Dequeue
<1>4. CASE Crash \/ Restart
  BY <1>4 DEF Crash, Restart, ClaimHolds, Ensuring
<1>. QED BY <1>1, <1>2, <1>3, <1>4 DEF Next, Operator

\* The invariant of claims holds at first.
LEMMA InitClaimInv == Limits["strips"] = 0 /\ Init => ClaimInv
BY InitTypeInv DEF ClaimInv, NoStrips, ClaimHolds, Ensuring, Init, ApiInit, CtrlInit

\* Every step, or none, keeps it.
LEMMA NextClaimInv == ClaimInv /\ [Next]_vars => ClaimInv'
<1>. SUFFICES ASSUME ClaimInv, [Next]_vars PROVE ClaimInv'
  OBVIOUS
<1>1. TypeInv'
  BY NextTypeInv DEF ClaimInv
<1>2. CASE Next
  BY <1>1, <1>2, NextNoStrips, NextClaimHolds DEF ClaimInv
<1>3. CASE UNCHANGED vars
  BY <1>1, <1>3 DEF vars, ClaimInv, NoStrips, ClaimHolds, Ensuring
<1>. QED BY <1>2, <1>3

\* From its start to its end a pass that read a finalizer can count on it, and only
\* such a pass ensures anything, whatever users, failures and crashes do meanwhile.
THEOREM ClaimCorrectness ==
  ASSUME Limits["strips"] = 0
  PROVE  SafetySpec => []ClaimHolds
<1>1. Init => ClaimInv
  BY InitClaimInv
<1>2. ClaimInv => ClaimHolds
  BY DEF ClaimInv
<1>. QED BY <1>1, <1>2, NextClaimInv, PTL DEF SafetySpec

\* The only steps after which an object bears the labels of a Contour it did not
\* bear before are those of ensureContour.
LEMMA OnlyEnsureCreates ==
  ASSUME TypeInv, [Next]_vars, NEW r \in Managed, NEW n \in Namespaces, NEW c \in Contours,
         OwnedBy(obj[r][n]', c), ~OwnedBy(obj[r][n], c)
  PROVE  pc = "ensure" /\ c = cur
<1>. USE DEF TypeInv, TypeOK, ApiTypeOK, ClusterTypeOK, OwnedBy
<1>0. None \notin Objects
  BY NoneAssumption
<1>1. ~UNCHANGED obj
  OBVIOUS
<1>2. ASSUME NEW q \in Managed, NEW m \in Namespaces, Put(q, m, None)
      PROVE  FALSE
  BY <1>0, <1>2 DEF Put
<1>3. ~Users
  <2>1. ASSUME NEW q \in Tamperable, NEW m \in Namespaces, Tamper(q, m)
        PROVE  FALSE
    <3>1. q \in Managed
      BY EnvironmentAssumption
    <3>2. obj[q][m] # None
      BY <2>1 DEF Tamper
    <3>3. ASSUME NEW o, Put(q, m, o), o.owner = Foreign \/ o.owner = obj[q][m].owner
          PROVE  FALSE
      <4>1. CASE r = q /\ n = m
        <5>1. obj'[r][n] = o
          BY <3>1, <3>3, <4>1 DEF Put
        <5>. QED BY <3>2, <3>3, <4>1, <5>1, NamesAssumption
      <4>2. CASE ~(r = q /\ n = m)
        BY <3>1, <3>3, <4>2 DEF Put
      <4>. QED BY <4>1, <4>2
    <3>4. \/ Put(q, m, None)
          \/ Put(q, m, [owner |-> obj[q][m].owner, content |-> "drifted"])
          \/ Put(q, m, [owner |-> Foreign, content |-> "drifted"])
          \/ Put(q, m, [owner |-> obj[q][m].owner, content |-> "oldSelector"])
      BY <2>1 DEF Tamper, Put
    <3>5. CASE Put(q, m, None)
      BY <1>2, <3>1, <3>5
    <3>6. CASE Put(q, m, [owner |-> obj[q][m].owner, content |-> "drifted"])
      BY <3>3, <3>6
    <3>7. CASE Put(q, m, [owner |-> Foreign, content |-> "drifted"])
      BY <3>3, <3>7
    <3>8. CASE Put(q, m, [owner |-> obj[q][m].owner, content |-> "oldSelector"])
      BY <3>3, <3>8
    <3>. QED BY <3>4, <3>5, <3>6, <3>7, <3>8
  <2>2. ASSUME NEW d \in Contours,
               UserCreates(d) \/ UserDeletes(d) \/ UserStripsFinalizer(d)
                 \/ \E s \in Specs : UserEdits(d, s)
        PROVE  FALSE
    BY <1>1, <2>2 DEF UserCreates, UserDeletes, UserStripsFinalizer, UserEdits, clusterVars
  <2>. QED BY <2>1, <2>2 DEF Users
<1>4. ~Kubernetes
  <2>1. ASSUME NEW m \in Namespaces, DrainNamespace(m)
        PROVE  FALSE
    BY <1>0, <2>1 DEF DrainNamespace
  <2>2. ASSUME NEW m \in Namespaces, JobFinishes(m) \/ FinishNamespace(m)
        PROVE  FALSE
    BY <1>2, <2>2, ManagedAssumption DEF JobFinishes, FinishNamespace
  <2>3. ASSUME (\E q \in Managed, m \in Namespaces : Refresh(q, m)) \/ Resync
        PROVE  FALSE
    BY <1>1, <2>3 DEF Refresh, Resync, clusterVars
  <2>. QED BY <2>1, <2>2, <2>3 DEF Kubernetes
<1>5. Operator
  BY <1>1, <1>3, <1>4 DEF Next, vars
<1>6. ~(\E d \in Contours : Dequeue(d)) /\ ~Crash /\ ~Restart
  BY <1>1 DEF Dequeue, ReadFails, SkipAbsent, Start, Crash, Restart, clusterVars
<1>7. WorkerStep
  BY <1>5, <1>6 DEF Operator
<1>8. pc \notin {"idle", "down"} => Ns \in Namespaces
  BY BusyType
<1>9. ASSUME NEW outcome \in Outcomes,
             \/ Validate(outcome) \/ EnsureFinalizer(outcome) \/ SyncStatus(outcome)
             \/ GatherNamespacedRBAC(outcome) \/ GatherClusterRBAC(outcome)
             \/ CheckNamespace(outcome) \/ DropNamespace(outcome) \/ Release(outcome)
             \/ \E q \in Managed : DeleteWorkload(q, outcome) \/ DeleteRBAC(q, outcome)
      PROVE  FALSE
  <2>1. ASSUME NEW q \in Managed, DeleteWorkload(q, outcome) \/ DeleteRBAC(q, outcome)
        PROVE  FALSE
    BY <1>1, <1>2, <1>8, <2>1 DEF DeleteWorkload, DeleteRBAC, DeleteObject
  <2>. QED BY <1>1, <1>9, <2>1 DEF Validate, EnsureFinalizer, SyncStatus, GatherNamespacedRBAC,
              GatherClusterRBAC, CheckNamespace, DropNamespace, Release, clusterVars
<1>10. \E q \in Managed, failed \in BOOLEAN :
         /\ pc = "ensure"
         /\ Put(q, Ns, Desired(q, cur, snap.spec)) \/ Put(q, Ns, None)
  <2>1. ASSUME NEW q \in Managed, EnsureResource(q)
        PROVE  pc = "ensure" /\ (Put(q, Ns, Desired(q, cur, snap.spec)) \/ Put(q, Ns, None))
    BY <1>1, <2>1 DEF EnsureResource, CreateResource, UpdateResource, ReplaceSelector, LeaveAlone, TurnOf
  <2>2. ASSUME NEW outcome \in Outcomes, RecreateJob(outcome)
        PROVE  /\ pc = "ensure" /\ "job" \in Managed
               /\ Put("job", Ns, Desired("job", cur, snap.spec)) \/ Put("job", Ns, None)
    BY <1>1, <2>2 DEF RecreateJob, TurnOf, IsNext, CtrlTypeOK
  <2>. QED BY <1>7, <1>9, <2>1, <2>2 DEF WorkerStep
<1>11. PICK q \in Managed : pc = "ensure" /\ Put(q, Ns, Desired(q, cur, snap.spec))
  BY <1>2, <1>8, <1>10
<1>. QED BY <1>8, <1>11 DEF Put, Desired

\* An object comes to bear a Contour's labels only while the Contour exists and
\* carries the finalizer.
THEOREM CreationCorrectness ==
  ASSUME Limits["strips"] = 0
  PROVE  SafetySpec => CreatesOnlyWhileFinalized
<1>1. Init => ClaimInv
  BY InitClaimInv
<1>2. ClaimInv /\ [Next]_vars =>
        [ \A r \in Managed, n \in Namespaces, c \in Contours :
            OwnedBy(obj[r][n]', c) /\ ~OwnedBy(obj[r][n], c) => Exists(c) /\ finalized[c] ]_vars
  <2>. SUFFICES ASSUME ClaimInv, [Next]_vars, NEW r \in Managed, NEW n \in Namespaces,
                       NEW c \in Contours, OwnedBy(obj[r][n]', c), ~OwnedBy(obj[r][n], c)
                PROVE  Exists(c) /\ finalized[c]
    OBVIOUS
  <2>1. pc = "ensure" /\ c = cur
    BY OnlyEnsureCreates DEF ClaimInv
  <2>2. finalized[c]
    BY <2>1 DEF ClaimInv, ClaimHolds, Ensuring
  <2>3. Exists(c)
    BY <2>2 DEF ClaimInv, TypeInv, TypeOK, ApiTypeOK, ContoursTypeOK, PhaseOK, Exists
  <2>. QED BY <2>2, <2>3
<1>. QED BY <1>1, <1>2, NextClaimInv, PTL DEF SafetySpec, CreatesOnlyWhileFinalized
===================================================================================
