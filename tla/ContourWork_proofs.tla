-------------------------- MODULE ContourWork_proofs --------------------------
(***************************************************************************)
(* Work is never forgotten: a Contour that is not deployed, or that is     *)
(* being deleted, is attended to.  The hard part is that a Contour nobody  *)
(* attends to is complete: that a pass without an error has put everything *)
(* in place, and that nobody takes any of it away unnoticed.               *)
(***************************************************************************)
EXTENDS ContourTenancy_proofs

----------------------------------------------------------------------------
(* Objects and namespaces. *)

\* To ensure a resource is a step of the pass.
LEMMA EnsuresElsewhere ==
  ASSUME NEW r, NEW failed, Ensures(r, failed)
  PROVE  ~Elsewhere
<1>1. r \in todo
  BY IsNextIn DEF Ensures
<1>2. r \notin Remaining(r, failed)
  BY DEF Remaining
<1>. QED BY <1>1, <1>2 DEF Ensures, Ensured, Elsewhere

\* Unless somebody tampers, what comes to be is what a pass wants.
LEMMA Arrival ==
  ASSUME TypeInv, InformersKeepUp, Tamperable = {}, [Next]_vars,
         NEW r \in Managed, NEW n \in Namespaces, obj'[r][n] # None, obj'[r][n] # obj[r][n]
  PROVE  /\ n = Ns /\ pc = "ensure" /\ cur \in Contours /\ ~Elsewhere
         /\ UNCHANGED terminating
         /\ obj'[r][n] = Desired(r, cur, snap.spec)
         /\ OwnedBy(obj[r][n], cur) \/ CreateAccepted(r, n)
<1>1. Replaced(r, n)
  BY ObjectChange DEF Tampered, Cleared, Removed
<1>2. pc = "ensure" /\ ~Elsewhere /\ UNCHANGED terminating
  BY <1>1, EnsuresElsewhere DEF Replaced, Ensures, Ensured
<1>3. cur \in Contours
  BY <1>2 DEF TypeInv, TypeOK, CtrlTypeOK
<1>. QED BY <1>1, <1>2, <1>3 DEF Replaced

\* So unless somebody tampers every object but a namespace is a Contour's and no selector
\* is outdated.
LEMMA NextNoRogues ==
  ASSUME TypeInv, InformersKeepUp, Tamperable = {}, NoRogues, [Next]_vars
  PROVE  NoRogues'
<1>. SUFFICES ASSUME NEW r \in Managed, NEW n \in Namespaces, obj'[r][n] # None
              PROVE  /\ obj'[r][n].content # "oldSelector"
                     /\ r # "namespace" => obj'[r][n].owner \in Contours
  BY DEF NoRogues
<1>1. CASE obj'[r][n] = obj[r][n]
  BY <1>1 DEF NoRogues
<1>2. CASE obj'[r][n] # obj[r][n]
  <2>1. obj'[r][n] = Desired(r, cur, snap.spec) /\ cur \in Contours /\ pc = "ensure"
    BY <1>2, Arrival
  <2>2. snap.spec.rev \in Revs
    BY <2>1, BusyType, SpecsAssumption DEF TypeInv, TypeOK
  <2>. QED BY <2>1, <2>2, RevsAssumption DEF Desired
<1>. QED BY <1>1, <1>2

\* A namespace is created before anything in it, and goes when it is empty; in one that is
\* about to go nothing is created, and when its removal starts the only workloads in it
\* are those of the Contour that is being deleted.
LEMMA NextNamespaces ==
  ASSUME TenancyInv, InformersKeepUp, Tamperable = {}, Stationary, NoRogues, NamespacesOK, [Next]_vars
  PROVE  NamespacesOK'
<1>0. TypeInv /\ NoStrips
  BY DEF TenancyInv, ClaimInv
<1>. SUFFICES ASSUME NEW n \in Namespaces
              PROVE  /\ n \in terminating' => obj'["namespace"][n] # None
                     /\ obj'["namespace"][n] = None =>
                          \A r \in Managed \cap Namespaced : obj'[r][n] = None
                     /\ n \in terminating' => \A w \in Managed \cap Workloads :
                          obj'[w][n] # None => phase'[obj'[w][n].owner] = "deleting"
  BY DEF NamespacesOK
<1>. USE ManagedAssumption
<1>1. ASSUME obj["namespace"][n] # None, obj'["namespace"][n] = None
      PROVE  Cleared("namespace", n)
  <2>1. ~Tampered("namespace", n)
    BY DEF Tampered
  <2>2. ~Removed("namespace", n)
    BY KindsApart DEF Removed, Deletes
  <2>3. ~Replaced("namespace", n)
    <3>1. ASSUME pc = "ensure"
          PROVE  Desired("namespace", cur, snap.spec) # None
      <4>1. cur \in Contours /\ snap.spec \in Specs
        BY <1>0, <3>1, BusyType DEF TypeInv, TypeOK
      <4>. QED BY <4>1, DesiredType, NoneAssumption
    <3>. QED BY <1>1, <3>1 DEF Replaced, Ensures, NoRogues
  <2>. QED BY <1>0, <1>1, <2>1, <2>2, <2>3, ObjectChange
<1>2. ASSUME NEW m \in terminating' \ terminating
      PROVE  /\ m = Ns /\ obj["namespace"][m] # None /\ pc = "dropNamespace"
             /\ UNCHANGED << obj, phase >>
  BY <1>0, TerminatingChange DEF DropNamespace, contourVars
<1>3. n \in terminating' => obj'["namespace"][n] # None
  <2>1. CASE n \in terminating
    BY <1>1, <2>1, KindsApart DEF NamespacesOK, Cleared, Namespaced
  <2>2. CASE n \notin terminating
    BY <1>2, <2>2
  <2>. QED BY <2>1, <2>2
<1>4. ASSUME obj'["namespace"][n] = None, NEW r \in Managed \cap Namespaced
      PROVE  obj'[r][n] = None
  <2>1. obj[r][n] = None
    BY <1>1, <1>4, KindsApart DEF NamespacesOK, Cleared, Namespaced
  <2>2. ASSUME obj'[r][n] # None
        PROVE  FALSE
    <3>1. CreateAccepted(r, n) /\ ~Elsewhere
      BY <1>0, <2>1, <2>2, Arrival DEF OwnedBy
    <3>2. Cleared("namespace", n)
      BY <1>1, <1>4, <3>1 DEF CreateAccepted, NamespaceOpen
    <3>. QED BY <3>1, <3>2 DEF Cleared
  <2>. QED BY <2>2
<1>5. ASSUME n \in terminating', NEW w \in Managed \cap Workloads, obj'[w][n] # None
      PROVE  phase'[obj'[w][n].owner] = "deleting"
  <2>1. CASE n \notin terminating
    <3>1. n = Ns /\ pc = "dropNamespace" /\ UNCHANGED << obj, phase >>
      BY <1>2, <1>5, <2>1
    <3>2. obj[w][n].owner \in Contours
      BY <1>5, <3>1, KindsApart DEF NoRogues
    <3>3. ASSUME obj[w][n].owner # cur
          PROVE  FALSE
      <4>1. OwnedBy(obj[w][n], obj[w][n].owner)
        BY <1>5, <3>1 DEF OwnedBy
      <4>2. finalized[obj[w][n].owner] /\ spec[obj[w][n].owner].ns = Ns
        BY <3>1, <3>2, <4>1 DEF TenancyInv, Held, Owns, Placed, Stationary
      <4>. QED BY <3>1, <3>2, <3>3, <4>2 DEF TenancyInv, SoleTenant
    <3>. QED BY <3>1, <3>3 DEF TenancyInv, CopyOK, Departures
  <2>2. CASE n \in terminating
    <3>1. obj[w][n] # None /\ obj'[w][n].owner = obj[w][n].owner
      <4>1. CASE obj'[w][n] = obj[w][n]
        BY <1>5, <4>1
      <4>2. CASE obj'[w][n] # obj[w][n]
        <5>1. /\ obj'[w][n] = Desired(w, cur, snap.spec)
              /\ OwnedBy(obj[w][n], cur) \/ CreateAccepted(w, n)
          BY <1>0, <1>5, <4>2, Arrival
        <5>2. ~CreateAccepted(w, n)
          BY <2>2, KindsApart DEF CreateAccepted, NamespaceOpen
        <5>. QED BY <5>1, <5>2 DEF OwnedBy, Desired
      <4>. QED BY <4>1, <4>2
    <3>. DEFINE d == obj[w][n].owner
    <3>2. d \in Contours /\ phase[d] = "deleting" /\ OwnedBy(obj[w][n], d)
      BY <2>2, <3>1, KindsApart DEF NoRogues, NamespacesOK, OwnedBy
    <3>3. Kept(d) \/ ByOthers(d) \/ ByWorker(d)
      BY <1>0, <3>2, ContourChange
    <3>4. ASSUME d = cur, pc = "release", ~errs
          PROVE  FALSE
      <4>1. n = Ns
        BY <3>2, <3>4 DEF TenancyInv, Placed, CopyOK, Busy, Ns
      <4>. QED BY <3>2, <3>4, <4>1 DEF TenancyInv, Swept, Departures, Due
    <3>5. phase'[d] = "deleting"
      BY <3>2, <3>3, <3>4 DEF Kept, ByOthers, ByWorker
    <3>. QED BY <3>1, <3>5
  <2>. QED BY <2>1, <2>2
<1>. QED BY <1>3, <1>4, <1>5

\* The namespace is ensured first (controller.go).
LEMMA NamespaceFirst ==
  ASSUME NEW r, IsNext(r, todo, EnsureOrder), "namespace" \in todo
  PROVE  r = "namespace"
<1>1. EnsureOrder[1] = "namespace"
  BY DEF EnsureOrder, RBACEnsureOrder, WorkloadEnsureOrder
<1>2. PICK i \in 1..Len(EnsureOrder) :
        EnsureOrder[i] = r /\ \A j \in 1..(i - 1) : EnsureOrder[j] \notin todo
  BY DEF IsNext
<1>3. Len(EnsureOrder) \in Nat
  BY DEF EnsureOrder, RBACEnsureOrder, WorkloadEnsureOrder
<1>4. i = 1 \/ 1 \in 1..(i - 1)
  BY <1>2, <1>3
<1>. QED BY <1>1, <1>2, <1>4

\* A namespace that is not there, or about to go, comes back only by being created.
LEMMA StaysShut ==
  ASSUME TypeInv, InformersKeepUp, Tamperable = {}, [Next]_vars, NEW n \in Namespaces,
         ~NamespaceOpen(n), NamespaceOpen(n)'
  PROVE  obj'["namespace"][n] # obj["namespace"][n]
<1>. SUFFICES ASSUME obj'["namespace"][n] = obj["namespace"][n]
              PROVE  FALSE
  OBVIOUS
<1>1. n \in terminating /\ n \notin terminating'
  BY DEF NamespaceOpen
<1>2. ~UNCHANGED terminating
  BY <1>1
<1>3. CASE Kubernetes
  <2>1. PICK m \in Namespaces : FinishNamespace(m)
    BY <1>2, <1>3 DEF Kubernetes, JobFinishes, DrainNamespace, Refresh, Resync, clusterVars
  <2>2. n = m /\ obj'["namespace"][n] = None
    BY <1>1, <2>1, ManagedAssumption DEF FinishNamespace, Put, TypeInv, TypeOK, ApiTypeOK, ClusterTypeOK
  <2>. QED BY <2>2 DEF NamespaceOpen
<1>4. CASE WorkerStep
  <2>1. ASSUME NEW r \in Managed, NEW failed \in BOOLEAN, Ensures(r, failed) \/ Deletes(r, failed)
        PROVE  FALSE
    BY <1>2, <2>1 DEF Ensures, Ensured, Deletes
  <2>2. PICK outcome \in Outcomes : Plain(outcome)
    BY <1>4, <2>1, WorkerKinds
  <2>3. DropNamespace(outcome)
    BY <1>2, <2>2 DEF Plain, Validate, EnsureFinalizer, SyncStatus, GatherNamespacedRBAC,
                      GatherClusterRBAC, CheckNamespace, Release, clusterVars
  <2>. QED BY <1>1, <2>3 DEF DropNamespace
<1>5. ~Users
  BY <1>2 DEF Users, Tamper, UserCreates, UserDeletes, UserStripsFinalizer, UserEdits, clusterVars
<1>6. ~(\E d \in Contours : Dequeue(d)) /\ ~Crash /\ ~Restart
  BY <1>2 DEF Dequeue, ReadFails, SkipAbsent, Start, Crash, Restart, clusterVars
<1>. QED BY <1>2, <1>3, <1>4, <1>5, <1>6 DEF Next, Operator, vars

----------------------------------------------------------------------------
(* The progress of a pass. *)

\* What the pass has been through is in place ...
AllPlaced == NamespaceOpen(Ns) /\ \A r \in Lasting \ todo : InPlace(r, cur, snap.spec)

\* ... or the namespace is not open and the workloads have yet to fail.
AllAhead == ~NamespaceOpen(Ns) /\ Lasting \cap Workloads \subseteq todo

\* Others do not undo what a pass has put in place, but by a namespace that goes; it has
\* no workload of this Contour, so they are still ahead.
LEMMA OutsideProgress ==
  ASSUME TypeInv, InformersKeepUp, Tamperable = {}, AllPlaced \/ AllAhead, pc \in {"ensure", "status"},
         Outside, [Next]_vars
  PROVE  (AllPlaced \/ AllAhead)'
<1>0. UNCHANGED << pc, cur, snap, todo, errs >> /\ Elsewhere /\ Ns \in Namespaces
  BY BusyType DEF Outside, Elsewhere, TypeInv, TypeOK
<1>1. ASSUME NEW r \in Managed, obj'[r][Ns] # obj[r][Ns]
      PROVE  Cleared(r, Ns)
  <2>1. ~Replaced(r, Ns)
    BY <1>0, EnsuresElsewhere DEF Replaced
  <2>2. ~Removed(r, Ns)
    BY DEF Removed, Deletes
  <2>. QED BY <1>0, <1>1, <2>1, <2>2, ObjectChange DEF Tampered
<1>2. CASE AllPlaced
  <2>1. \A r \in Lasting : obj'[r][Ns] = obj[r][Ns]
    BY <1>1, <1>2 DEF AllPlaced, NamespaceOpen, Cleared, Lasting
  <2>2. "namespace" \in Lasting
    BY ManagedAssumption DEF Lasting
  <2>3. Ns \notin terminating'
    BY <1>0, <1>2, TerminatingChange DEF AllPlaced, NamespaceOpen, DropNamespace
  <2>4. Ns' = Ns
    BY <1>0 DEF Ns
  <2>5. NamespaceOpen(Ns)'
    BY <1>2, <2>1, <2>2, <2>3, <2>4 DEF AllPlaced, NamespaceOpen
  <2>6. ASSUME NEW r \in Lasting \ todo'
        PROVE  InPlace(r, cur, snap.spec)'
    <3>1. InPlace(r, cur, snap.spec)
      BY <1>0, <1>2, <2>6 DEF AllPlaced
    <3>. QED BY <1>0, <2>1, <2>6, <3>1 DEF InPlace, Ns
  <2>. QED BY <2>5, <2>6 DEF AllPlaced, Lasting
<1>3. CASE AllAhead
  <2>1. ~NamespaceOpen(Ns)'
    <3>1. Ns' = Ns
      BY <1>0 DEF Ns
    <3>2. ASSUME NamespaceOpen(Ns)'
          PROVE  FALSE
      <4>1. obj'["namespace"][Ns] # obj["namespace"][Ns]
        BY <1>0, <1>3, <3>1, <3>2, StaysShut DEF AllAhead, NamespaceOpen
      <4>2. obj'["namespace"][Ns] = None
        BY <1>1, <4>1, ManagedAssumption DEF Cleared
      <4>. QED BY <3>1, <3>2, <4>2 DEF NamespaceOpen
    <3>. QED BY <3>2
  <2>. QED BY <1>0, <1>3, <2>1 DEF AllAhead, Lasting
<1>. QED BY <1>2, <1>3

\* An object is its owner and its content.
LEMMA AsDesired ==
  ASSUME NEW o \in Objects, NEW r, NEW c, NEW s, o.owner = c, o.content = Desired(r, c, s).content
  PROVE  o = Desired(r, c, s)
BY DEF Objects, Desired

\* What has been ensured without an error is in place; a workload is the Contour's own,
\* for nobody else has one here.
LEMMA EnsuredInPlace ==
  ASSUME TypeInv, Alone, NoRogues, NEW r \in Lasting, Ensures(r, FALSE)
  PROVE  InPlace(r, cur, snap.spec)'
<1>0. /\ Ns \in Namespaces /\ cur \in Contours /\ snap.spec \in Specs /\ pc = "ensure"
      /\ UNCHANGED << cur, snap >> /\ snap'.spec.ns = Ns
  BY BusyType DEF TypeInv, TypeOK, Ensures, Ensured, Ns
<1>1. r \in Managed /\ r # "job"
  BY DEF Lasting
<1>2. CASE UNCHANGED obj
  <2>1. /\ obj[r][Ns] # None
        /\ OwnedBy(obj[r][Ns], cur) => obj[r][Ns].content = Desired(r, cur, snap.spec).content
    <3>1. CASE Put(r, Ns, Desired(r, cur, snap.spec))
      <4>1. obj'[r][Ns] = Desired(r, cur, snap.spec)
        BY <1>0, <1>1, <3>1 DEF Put, TypeInv, TypeOK, ApiTypeOK, ClusterTypeOK
      <4>. QED BY <1>0, <1>2, <4>1, DesiredType, NoneAssumption
    <3>2. CASE Put(r, Ns, None) /\ OwnedBy(obj[r][Ns], cur)
      <4>1. obj'[r][Ns] = None
        BY <1>0, <1>1, <3>2 DEF Put, TypeInv, TypeOK, ApiTypeOK, ClusterTypeOK
      <4>. QED BY <1>2, <3>2, <4>1 DEF OwnedBy
    <3>. QED BY <3>1, <3>2 DEF Ensures
  <2>2. obj[r][Ns] \in Objects
    BY <1>0, <1>1, <2>1 DEF TypeInv, TypeOK, ApiTypeOK, ClusterTypeOK
  <2>3. OwnedBy(obj[r][Ns], cur) => obj[r][Ns] = Desired(r, cur, snap.spec)
    BY <2>1, <2>2, AsDesired DEF OwnedBy
  <2>4. r \in Workloads => OwnedBy(obj[r][Ns], cur)
    <3>. SUFFICES ASSUME r \in Workloads, ~OwnedBy(obj[r][Ns], cur)
                  PROVE  FALSE
      OBVIOUS
    <3>1. obj[r][Ns].owner \in Contours
      BY <1>0, <1>1, <2>1, KindsApart DEF NoRogues
    <3>2. OwnedBy(obj[r][Ns], obj[r][Ns].owner) /\ obj[r][Ns].owner # cur
      BY <2>1 DEF OwnedBy
    <3>. QED BY <1>0, <1>1, <3>1, <3>2 DEF Alone
  <2>. QED BY <1>0, <1>2, <2>1, <2>3, <2>4 DEF InPlace
<1>3. CASE Put(r, Ns, Desired(r, cur, snap.spec))
  <2>1. obj'[r][Ns] = Desired(r, cur, snap.spec)
    BY <1>0, <1>1, <1>3 DEF Put, TypeInv, TypeOK, ApiTypeOK, ClusterTypeOK
  <2>2. Desired(r, cur, snap.spec) # None
    BY <1>0, DesiredType, NoneAssumption
  <2>3. Desired(r, cur, snap.spec).owner = cur
    BY DEF Desired
  <2>. QED BY <1>0, <2>1, <2>2, <2>3 DEF InPlace, OwnedBy, Desired
<1>4. CASE Put(r, Ns, None) /\ OwnedBy(obj[r][Ns], cur) /\ obj[r][Ns].content = "oldSelector"
  BY <1>0, <1>1, <1>4 DEF NoRogues, OwnedBy
<1>. QED BY <1>1, <1>2, <1>3, <1>4 DEF Ensures

\* And what was in place stays so when something else is ensured.
LEMMA EnsuredElsewhere ==
  ASSUME TypeInv, NEW r \in Managed, NEW failed, Ensures(r, failed), NEW q \in Lasting \ {r},
         InPlace(q, cur, snap.spec)
  PROVE  InPlace(q, cur, snap.spec)'
<1>1. Ns \in Namespaces /\ UNCHANGED << cur, snap >>
  BY BusyType DEF TypeInv, TypeOK, Ensures, Ensured
<1>2. obj'[q] = obj[q]
  BY <1>1 DEF Ensures, Put, Lasting, TypeInv, TypeOK, ApiTypeOK, ClusterTypeOK
<1>. QED BY <1>1, <1>2 DEF InPlace

\* Ensuring a workload in a namespace that is not there or about to go fails.
LEMMA ShutOut ==
  ASSUME TypeInv, CopyOK, Alone, NoRogues, NamespacesOK, fresh, NEW r \in Lasting \cap Workloads,
         ~NamespaceOpen(Ns), Ensures(r, FALSE)
  PROVE  FALSE
<1>0. /\ Ns \in Namespaces /\ cur \in Contours /\ pc = "ensure" /\ r \in Managed \cap Namespaced
      /\ phase[cur] = "live" /\ r \in Managed \cap Workloads /\ r # "namespace"
  BY BusyType, KindsApart DEF TypeInv, TypeOK, Ensures, Ensured, Lasting, CopyOK, Departures
<1>1. obj[r][Ns] # None
  BY <1>0 DEF Ensures, OwnedBy, CreateAccepted
<1>2. Ns \in terminating
  BY <1>0, <1>1 DEF NamespacesOK, NamespaceOpen
<1>3. obj[r][Ns].owner \in Contours /\ phase[obj[r][Ns].owner] = "deleting"
  BY <1>0, <1>1, <1>2 DEF NoRogues, NamespacesOK
<1>4. obj[r][Ns].owner # cur
  BY <1>0, <1>3
<1>. QED BY <1>0, <1>1, <1>3, <1>4 DEF Alone, OwnedBy

\* A step that ensures makes progress.
LEMMA EnsuresProgress ==
  ASSUME TypeInv, CopyOK, Alone, NoRogues, NamespacesOK, fresh, AllPlaced \/ AllAhead,
         "namespace" \in todo => todo = Managed,
         NEW r \in Managed, Ensures(r, FALSE), ~errs
  PROVE  (AllPlaced \/ AllAhead)'
<1>0. /\ Ns \in Namespaces /\ pc = "ensure" /\ UNCHANGED << cur, snap, terminating >> /\ r \in todo
      /\ "namespace" \in Lasting /\ "namespace" \in Managed
  BY BusyType, IsNextIn, ManagedAssumption DEF TypeInv, TypeOK, Ensures, Ensured, Lasting
<1>1. todo' = todo \ {r} /\ Ns' = Ns
  BY <1>0 DEF Ensures, Ensured, Remaining, Ns
<1>2. InPlace("namespace", cur, snap.spec)' /\ Ns \notin terminating => NamespaceOpen(Ns)'
  BY <1>0, <1>1 DEF InPlace, NamespaceOpen, Ns
<1>3. r # "namespace" => obj'["namespace"] = obj["namespace"]
  BY <1>0 DEF Ensures, Put, TypeInv, TypeOK, ApiTypeOK, ClusterTypeOK
<1>4. r \in Lasting => InPlace(r, cur, snap.spec)'
  BY EnsuredInPlace
<1>5. CASE AllPlaced
  <2>1. NamespaceOpen(Ns)'
    <3>1. CASE r = "namespace"
      BY <1>0, <1>2, <1>4, <1>5, <3>1 DEF AllPlaced, NamespaceOpen
    <3>2. CASE r # "namespace"
      BY <1>0, <1>1, <1>3, <1>5, <3>2 DEF AllPlaced, NamespaceOpen
    <3>. QED BY <3>1, <3>2
  <2>2. ASSUME NEW q \in Lasting \ todo'
        PROVE  InPlace(q, cur, snap.spec)'
    <3>1. CASE q = r
      BY <1>4, <2>2, <3>1
    <3>2. CASE q # r
      <4>1. InPlace(q, cur, snap.spec)
        BY <1>1, <1>5, <2>2, <3>2 DEF AllPlaced
      <4>. QED BY <2>2, <3>2, <4>1, EnsuredElsewhere
    <3>. QED BY <3>1, <3>2
  <2>. QED BY <2>1, <2>2 DEF AllPlaced, Lasting
<1>6. CASE AllAhead /\ r # "namespace"
  <2>1. ~NamespaceOpen(Ns)'
    BY <1>0, <1>1, <1>3, <1>6 DEF AllAhead, NamespaceOpen
  <2>2. r \notin Lasting \cap Workloads
    BY <1>6, ShutOut DEF AllAhead
  <2>. QED BY <1>1, <1>6, <2>1, <2>2 DEF AllAhead, Lasting
<1>7. CASE AllAhead /\ r = "namespace"
  <2>1. CASE Ns \in terminating
    BY <1>0, <1>1, <1>7, <2>1, KindsApart DEF AllAhead, NamespaceOpen, Lasting
  <2>2. CASE Ns \notin terminating
    <3>1. todo' = Managed \ {"namespace"}
      BY <1>0, <1>1, <1>7
    <3>2. NamespaceOpen(Ns)' /\ InPlace("namespace", cur, snap.spec)'
      BY <1>0, <1>2, <1>4, <1>7, <2>2
    <3>. QED BY <3>1, <3>2 DEF AllPlaced, Lasting
  <2>. QED BY <2>1, <2>2
<1>. QED BY <1>5, <1>6, <1>7

\* Every step keeps the progress of a pass.
LEMMA NextProgress ==
  ASSUME TypeInv, InformersKeepUp, Tamperable = {}, CopyOK, Alone, NoRogues, NamespacesOK, Progress,
         [Next]_vars
  PROVE  Progress'
<1>. SUFFICES ASSUME pc' \in {"ensure", "status"}
              PROVE  /\ pc' = "status" => todo' = {}
                     /\ pc' = "ensure" /\ "namespace" \in todo' => todo' = Managed
                     /\ fresh' /\ ~errs' => (AllPlaced \/ AllAhead)'
  BY DEF Progress, AllPlaced, AllAhead
<1>1. CASE Outside
  <2>1. UNCHANGED << pc, todo, errs >> /\ (fresh' => fresh)
    BY <1>1 DEF Outside, Elsewhere
  <2>2. fresh /\ ~errs => AllPlaced \/ AllAhead
    BY <2>1 DEF Progress, AllPlaced, AllAhead
  <2>. QED BY <1>1, <2>1, <2>2, OutsideProgress DEF Progress
<1>2. ASSUME NEW r \in Managed, NEW failed \in BOOLEAN, Ensures(r, failed)
      PROVE  /\ pc' = "status" => todo' = {}
             /\ pc' = "ensure" /\ "namespace" \in todo' => todo' = Managed
             /\ fresh' /\ ~errs' => (AllPlaced \/ AllAhead)'
  <2>1. pc = "ensure" /\ UNCHANGED fresh /\ errs' = (errs \/ failed)
    BY <1>2 DEF Ensures, Ensured
  <2>2. pc' = "status" => todo' = {}
    BY <1>2 DEF Ensures, Ensured
  <2>3. "namespace" \notin todo'
    <3>1. IsNext(r, todo, EnsureOrder) /\ todo' = Remaining(r, failed)
      BY <1>2 DEF Ensures, Ensured
    <3>2. "namespace" \in todo => r = "namespace"
      BY <3>1, NamespaceFirst
    <3>. QED BY <3>1, <3>2 DEF Remaining
  <2>4. ASSUME fresh', ~errs'
        PROVE  (AllPlaced \/ AllAhead)'
    <3>1. fresh /\ ~errs /\ ~failed /\ Ensures(r, FALSE)
      BY <1>2, <2>1, <2>4
    <3>2. (AllPlaced \/ AllAhead) /\ ("namespace" \in todo => todo = Managed)
      BY <2>1, <3>1 DEF Progress, AllPlaced, AllAhead
    <3>. QED BY <3>1, <3>2, EnsuresProgress
  <2>. QED BY <2>2, <2>3, <2>4
<1>3. ASSUME NEW outcome \in Outcomes, pc' = "ensure", todo' = Managed
      PROVE  (AllPlaced \/ AllAhead)'
  BY <1>3 DEF AllPlaced, AllAhead, Lasting
<1>. QED BY <1>1, <1>2, <1>3, EnsuringKinds

----------------------------------------------------------------------------
(* What others need of what is deleted. *)

\* A Contour that comes to use what is about to be deleted does so by an edit or by being
\* created, and either queues it.
LEMMA NextLatecomers ==
  ASSUME TypeInv, NoStrips, InformersKeepUp, Stationary, Stationary', CopyOK, Latecomers, [Next]_vars
  PROVE  Latecomers'
<1>. SUFFICES ASSUME pc' \in {"gatherCluster", "deleteRBAC"}, NEW d \in Contours \ {cur'},
                     Exists(d)', d \notin queue'
              PROVE  /\ spec'[d].ns = snap'.spec.ns => todo' \cap NamespacedRBAC = {}
                     /\ todo' \cap ClusterRBAC = {}
  BY DEF Latecomers, Ns
<1>1. CASE Outside
  <2>1. UNCHANGED << pc, cur, snap, todo >> /\ Elsewhere /\ queue \subseteq queue'
    BY <1>1 DEF Outside, Elsewhere, Busy
  <2>2. Kept(d)
    BY <2>1, ContourChange DEF ByOthers, Noticed, ByWorker
  <2>. QED BY <2>1, <2>2 DEF Latecomers, Kept, Exists, Ns
<1>2. ASSUME NEW c \in Contours, Start(c)
      PROVE  FALSE
  BY <1>2 DEF Start
<1>3. ASSUME NEW r \in Managed, NEW served \in BOOLEAN, Deletes(r, served)
      PROVE  /\ spec'[d].ns = snap'.spec.ns => todo' \cap NamespacedRBAC = {}
             /\ todo' \cap ClusterRBAC = {}
  BY <1>3 DEF Deletes, contourVars, Latecomers, Exists, Ns
<1>4. ASSUME NEW outcome \in Outcomes, Onward(outcome)
      PROVE  /\ spec'[d].ns = snap'.spec.ns => todo' \cap NamespacedRBAC = {}
             /\ todo' \cap ClusterRBAC = {}
  <2>1. GatherNamespacedRBAC(outcome) \/ GatherClusterRBAC(outcome)
    BY <1>4 DEF Onward, CheckNamespace, DropNamespace
  <2>2. UNCHANGED << cur, snap, queue, phase, spec >> /\ pc \in Departures
    BY <2>1 DEF GatherNamespacedRBAC, GatherClusterRBAC, contourVars, Departures
  <2>3. cur \in Contours /\ Exists(cur) /\ Exists(d) /\ d # cur /\ d \notin queue
    BY <2>2 DEF TypeInv, TypeOK, CtrlTypeOK, CopyOK, Departures, Exists
  <2>4. OtherContoursExist(cur) /\ (spec[d].ns = Ns => OtherContoursExistInSpecNs(cur, Ns))
    BY <2>3, OthersSeen
  <2>5. CASE GatherNamespacedRBAC(outcome)
    BY <2>2, <2>4, <2>5, KindsApart DEF GatherNamespacedRBAC, Ns
  <2>6. CASE GatherClusterRBAC(outcome)
    <3>1. pc = "gatherCluster" /\ todo' = todo
      BY <2>4, <2>6 DEF GatherClusterRBAC
    <3>. QED BY <2>2, <2>3, <3>1 DEF Latecomers, Ns
  <2>. QED BY <2>1, <2>5, <2>6
<1>. QED BY <1>1, <1>2, <1>3, <1>4, DepartureKinds DEF Departures

----------------------------------------------------------------------------
(* Who is attended to. *)

\* A Contour that is queued stays so until it is taken, the operator dies or the Contour
\* goes.
LEMMA QueueKept ==
  ASSUME TypeInv, InformersKeepUp, [Next]_vars, NEW c \in queue
  PROVE  c \in queue' \/ pc' = "down" \/ cur' = c \/ ~Exists(c)'
<1>1. ASSUME NEW cs, Notify(cs)
      PROVE  c \in queue' \/ pc' = "down"
  BY <1>1 DEF Notify
<1>2. CASE Users
  <2>1. ASSUME NEW d \in Contours,
               UserCreates(d) \/ UserDeletes(d) \/ UserStripsFinalizer(d)
                 \/ \E s \in Specs : UserEdits(d, s)
        PROVE  Notify({d})
    BY <2>1 DEF UserCreates, UserDeletes, UserStripsFinalizer, UserEdits
  <2>. QED BY <1>1, <1>2, <2>1 DEF Users, Tamper
<1>3. CASE Kubernetes
  <2>1. ASSUME NEW n \in Namespaces, DrainNamespace(n)
        PROVE  \E cs : Notify(cs)
    BY <2>1 DEF DrainNamespace
  <2>. QED BY <1>1, <1>3, <2>1 DEF Kubernetes, JobFinishes, FinishNamespace, Refresh, Resync
<1>4. CASE WorkerStep
  <2>1. ASSUME NEW r \in Managed, NEW failed \in BOOLEAN, Ensures(r, failed) \/ Deletes(r, failed)
        PROVE  c \in queue'
    BY <2>1 DEF Ensures, Ensured, Deletes
  <2>2. ASSUME NEW outcome \in Outcomes, Plain(outcome)
        PROVE  c \in queue'
    BY <2>2, PlainPass DEF WithinPass, EndsPass
  <2>. QED BY <1>4, <2>1, <2>2, WorkerKinds
<1>5. CASE \E d \in Contours : Dequeue(d)
  BY <1>5 DEF Dequeue, ReadFails, SkipAbsent, Start, Exists, contourVars
<1>6. CASE Crash \/ Restart \/ UNCHANGED vars
  BY <1>6 DEF Crash, Restart, vars, TypeInv, TypeOK, CtrlTypeOK
<1>. QED BY <1>2, <1>3, <1>4, <1>5, <1>6 DEF Next, Operator

\* A pass that does not have its Contour queued again has gone through without an error
\* to a status that was up to date already: Reconcile returns every error, and a write of
\* the status is an event.
LEMMA PassResult ==
  ASSUME TypeInv, InformersKeepUp, [Next]_vars, EndsPass, cur \notin queue', phase'[cur] # "absent"
  PROVE  pc = "status" /\ ~errs /\ UNCHANGED << phase, finalized, spec, obj >>
         /\ status'[cur] = "reported"
<1>0. cur \in Contours /\ pc' = "idle" /\ Busy
  BY DEF EndsPass, Busy, TypeInv, TypeOK, CtrlTypeOK
<1>1. ~Users /\ ~Kubernetes /\ ~UNCHANGED vars
  BY <1>0, EnvironmentOutside DEF Outside, Elsewhere, Busy
<1>2. ~(\E d \in Contours : Dequeue(d)) /\ ~Crash /\ ~Restart
  BY <1>0 DEF Dequeue, ReadFails, SkipAbsent, Start, Crash, Restart, Busy
<1>3. WorkerStep
  BY <1>1, <1>2 DEF Next, Operator
<1>4. ASSUME NEW r \in Managed, NEW failed \in BOOLEAN, Ensures(r, failed) \/ Deletes(r, failed)
      PROVE  FALSE
  BY <1>0, <1>4 DEF Ensures, Ensured, Deletes, Busy
<1>5. PICK outcome \in Outcomes : Plain(outcome)
  BY <1>3, <1>4, WorkerKinds
<1>6. ~Validate(outcome) /\ ~EnsureFinalizer(outcome)
  BY <1>0 DEF Validate, EnsureFinalizer, Finish, Requeue
<1>7. ~Release(outcome)
  BY <1>0 DEF Release, Finish, Requeue, Exists, TypeInv, TypeOK, ApiTypeOK, ContoursTypeOK
<1>8. SyncStatus(outcome)
  BY <1>0, <1>5, <1>6, <1>7 DEF Plain, GatherNamespacedRBAC, GatherClusterRBAC, CheckNamespace,
                                DropNamespace, Busy
<1>9. Exists(cur)
  BY <1>8 DEF SyncStatus, Exists
<1>. DEFINE found == \A r \in SelectorKinds \cap Managed : cache[r][spec[cur].ns] # None
<1>10. outcome # "refused" /\ found /\ ~errs
  BY <1>8, <1>9 DEF SyncStatus, Finish, Requeue
<1>11. status' = [status EXCEPT ![cur] = "reported"]
  BY <1>8, <1>9, <1>10 DEF SyncStatus, Merged
<1>. QED BY <1>0, <1>8, <1>10, <1>11 DEF SyncStatus, clusterVars, TypeInv, TypeOK, ApiTypeOK, ContoursTypeOK

\* A Contour that is complete and that nobody attends to stays complete as long as nothing
\* is done to it: its objects could only go with another's deletion. Workloads and what
\* is in the namespace do not go, for it alone is deployed there; the cluster RBAC objects
\* are spared for its sake, and where they were gathered before it existed it is
\* queued.
LEMMA CompleteKept ==
  ASSUME TenancyInv, InformersKeepUp, Tamperable = {}, Stationary, NoRogues, NamespacesOK, Latecomers,
         Lasting \cap Workloads # {}, [Next]_vars,
         NEW c \in Contours, Complete(c), Kept(c), ~Attended(c)
  PROVE  Complete(c)'
<1>0. TypeInv /\ Alone /\ Placed
  BY DEF TenancyInv, ClaimInv
<1>. DEFINE n == spec[c].ns
<1>1. n \in Namespaces /\ c # cur /\ c \notin queue /\ phase[c] = "live"
  BY <1>0, SpecsAssumption DEF TypeInv, TypeOK, ApiTypeOK, ContoursTypeOK, Attended, Complete
<1>2. PICK w \in Lasting \cap Workloads : TRUE
  OBVIOUS
<1>3. w \in Managed \cap Workloads /\ obj[w][n] # None /\ obj[w][n].owner = c
  BY <1>2 DEF Complete, InPlace, OwnedBy, Lasting
<1>4. n \notin terminating
  BY <1>1, <1>3 DEF NamespacesOK
<1>5. ASSUME NEW r \in Lasting, obj'[r][n] # obj[r][n]
      PROVE  FALSE
  <2>1. r \in Managed /\ r # "job"
    BY DEF Lasting
  <2>2. ~Tampered(r, n) /\ ~Cleared(r, n)
    BY <1>4, <2>1 DEF Tampered, Cleared
  <2>3. ~Replaced(r, n)
    BY <1>1, <1>3 DEF Replaced, Ensures, Alone, TenancyInv, OwnedBy
  <2>4. ASSUME Removed(r, n)
        PROVE  FALSE
    <3>1. n = Ns
      BY <2>4 DEF Removed
    <3>2. CASE pc = "delete"
      <4>1. OwnedBy(obj[r][n], cur) /\ r \in Workloads
        BY <2>4, <3>2 DEF Removed, Deletes
      <4>2. OwnedBy(obj[r][n], c)
        BY <4>1 DEF Complete, InPlace
      <4>. QED BY <1>1, <4>1, <4>2 DEF OwnedBy
    <3>3. CASE pc = "deleteRBAC"
      <4>1. r \in todo /\ r \in RBAC
        BY <2>4, <3>3 DEF Removed, Deletes
      <4>2. todo \cap NamespacedRBAC = {} /\ todo \cap ClusterRBAC = {}
        BY <1>1, <3>1, <3>3 DEF Latecomers, Exists
      <4>. QED BY <4>1, <4>2 DEF RBAC
    <3>. QED BY <2>4, <3>2, <3>3 DEF Removed, Deletes
  <2>. QED BY <1>0, <1>1, <1>5, <2>1, <2>2, <2>3, <2>4, ObjectChange
<1>. QED BY <1>5 DEF Complete, Kept, InPlace

\* Every step leaves every Contour attended to, gone or complete.
LEMMA NextWorkKept ==
  ASSUME TenancyInv, InformersKeepUp, Tamperable = {}, Stationary, NoRogues, NamespacesOK, Progress,
         Latecomers, WorkKept, Lasting \cap Workloads # {}, [Next]_vars
  PROVE  WorkKept'
<1>0. TypeInv /\ NoStrips /\ CopyOK /\ ClaimHolds
  BY DEF TenancyInv, ClaimInv
<1>. SUFFICES ASSUME NEW c \in Contours, c \notin queue', cur' # c, pc' # "down", Exists(c)'
              PROVE  Complete(c)'
  BY DEF WorkKept, Attended
<1>1. Kept(c)
  <2>1. ~ByOthers(c)
    BY DEF ByOthers, Noticed, Elsewhere
  <2>2. ~ByWorker(c)
    BY DEF ByWorker, Exists
  <2>. QED BY <1>0, <2>1, <2>2, ContourChange
<1>2. Exists(c)
  BY <1>1 DEF Kept, Exists
<1>3. CASE ~Attended(c)
  BY <1>1, <1>2, <1>3, CompleteKept DEF WorkKept
<1>4. pc # "down"
  <2>1. ~Restart
    BY <1>2 DEF Restart
  <2>2. pc = "down" => ~Outside /\ ~WithinPass /\ ~EndsPass /\ ~Crash /\ \A d \in Contours : ~Start(d)
    BY DEF Outside, Elsewhere, WithinPass, EndsPass, Busy, Crash, Start
  <2>. QED BY <1>0, <2>1, <2>2, PassKinds
<1>5. c \notin queue
  BY <1>0, QueueKept
<1>6. CASE c = cur
  <2>1. Busy
    BY <1>6, NamesAssumption DEF Busy, TypeInv, TypeOK, CtrlTypeOK, TenancyInv, ClaimInv
  <2>2. EndsPass
    <3>1. ~Outside /\ ~WithinPass /\ ~Crash /\ ~Restart /\ \A d \in Contours : ~Start(d)
      BY <1>6, <2>1 DEF Outside, Elsewhere, WithinPass, Crash, Restart, Start, Busy
    <3>. QED BY <1>0, <3>1, PassKinds
  <2>3. /\ pc = "status" /\ ~errs /\ UNCHANGED << phase, finalized, spec, obj >>
        /\ status'[c] = "reported"
    BY <1>0, <1>6, <2>2, PassResult DEF Exists
  <2>4. fresh /\ snap.spec = spec[c] /\ phase[c] = "live"
    BY <1>0, <1>5, <1>6, <2>1, <2>3 DEF CopyOK, Departures
  <2>5. finalized[c]
    BY <1>0, <1>6, <2>3 DEF ClaimHolds, Ensuring
  <2>6. \A r \in Lasting : InPlace(r, c, spec[c])
    BY <1>6, <2>3, <2>4 DEF Progress
  <2>. QED BY <2>3, <2>4, <2>5, <2>6 DEF Complete, InPlace
<1>. QED BY <1>3, <1>4, <1>5, <1>6 DEF Attended

----------------------------------------------------------------------------
(* The invariant, and what it implies. *)

\* The inductive invariant.
WorkInv ==
  TenancyInv /\ NoRogues /\ NamespacesOK /\ Progress /\ Latecomers /\ WorkKept

\* At first there is no Contour.
LEMMA InitWorkInv ==
  ASSUME Limits["strips"] = 0, Init
  PROVE  WorkInv
<1>1. TenancyInv
  BY InitTenancyInv
<1>2. pc = "idle" /\ terminating = {}
      /\ \A c \in Contours : phase[c] = "absent"
  BY DEF Init, ApiInit, CtrlInit
<1>3. \A r \in Managed, n \in Namespaces :
        obj[r][n] # None => r = "namespace" /\ obj[r][n].content = "fixed"
  BY DEF Init, ApiInit
<1>4. NamespacesOK
  BY <1>2, <1>3, KindsApart DEF NamespacesOK, Namespaced
<1>. QED BY <1>1, <1>2, <1>3, <1>4 DEF WorkInv, NoRogues, Progress, Latecomers, WorkKept, Exists

\* Every step keeps it.
LEMMA NextWorkInv ==
  ASSUME InformersKeepUp, Tamperable = {}, Lasting \cap Workloads # {},
         Stationary, Stationary', WorkInv, [Next]_vars
  PROVE  WorkInv'
<1>1. TypeInv /\ NoStrips /\ CopyOK /\ Alone
  BY DEF WorkInv, TenancyInv, ClaimInv
<1>2. TenancyInv'
  BY NextTenancyInv DEF WorkInv
<1>3. NoRogues' /\ NamespacesOK'
  BY <1>1, NextNoRogues, NextNamespaces DEF WorkInv
<1>4. Progress' /\ Latecomers'
  BY <1>1, NextProgress, NextLatecomers DEF WorkInv
<1>5. WorkKept'
  BY NextWorkKept DEF WorkInv
<1>. QED BY <1>2, <1>3, <1>4, <1>5 DEF WorkInv

\* A Contour that is complete is deployed.
LEMMA NothingLost ==
  ASSUME WorkKept
  PROVE  NoLostWork
<1>. SUFFICES ASSUME NEW c \in Contours, ~Attended(c),
                     phase[c] = "deleting" \/ (phase[c] = "live" /\ ~Deployed(c))
              PROVE  FALSE
  BY DEF NoLostWork, Attended
<1>1. Complete(c)
  BY DEF WorkKept, Exists
<1>. QED BY <1>1 DEF Complete, Deployed, InPlace, Lasting

\* A Contour that nobody attends to has gone or is complete: in place, with the finalizer
\* and a status that says so; for any number of Contours that come, go and are edited
\* while requests fail and the process dies. Not even an event is yet to come, since
\* nobody tampers with the objects. At least one workload that is there to stay must be
\* managed, as all of them are in the code: it is what keeps two Contours from taking one
\* namespace for theirs.
THEOREM AttentionCorrectness ==
  ASSUME InformersKeepUp, Limits["strips"] = 0, Tamperable = {},
         (Managed \cap Workloads) \ {"job"} # {}
  PROVE  SafetySpec /\ []Stationary => []WorkKept
<1>1. Lasting \cap Workloads # {}
  BY DEF Lasting
<1>2. Init => WorkInv
  BY InitWorkInv
<1>3. Stationary /\ Stationary' /\ WorkInv /\ [Next]_vars => WorkInv'
  BY <1>1, NextWorkInv
<1>4. WorkInv => WorkKept
  BY DEF WorkInv
<1>. QED BY <1>2, <1>3, <1>4, PTL DEF SafetySpec

\* Work is never forgotten: a Contour that is being deleted, or that is not deployed as its
\* spec says, is queued, being reconciled, or queued when the operator is back. Reconcile
\* returns every error, and every write to a Contour is an event.
THEOREM WorkCorrectness ==
  ASSUME InformersKeepUp, Limits["strips"] = 0, Tamperable = {},
         (Managed \cap Workloads) \ {"job"} # {}
  PROVE  SafetySpec /\ []Stationary => []NoLostWork
<1>1. WorkKept => NoLostWork
  BY NothingLost
<1>. QED BY <1>1, AttentionCorrectness, PTL
===============================================================================
