------------------------- MODULE ContourTenancy_proofs -------------------------
(***************************************************************************)
(* Contours beside each other: no two of them have workloads in one        *)
(* namespace, a Contour without the finalizer has none anywhere, and so    *)
(* the operator implements ContourLifecycle.                               *)
(***************************************************************************)
EXTENDS ContourSteps_proofs

----------------------------------------------------------------------------
(* Which objects a Contour has. *)

\* A Contour gains an object only by a pass of its own over it, in the namespace of the
\* pass and where no object was.
LEMMA Gain ==
  ASSUME TypeInv, InformersKeepUp, [Next]_vars,
         NEW r \in Managed, NEW n \in Namespaces, NEW c \in Contours,
         OwnedBy(obj'[r][n], c), ~OwnedBy(obj[r][n], c)
  PROVE  /\ Replaced(r, n) /\ c = cur /\ n = Ns /\ pc = "ensure"
         /\ obj[r][n] = None /\ obj'[r][n] = Desired(r, cur, snap.spec)
<1>. USE DEF OwnedBy
<1>1. ~Tampered(r, n)
  BY NamesAssumption DEF Tampered
<1>2. Replaced(r, n)
  BY <1>1, ObjectChange DEF Cleared, Removed
<1>3. obj'[r][n] = Desired(r, cur, snap.spec) /\ n = Ns /\ pc = "ensure"
  BY <1>2 DEF Replaced, Ensures
<1>. QED BY <1>2, <1>3 DEF Replaced, Desired, CreateAccepted

\* So every object of a Contour is in the one namespace its specs name.
LEMMA NextPlaced ==
  ASSUME TypeInv, InformersKeepUp, CopyOK, Placed, [Next]_vars
  PROVE  Placed'
<1>. SUFFICES ASSUME NEW r \in Managed, NEW n \in Namespaces, NEW c \in Contours,
                     OwnedBy(obj'[r][n], c)
              PROVE  n = Manifest[c].ns
  BY DEF Placed, OwnedBy
<1>1. CASE OwnedBy(obj[r][n], c)
  BY <1>1 DEF Placed
<1>2. CASE ~OwnedBy(obj[r][n], c)
  BY <1>2, Gain DEF CopyOK, Busy, Ns
<1>. QED BY <1>1, <1>2

\* The finalizer stays on a Contour that has objects of the kinds in K: it is removed at
\* the end of a deletion that has swept them, and comes before the first of them.
LEMMA NextHeld ==
  ASSUME ClaimInv, InformersKeepUp, CopyOK, Placed, NEW K \in SUBSET (Managed \ {"namespace"}),
         Swept(K), Held(K), [Next]_vars
  PROVE  Held(K)'
<1>. USE DEF ClaimInv
<1>. SUFFICES ASSUME NEW r \in K, NEW n \in Namespaces, NEW c \in Contours,
                     OwnedBy(obj'[r][n], c)
              PROVE  finalized'[c]
  BY DEF Held, Owns, OwnedBy
<1>1. CASE ~OwnedBy(obj[r][n], c)
  <2>1. Replaced(r, n) /\ c = cur /\ pc = "ensure"
    BY <1>1, Gain
  <2>2. finalized[c]
    BY <2>1 DEF ClaimHolds, Ensuring
  <2>3. UNCHANGED finalized
    BY <2>1, EnsuresEffect DEF Replaced, WithinPass, contourVars
  <2>. QED BY <2>2, <2>3
<1>2. CASE OwnedBy(obj[r][n], c)
  <2>1. finalized[c]
    BY <1>2 DEF Held, Owns
  <2>2. ASSUME pc = "release", ~errs, c = cur
        PROVE  FALSE
    <3>1. n = Ns
      BY <1>2, <2>2 DEF Placed, CopyOK, Busy, Ns
    <3>. QED BY <1>2, <2>2, <3>1 DEF Swept, Departures, Due
  <2>3. Kept(c) \/ ByOthers(c) \/ ByWorker(c)
    BY ContourChange
  <2>. QED BY <2>1, <2>2, <2>3 DEF Kept, ByOthers, ByWorker
<1>. QED BY <1>1, <1>2

\* There is one Contour.
Sole == \A c, d \in Contours : c = d

\* The kinds the deletion treats differently.
LEMMA KindsApart ==
  /\ Workloads \cap RBAC = {} /\ "namespace" \notin Workloads \cup RBAC
  /\ NamespacedRBAC \cap ClusterRBAC = {}
  /\ NamespacedRBAC \subseteq RBAC /\ ClusterRBAC \subseteq RBAC
  /\ AllResources \ {"namespace"} \subseteq Workloads \cup RBAC
  /\ Namespaced = NamespacedRBAC \cup Workloads
<1>1. Workloads = {"configMap", "job", "deployment", "daemonSet", "contourService", "envoyService"}
  BY DEF Workloads, NamesIn, WorkloadEnsureOrder
<1>2. NamespacedRBAC = {"controllerRoleBinding", "controllerRole", "certgenRoleBinding", "certgenRole",
                        "contourServiceAccount", "envoyServiceAccount", "certgenServiceAccount"}
  BY DEF NamespacedRBAC, NamesIn, NamespacedRBACDeleteOrder
<1>3. ClusterRBAC = {"clusterRoleBinding", "clusterRole"}
  BY DEF ClusterRBAC, NamesIn, ClusterRBACDeleteOrder
<1>. QED BY <1>1, <1>2, <1>3 DEF RBAC, AllResources, Namespaced

\* A deletion without an error gets to every object of the kinds in K that is left. This
\* is true of workloads. RBAC objects are spared where another Contour exists, so for
\* them there must be none.
LEMMA NextSwept ==
  ASSUME TypeInv, InformersKeepUp, NEW K \in SUBSET (Managed \ {"namespace"}),
         K \cap RBAC = {} \/ Sole, Swept(K), [Next]_vars
  PROVE  Swept(K)'
<1>. SUFFICES ASSUME pc' \in Departures, ~errs', NEW r \in K, OwnedBy(obj'[r][snap'.spec.ns], cur')
              PROVE  Due(r)'
  BY DEF Swept, Ns
<1>. USE DEF Departures
<1>0. Busy => Ns \in Namespaces /\ cur \in Contours
  BY BusyType DEF TypeInv, TypeOK, Busy
<1>1. ASSUME UNCHANGED << cur, snap >>, pc \in Departures
      PROVE  OwnedBy(obj[r][Ns], cur)
  BY <1>0, <1>1, Gain DEF Ns, Busy
<1>2. CASE Outside
  <2>1. UNCHANGED << pc, cur, snap, todo, errs >>
    BY <1>2 DEF Outside, Elsewhere
  <2>. QED BY <1>1, <2>1 DEF Swept, Due
<1>3. ASSUME NEW c \in Contours, Start(c)
      PROVE  Due(r)'
  BY <1>3 DEF Start, Due
<1>4. ASSUME NEW q \in Managed, NEW served \in BOOLEAN, Deletes(q, served)
      PROVE  Due(r)'
  <2>1. UNCHANGED << pc, cur, snap >> /\ served /\ ~errs /\ todo' = todo \ {q} /\ pc \in Departures
    BY <1>4 DEF Deletes
  <2>2. r # q
    <3>1. ASSUME r = q
          PROVE  FALSE
      <4>1. OwnedBy(obj[q][Ns], cur)
        BY <1>1, <2>1, <3>1
      <4>2. Put(q, Ns, None)
        BY <1>4, <2>1, <4>1 DEF Deletes
      <4>3. obj'[q][Ns] = None
        BY <1>0, <2>1, <4>2 DEF Put, Busy, TypeInv, TypeOK, ApiTypeOK, ClusterTypeOK
      <4>. QED BY <2>1, <3>1, <4>3 DEF OwnedBy, Ns
    <3>. QED BY <3>1
  <2>. QED BY <1>1, <2>1, <2>2 DEF Swept, Due
<1>5. ASSUME NEW outcome \in Outcomes, Onward(outcome)
      PROVE  Due(r)'
  <2>1. /\ UNCHANGED << cur, snap, obj, phase >> /\ ~errs /\ outcome = "served"
        /\ pc \in Departures
    BY <1>5 DEF Onward, GatherNamespacedRBAC, GatherClusterRBAC, CheckNamespace, DropNamespace,
                clusterVars, contourVars
  <2>2. OwnedBy(obj[r][Ns], cur) /\ Due(r)
    BY <1>1, <2>1 DEF Swept
  <2>3. CASE GatherNamespacedRBAC(outcome)
    <3>1. pc = "delete" /\ todo = {} /\ pc' = "gatherCluster" /\ cache = obj
      BY <2>1, <2>3 DEF GatherNamespacedRBAC, Ready
    <3>2. r \notin Workloads
      BY <2>2, <3>1 DEF Due
    <3>3. r \in RBAC /\ Sole
      BY <3>2, KindsApart, ManagedAssumption
    <3>4. ~OtherContoursExistInSpecNs(cur, Ns)
      BY <1>0, <2>1, <3>3 DEF OtherContoursExistInSpecNs, Sole, Busy
    <3>5. todo' = { q \in Managed \cap NamespacedRBAC : Deletable(q) }
      BY <2>1, <2>3, <3>4 DEF GatherNamespacedRBAC
    <3>6. Deletable(r)
      BY <2>2, <3>1 DEF Deletable
    <3>. QED BY <3>1, <3>3, <3>5, <3>6 DEF Due, RBAC
  <2>4. CASE GatherClusterRBAC(outcome)
    <3>1. pc = "gatherCluster" /\ pc' = "deleteRBAC" /\ cache = obj /\ todo \subseteq todo'
      BY <2>1, <2>4 DEF GatherClusterRBAC, Ready
    <3>2. CASE r \in todo
      BY <3>1, <3>2 DEF Due
    <3>3. CASE r \notin todo
      <4>1. r \in ClusterRBAC /\ Sole
        BY <2>2, <3>1, <3>3, KindsApart DEF Due
      <4>2. ~OtherContoursExist(cur)
        BY <1>0, <2>1, <4>1 DEF OtherContoursExist, Sole, Busy
      <4>3. todo' = todo \cup { q \in Managed \cap ClusterRBAC : Deletable(q) }
        BY <2>1, <2>4, <4>2 DEF GatherClusterRBAC
      <4>4. Deletable(r)
        BY <2>2, <3>1 DEF Deletable
      <4>. QED BY <3>1, <4>1, <4>3, <4>4 DEF Due
    <3>. QED BY <3>2, <3>3
  <2>5. CASE CheckNamespace(outcome) \/ DropNamespace(outcome)
    BY <2>2, <2>5 DEF CheckNamespace, DropNamespace, Due
  <2>. QED BY <1>5, <2>3, <2>4, <2>5 DEF Onward
<1>. QED BY <1>2, <1>3, <1>4, <1>5, DepartureKinds

----------------------------------------------------------------------------
(* Which Contours have workloads. *)

\* How a state of ensureContour comes about.
LEMMA EnsuringKinds ==
  ASSUME TypeInv, InformersKeepUp, [Next]_vars, pc' \in {"ensure", "status"}
  PROVE  \/ Outside
         \/ \E r \in Managed, failed \in BOOLEAN : Ensures(r, failed)
         \/ \E outcome \in Outcomes : Validate(outcome) /\ outcome = "served" /\ Valid(cur, snap.spec)
              /\ IsFinalized /\ pc' = "ensure" /\ todo' = Managed /\ WithinPass
              /\ UNCHANGED << obj, errs, terminating >>
<1>1. CASE WorkerStep
  <2>1. ASSUME NEW r \in Managed, NEW served \in BOOLEAN, Deletes(r, served)
        PROVE  FALSE
    BY <2>1 DEF Deletes
  <2>2. ASSUME NEW outcome \in Outcomes, Plain(outcome)
        PROVE  /\ Validate(outcome) /\ outcome = "served" /\ Valid(cur, snap.spec)
               /\ IsFinalized /\ pc' = "ensure" /\ todo' = Managed /\ WithinPass
               /\ UNCHANGED << obj, errs, terminating >>
    <3>1. Validate(outcome)
      BY <2>2 DEF Plain, EnsureFinalizer, SyncStatus, GatherNamespacedRBAC, GatherClusterRBAC,
                  CheckNamespace, DropNamespace, Release, Finish
    <3>. QED BY <3>1 DEF Validate, Finish, WithinPass, Busy, Departures, clusterVars
  <2>. QED BY <1>1, <2>1, <2>2, WorkerKinds
<1>2. CASE ~WorkerStep
  <2>1. ~Crash /\ ~Restart
    BY DEF Crash, Restart
  <2>2. ASSUME NEW c \in Contours, Dequeue(c)
        PROVE  Outside
    BY <2>2 DEF Dequeue, ReadFails, SkipAbsent, Start, workerVars, Outside, Elsewhere, Busy
  <2>3. CASE Users \/ Kubernetes \/ UNCHANGED vars
    BY <2>3, EnvironmentOutside
  <2>. QED BY <1>2, <2>1, <2>2, <2>3 DEF Next, Operator
<1>. QED BY <1>1, <1>2

\* A Contour with the finalizer exists.
LEMMA HeldExists ==
  ASSUME ContoursTypeOK, NEW c \in Contours, finalized[c]
  PROVE  Exists(c)
BY DEF ContoursTypeOK, PhaseOK, Exists

\* Another Contour that exists is seen by a pass that lists the Contours.
LEMMA OthersSeen ==
  ASSUME NEW c \in Contours, NEW d \in Contours \ {c}, Exists(c), Exists(d)
  PROVE  /\ OtherContoursExist(c)
         /\ \A n : spec[d].ns = n => OtherContoursExistInSpecNs(c, n)
BY DEF OtherContoursExist, OtherContoursExistInSpecNs

\* Validation finds no other Contour that exists in the spec namespace, so none with
\* the finalizer, so none with workloads; and none gets any before the pass is over,
\* since one worker makes all passes.
LEMMA NextAlone ==
  ASSUME ClaimInv, InformersKeepUp, CopyOK, Stationary, Placed, Held(Managed \cap Workloads), Alone,
         [Next]_vars
  PROVE  Alone'
<1>. USE DEF ClaimInv
<1>. SUFFICES ASSUME pc' \in {"ensure", "status"}, NEW d \in Contours \ {cur'},
                     NEW w \in Managed \cap Workloads, OwnedBy(obj'[w][snap'.spec.ns], d)
              PROVE  FALSE
  BY DEF Alone, Ns
<1>0. Busy => Ns \in Namespaces /\ cur \in Contours
  BY BusyType DEF TypeInv, TypeOK, Busy
<1>1. ASSUME UNCHANGED << cur, snap >>, Busy
      PROVE  OwnedBy(obj[w][Ns], d)
  BY <1>0, <1>1, Gain DEF Ns
<1>2. CASE Outside
  BY <1>1, <1>2 DEF Outside, Elsewhere, Alone, Busy
<1>3. ASSUME NEW r \in Managed, NEW failed \in BOOLEAN, Ensures(r, failed)
      PROVE  FALSE
  <2>1. pc = "ensure" /\ UNCHANGED << cur, snap >>
    BY <1>3, EnsuresEffect DEF WithinPass, Ensures
  <2>. QED BY <1>1, <2>1 DEF Alone, Busy
<1>4. ASSUME NEW outcome \in Outcomes, Validate(outcome), Valid(cur, snap.spec), IsFinalized, WithinPass
      PROVE  FALSE
  <2>1. OwnedBy(obj[w][Ns], d) /\ Ns \in Namespaces /\ cur \in Contours /\ d # cur
    BY <1>0, <1>1, <1>4 DEF WithinPass
  <2>2. finalized[d] /\ spec[d].ns = Ns
    BY <2>1 DEF Held, Owns, Placed, Stationary
  <2>3. finalized[cur]
    BY <1>4 DEF IsFinalized, ClaimHolds, WithinPass, Busy
  <2>4. Exists(cur) /\ Exists(d)
    BY <2>1, <2>2, <2>3, HeldExists DEF TypeInv, TypeOK, ApiTypeOK
  <2>. QED BY <1>4, <2>1, <2>2, <2>4, OthersSeen DEF Valid, Ns
<1>. QED BY <1>2, <1>3, <1>4, EnsuringKinds

\* CheckNamespace finds no other Contour that exists in the namespace; one that is
\* created before the namespace is deleted has no finalizer yet, since only a pass of
\* its own gives it one.
LEMMA NextSoleTenant ==
  ASSUME ClaimInv, InformersKeepUp, CopyOK, Stationary, Stationary', SoleTenant, [Next]_vars
  PROVE  SoleTenant'
<1>. USE DEF ClaimInv
<1>. SUFFICES ASSUME pc' = "dropNamespace", NEW d \in Contours \ {cur'}, finalized'[d]
              PROVE  spec'[d].ns # snap'.spec.ns
  BY DEF SoleTenant, Ns
<1>1. CASE Outside
  <2>1. UNCHANGED << pc, cur, snap >>
    BY <1>1 DEF Outside, Elsewhere
  <2>2. Kept(d) \/ ByOthers(d)
    BY <2>1, ContourChange DEF ByWorker
  <2>3. finalized[d]
    BY <2>2 DEF Kept, ByOthers
  <2>. QED BY <2>1, <2>3 DEF SoleTenant, Stationary, Ns
<1>2. ASSUME NEW outcome \in Outcomes, CheckNamespace(outcome)
      PROVE  spec'[d].ns # snap'.spec.ns
  <2>1. /\ ~OtherContoursExistInSpecNs(cur, Ns)
        /\ UNCHANGED << cur, snap, spec, phase, finalized >> /\ pc \in Departures
    BY <1>2 DEF CheckNamespace, contourVars, Departures
  <2>2. Exists(cur) /\ cur \in Contours
    BY <2>1 DEF CopyOK, Exists, Departures, TypeInv, TypeOK, CtrlTypeOK
  <2>3. Exists(d)
    BY <2>1, HeldExists DEF TypeInv, TypeOK, ApiTypeOK
  <2>. QED BY <2>1, <2>2, <2>3, OthersSeen DEF Ns
<1>3. ASSUME NEW r \in Managed, NEW served \in BOOLEAN, Deletes(r, served)
      PROVE  FALSE
  BY <1>3 DEF Deletes
<1>4. ASSUME NEW c \in Contours, Start(c)
      PROVE  FALSE
  BY <1>4 DEF Start
<1>5. ASSUME NEW outcome \in Outcomes, Onward(outcome), ~CheckNamespace(outcome)
      PROVE  FALSE
  BY <1>5 DEF Onward, GatherNamespacedRBAC, GatherClusterRBAC, DropNamespace
<1>. QED BY <1>1, <1>2, <1>3, <1>4, <1>5, DepartureKinds DEF Departures

\* A workload is created where no other Contour has one.
LEMMA NextExclusive ==
  ASSUME TypeInv, InformersKeepUp, Alone, ExclusiveTenancy, [Next]_vars
  PROVE  ExclusiveTenancy'
<1>. SUFFICES ASSUME NEW n \in Namespaces, NEW r \in Managed \cap Workloads,
                     NEW q \in Managed \cap Workloads, NEW c \in Contours, NEW d \in Contours,
                     OwnedBy(obj'[r][n], c), OwnedBy(obj'[q][n], d)
              PROVE  c = d
  BY DEF ExclusiveTenancy, OwnedBy
<1>1. CASE OwnedBy(obj[r][n], c) /\ OwnedBy(obj[q][n], d)
  BY <1>1 DEF ExclusiveTenancy
<1>2. CASE ~OwnedBy(obj[r][n], c)
  BY <1>2, Gain DEF Alone
<1>3. CASE ~OwnedBy(obj[q][n], d)
  BY <1>3, Gain DEF Alone
<1>. QED BY <1>1, <1>2, <1>3

----------------------------------------------------------------------------
(* The invariant, and what it implies. *)

\* The inductive invariant: each of Alone, Held and Swept needs the other two.
TenancyInv ==
  /\ ClaimInv /\ CopyOK /\ Placed /\ Swept(Managed \cap Workloads) /\ Held(Managed \cap Workloads)
  /\ Alone /\ SoleTenant /\ ExclusiveTenancy

\* No object exists at first.
LEMMA InitTenancyInv ==
  ASSUME Limits["strips"] = 0, Init
  PROVE  TenancyInv
<1>1. ClaimInv
  BY InitClaimInv
<1>2. \A r \in Managed, n \in Namespaces, c \in Contours : ~OwnedBy(obj[r][n], c)
  BY NamesAssumption DEF Init, ApiInit, OwnedBy
<1>3. pc = "idle" /\ fresh = FALSE
  BY DEF Init, CtrlInit
<1>. QED BY <1>1, <1>2, <1>3 DEF TenancyInv, CopyOK, Busy, Departures, Placed, Swept, Held, Owns, Alone,
                                 SoleTenant, ExclusiveTenancy

\* Every step keeps it while no Contour is moved.
LEMMA NextTenancyInv ==
  ASSUME InformersKeepUp, Stationary, Stationary', TenancyInv, [Next]_vars
  PROVE  TenancyInv'
<1>. USE DEF TenancyInv
<1>1. ClaimInv' /\ TypeInv /\ NoStrips
  BY NextClaimInv DEF ClaimInv
<1>2. CopyOK' /\ Placed'
  BY <1>1, NextCopyOK, NextPlaced
<1>3. Managed \cap Workloads \in SUBSET (Managed \ {"namespace"}) /\ Managed \cap Workloads \cap RBAC = {}
  BY KindsApart
<1>4. Swept(Managed \cap Workloads)' /\ Held(Managed \cap Workloads)'
  BY <1>1, <1>3, NextSwept, NextHeld
<1>5. Alone' /\ SoleTenant' /\ ExclusiveTenancy'
  BY <1>1, NextAlone, NextSoleTenant, NextExclusive
<1>. QED BY <1>1, <1>2, <1>4, <1>5

\* TenancyInv is an invariant of what happens while users move no Contour.
LEMMA TenancyInvariance ==
  ASSUME InformersKeepUp, Limits["strips"] = 0
  PROVE  SafetySpec /\ []Stationary => []TenancyInv
<1>1. Init => TenancyInv
  BY InitTenancyInv
<1>2. Stationary /\ Stationary' /\ TenancyInv /\ [Next]_vars => TenancyInv'
  BY NextTenancyInv
<1>. QED BY <1>1, <1>2, PTL DEF SafetySpec

\* Two Contours never run their workloads in one namespace, although validation.Contour
\* compares them only when a pass starts, any number of them may be created, edited and
\* deleted meanwhile, and requests fail and the process dies anywhere. A Contour whose
\* spec namespace is changed leaves workloads behind, whence Stationary: a user edits
\* whatever else of a spec, but not spec.namespace.name.
THEOREM TenancyCorrectness ==
  ASSUME InformersKeepUp, Limits["strips"] = 0
  PROVE  SafetySpec /\ []Stationary => []ExclusiveTenancy
BY TenancyInvariance, PTL DEF TenancyInv

\* While a pass ensures workloads for its Contour and until it has written the status,
\* no workload in that namespace is another's: what validation has seen when the pass
\* began is still true of the last object it writes, though the pass does not look
\* again (controller.go, validation.go).
THEOREM AloneCorrectness ==
  ASSUME InformersKeepUp, Limits["strips"] = 0
  PROVE  SafetySpec /\ []Stationary => []Alone
BY TenancyInvariance, PTL DEF TenancyInv

\* A Contour that has lost its finalizer leaves no workload behind, however many others
\* exist (those may keep its RBAC objects from being deleted, see NoOrphansCorrectness):
\* a pass that could not delete one of them has an error, and EnsureFinalizerRemoved
\* follows only a deletion without one (controller.go).
THEOREM HeldCorrectness ==
  ASSUME InformersKeepUp, Limits["strips"] = 0
  PROVE  SafetySpec /\ []Stationary => []WorkloadsHeld
BY TenancyInvariance, PTL DEF TenancyInv, WorkloadsHeld

\* The removal of a namespace never takes the objects of another Contour that is deployed
\* there with it, although "Another contour exists in the same namespace"
\* (namespace.go:56) is found out one request before the Delete. In between a Contour may
\* be created, but not be given its finalizer.
THEOREM NamespaceCorrectness ==
  ASSUME InformersKeepUp, Limits["strips"] = 0
  PROVE  SafetySpec /\ []Stationary => NamespaceSparesTenants
<1>1. TenancyInv /\ [Next]_vars =>
        [ \A n \in terminating' \ terminating, d \in Contours \ {cur} :
            Exists(d) /\ finalized[d] /\ spec[d].ns = n
              => \A r \in Managed \cap Namespaced : ~OwnedBy(obj[r][n], d) ]_vars
  <2>. SUFFICES ASSUME TenancyInv, [Next]_vars, NEW n \in terminating' \ terminating,
                       NEW d \in Contours \ {cur}, finalized[d], spec[d].ns = n
                PROVE  FALSE
    OBVIOUS
  <2>1. n = Ns /\ pc = "dropNamespace"
    BY TerminatingChange DEF TenancyInv, ClaimInv, DropNamespace
  <2>. QED BY <2>1 DEF TenancyInv, SoleTenant
<1>. QED BY <1>1, TenancyInvariance, PTL DEF SafetySpec, NamespaceSparesTenants

\* A Contour that has lost its finalizer leaves nothing behind but the namespace,
\* provided it is the only one: another Contour that exists makes the deletion spare the
\* RBAC objects.
THEOREM NoOrphansCorrectness ==
  ASSUME InformersKeepUp, Limits["strips"] = 0, \A c, d \in Contours : c = d
  PROVE  SafetySpec /\ []Stationary => []NoOrphans
<1>. DEFINE K == Managed \ {"namespace"}
            Inv == Swept(K) /\ Held(K)
<1>1. Init => Inv
  <2>1. Init => pc = "idle" /\ \A r \in K, n \in Namespaces : obj[r][n] = None
    BY DEF Init, ApiInit, CtrlInit
  <2>. QED BY <2>1 DEF Swept, Held, Owns, OwnedBy, Departures
<1>2. TenancyInv /\ Inv /\ [Next]_vars => Inv'
  BY NextSwept, NextHeld DEF TenancyInv, ClaimInv, Sole
<1>3. Inv => NoOrphans
  BY DEF Held, NoOrphans
<1>. QED BY <1>1, <1>2, <1>3, TenancyInvariance, PTL DEF SafetySpec

----------------------------------------------------------------------------
(* The operator implements ContourLifecycle. *)

\* No Contour lives in a namespace the operator manages. Such namespaces would take
\* several Contours with them in one step, and ContourLifecycle has them go one by one.
Homeless == \A c \in Contours : Home[c] = None

\* At most one Contour changes in a step, and none with a child object.
LEMMA LifeOfOne ==
  ASSUME TypeInv, NoStrips, InformersKeepUp, Homeless, [Next]_vars
  PROVE  \/ \A c \in Contours : Kept(c)
         \/ UNCHANGED obj /\ \E d \in Contours : \A c \in Contours \ {d} : Kept(c)
<1>. USE DEF TypeInv, TypeOK, ApiTypeOK, ContoursTypeOK
<1>1. ASSUME NEW d \in Contours,
             UserCreates(d) \/ UserDeletes(d) \/ UserStripsFinalizer(d)
               \/ \E s \in Specs : UserEdits(d, s)
      PROVE  UNCHANGED obj /\ \A c \in Contours \ {d} : Kept(c)
  <2>1. ASSUME UserCreates(d) \/ \E s \in Specs : UserEdits(d, s)
        PROVE  UNCHANGED obj /\ \A c \in Contours \ {d} : Kept(c)
    BY <2>1 DEF UserCreates, UserEdits, clusterVars, Kept
  <2>2. ASSUME UserDeletes(d)
        PROVE  UNCHANGED obj /\ \A c \in Contours \ {d} : Kept(c)
    <3>1. CASE finalized[d]
      BY <2>2, <3>1 DEF UserDeletes, clusterVars, Kept
    <3>2. CASE ~finalized[d]
      BY <2>2, <3>2 DEF UserDeletes, Vanish, clusterVars, Kept
    <3>. QED BY <3>1, <3>2
  <2>3. ~UserStripsFinalizer(d)
    BY DEF UserStripsFinalizer, Spend, NoStrips
  <2>. QED BY <1>1, <2>1, <2>2, <2>3
<1>2. ASSUME UNCHANGED contourVars
      PROVE  \A c \in Contours : Kept(c)
  BY <1>2 DEF contourVars, Kept
<1>3. CASE Users
  <2>1. ASSUME NEW r \in Tamperable, NEW n \in Namespaces, Tamper(r, n)
        PROVE  UNCHANGED contourVars
    BY <2>1 DEF Tamper
  <2>. QED BY <1>1, <1>2, <1>3, <2>1 DEF Users
<1>4. CASE Kubernetes
  <2>1. ASSUME NEW n \in Namespaces, DrainNamespace(n)
        PROVE  \A c \in Contours : Kept(c)
    <3>1. Residents(n) = {}
      BY NamesAssumption DEF Residents, Homeless
    <3>. QED BY <2>1, <3>1 DEF DrainNamespace, Kept
  <2>2. ASSUME \/ \E n \in Namespaces : JobFinishes(n) \/ FinishNamespace(n)
               \/ \E r \in Managed, n \in Namespaces : Refresh(r, n)
               \/ Resync
        PROVE  UNCHANGED contourVars
    BY <2>2 DEF JobFinishes, FinishNamespace, Refresh, Resync
  <2>. QED BY <1>2, <1>4, <2>1, <2>2 DEF Kubernetes
<1>5. CASE WorkerStep
  <2>1. \A c \in Contours : Kept(c) \/ ByWorker(c)
    BY <1>5, WorkerChange
  <2>2. \A c \in Contours : ByWorker(c) => c = cur /\ UNCHANGED obj
    BY DEF ByWorker
  <2>. QED BY <2>1, <2>2
<1>6. CASE (\E d \in Contours : Dequeue(d)) \/ Crash \/ Restart
  BY <1>2, <1>6 DEF Dequeue, ReadFails, SkipAbsent, Start, Crash, Restart
<1>7. CASE UNCHANGED vars
  BY <1>2, <1>7 DEF vars, contourVars
<1>. QED BY <1>3, <1>4, <1>5, <1>6, <1>7 DEF Next, Operator

\* All child objects that change in a step are in one namespace.
LEMMA OneNamespace ==
  ASSUME TypeInv, InformersKeepUp, [Next]_vars,
         NEW r \in Managed, NEW n \in Namespaces, obj'[r][n] # obj[r][n],
         NEW q \in Managed, NEW m \in Namespaces, obj'[q][m] # obj[q][m]
  PROVE  n = m
<1>0. ~UNCHANGED obj
  OBVIOUS
<1>1. ASSUME NEW p \in Managed, NEW l \in Namespaces, NEW o, Put(p, l, o)
      PROVE  n = m
  BY <1>1, PutEffect
<1>2. CASE Users
  <2>1. PICK p \in Tamperable, l \in Namespaces : Tamper(p, l)
    BY <1>0, <1>2 DEF Users, UserCreates, UserDeletes, UserStripsFinalizer, UserEdits, clusterVars
  <2>2. \E o : Put(p, l, o)
    BY <2>1 DEF Tamper
  <2>. QED BY <1>1, <2>2, EnvironmentAssumption
<1>3. CASE Kubernetes
  <2>1. ASSUME NEW l \in Namespaces, DrainNamespace(l)
        PROVE  n = m
    BY <2>1 DEF DrainNamespace, TypeInv, TypeOK, ApiTypeOK, ClusterTypeOK
  <2>2. ASSUME NEW l \in Namespaces, JobFinishes(l)
        PROVE  n = m
    BY <1>1, <2>2 DEF JobFinishes
  <2>3. ASSUME NEW l \in Namespaces, FinishNamespace(l)
        PROVE  n = m
    BY <1>1, <2>3, ManagedAssumption DEF FinishNamespace
  <2>4. ~(\E p \in Managed, l \in Namespaces : Refresh(p, l)) /\ ~Resync
    BY <1>0 DEF Refresh, Resync, clusterVars
  <2>. QED BY <1>3, <2>1, <2>2, <2>3, <2>4 DEF Kubernetes
<1>4. CASE WorkerStep
  BY <1>4, WorkerObjects DEF Replaced, Removed
<1>5. ~(\E d \in Contours : Dequeue(d)) /\ ~Crash /\ ~Restart
  BY <1>0 DEF Dequeue, ReadFails, SkipAbsent, Start, Crash, Restart, clusterVars
<1>. QED BY <1>0, <1>2, <1>3, <1>4, <1>5 DEF Next, Operator, vars

\* c has workloads.
Populated(c) == Owns(c, Managed \cap Workloads)

\* So with ExclusiveTenancy they are of one Contour, if they are workloads; and a
\* Contour that gets some gets them where no other has any.
LEMMA PopulationOfOne ==
  ASSUME TypeInv, InformersKeepUp, Alone, ExclusiveTenancy, [Next]_vars,
         NEW c \in Contours, NEW d \in Contours,
         Populated(c)' # Populated(c), Populated(d)' # Populated(d)
  PROVE  c = d
<1>1. PICK r \in Managed \cap Workloads, n \in Namespaces : OwnedBy(obj'[r][n], c) # OwnedBy(obj[r][n], c)
  BY DEF Populated, Owns, OwnedBy
<1>2. PICK q \in Managed \cap Workloads, m \in Namespaces : OwnedBy(obj'[q][m], d) # OwnedBy(obj[q][m], d)
  BY DEF Populated, Owns, OwnedBy
<1>3. n = m
  BY <1>1, <1>2, OneNamespace
<1>4. CASE ~OwnedBy(obj[r][n], c) /\ ~OwnedBy(obj[q][m], d)
  <2>1. c = cur
    BY <1>1, <1>4, Gain DEF OwnedBy
  <2>2. d = cur
    BY <1>2, <1>4, Gain DEF OwnedBy
  <2>. QED BY <2>1, <2>2
<1>5. CASE ~OwnedBy(obj[r][n], c) /\ OwnedBy(obj[q][m], d)
  <2>1. c = cur /\ n = Ns /\ pc = "ensure"
    BY <1>1, <1>5, Gain DEF OwnedBy
  <2>. QED BY <1>3, <1>5, <2>1 DEF Alone
<1>6. CASE OwnedBy(obj[r][n], c) /\ ~OwnedBy(obj[q][m], d)
  <2>1. d = cur /\ m = Ns /\ pc = "ensure"
    BY <1>2, <1>6, Gain DEF OwnedBy
  <2>. QED BY <1>3, <1>6, <2>1 DEF Alone
<1>7. CASE OwnedBy(obj[r][n], c) /\ OwnedBy(obj[q][m], d)
  BY <1>3, <1>7 DEF ExclusiveTenancy
<1>. QED BY <1>4, <1>5, <1>6, <1>7

\* The first workload of a Contour comes under its finalizer.
LEMMA PopulatedUnderClaim ==
  ASSUME ClaimInv, InformersKeepUp, [Next]_vars, NEW c \in Contours, Populated(c)', ~Populated(c)
  PROVE  finalized[c] /\ Life(c) \in {"claimed", "departing"}
<1>1. c = cur /\ pc = "ensure"
  BY Gain DEF ClaimInv, Populated, Owns, OwnedBy
<1>2. finalized[c]
  BY <1>1 DEF ClaimInv, ClaimHolds, Ensuring
<1>. QED BY <1>2 DEF Life, ClaimInv, TypeInv, TypeOK, ApiTypeOK, ContoursTypeOK, PhaseOK

\* A Contour is released when a deletion has swept its workloads.
LEMMA ReleasedEmpty ==
  ASSUME TypeInv, CopyOK, Placed, Swept(Managed \cap Workloads), pc = "release", ~errs
  PROVE  ~Populated(cur) /\ phase[cur] = "deleting"
<1>1. cur \in Contours
  BY DEF TypeInv, TypeOK, CtrlTypeOK
<1>2. \A r \in Managed \cap Workloads, n \in Namespaces : OwnedBy(obj[r][n], cur) => n = Ns
  BY <1>1 DEF CopyOK, Busy, Placed, Ns
<1>. QED BY <1>2 DEF Populated, Owns, Swept, Departures, Due, CopyOK

\* The stations of a Contour's life, in the order of ContourLifecycle.
LEMMA LifeChange ==
  ASSUME TenancyInv, InformersKeepUp, [Next]_vars, NEW c \in Contours
  PROVE  \/ Life(c)' = Life(c)
         \/ Life(c) = "absent" /\ Life(c)' = "unclaimed"
         \/ Life(c) = "unclaimed" /\ Life(c)' = "absent"
         \/ Life(c) = "unclaimed" /\ Life(c)' = "claimed"
         \/ Life(c) = "claimed" /\ Life(c)' = "departing"
         \/ Life(c) = "departing" /\ ~Populated(c) /\ Life(c)' = "absent"
<1>. USE DEF TenancyInv, ClaimInv
<1>1. Kept(c) \/ ByOthers(c) \/ ByWorker(c)
  BY ContourChange
<1>2. finalized[c] \in BOOLEAN /\ phase[c] \in {"absent", "live", "deleting"}
      /\ (phase[c] = "absent" => finalized[c] = FALSE)
  BY DEF TypeInv, TypeOK, ApiTypeOK, ContoursTypeOK, PhaseOK
<1>3. CASE Kept(c)
  BY <1>3 DEF Kept, Life
<1>4. CASE ByOthers(c)
  BY <1>2, <1>4 DEF ByOthers, Life, Exists
<1>5. CASE ByWorker(c) /\ pc = "finalize"
  <2>1. phase[c] = "live" /\ phase'[c] = "live" /\ finalized'[c] = TRUE
    BY <1>5 DEF ByWorker, CopyOK, Departures
  <2>. QED BY <1>2, <2>1 DEF Life
<1>6. CASE ByWorker(c) /\ pc = "status"
  BY <1>6 DEF ByWorker, Life
<1>7. CASE ByWorker(c) /\ pc = "release"
  <2>1. ~Populated(c) /\ phase[c] = "deleting" /\ phase'[c] = "absent"
    BY <1>7, ReleasedEmpty DEF ByWorker
  <2>. QED BY <2>1 DEF Life
<1>. QED BY <1>1, <1>3, <1>4, <1>5, <1>6, <1>7 DEF ByWorker

\* Every step of the operator and of its environment is a step of ContourLifecycle, or
\* a stuttering step.
LEMMA LifeStep ==
  ASSUME TenancyInv, InformersKeepUp, Homeless, [Next]_vars
  PROVE  [Lifecycle!LifeNext]_(Lifecycle!lifeVars)
<1>. DEFINE L == [c \in Contours |-> Life(c)]
            P == [c \in Contours |-> Owns(c, Managed \cap Workloads)]
<1>0. TypeInv /\ NoStrips /\ Alone /\ ExclusiveTenancy /\ ClaimInv
  BY DEF TenancyInv, ClaimInv
<1>1. CASE \A c \in Contours : Kept(c)
  <2>1. L' = L
    BY <1>1 DEF Kept, Life
  <2>2. CASE \A c \in Contours : Populated(c)' = Populated(c)
    <3>1. P' = P
      BY <2>2 DEF Populated
    <3>. QED BY <2>1, <3>1 DEF Lifecycle!lifeVars
  <2>3. CASE \E c \in Contours : Populated(c)' # Populated(c)
    <3>1. PICK c \in Contours : Populated(c)' # Populated(c)
      BY <2>3
    <3>2. \A d \in Contours \ {c} : Populated(d)' = Populated(d)
      BY <1>0, <3>1, PopulationOfOne
    <3>3. P' = [P EXCEPT ![c] = Populated(c)']
      BY <3>2 DEF Populated
    <3>4. CASE Populated(c)'
      <4>1. Life(c) \in {"claimed", "departing"}
        BY <1>0, <3>1, <3>4, PopulatedUnderClaim
      <4>2. P' = [P EXCEPT ![c] = TRUE]
        BY <3>3, <3>4
      <4>3. Lifecycle!Populate(c)
        BY <2>1, <4>1, <4>2 DEF Lifecycle!Populate, Lifecycle!Set
      <4>. QED BY <4>3 DEF Lifecycle!LifeNext
    <3>5. CASE ~Populated(c)'
      <4>1. P' = [P EXCEPT ![c] = FALSE]
        BY <3>3, <3>5 DEF Populated, Owns
      <4>2. Lifecycle!Clear(c)
        BY <2>1, <4>1 DEF Lifecycle!Clear, Lifecycle!Set
      <4>. QED BY <4>2 DEF Lifecycle!LifeNext
    <3>. QED BY <3>4, <3>5
  <2>. QED BY <2>2, <2>3
<1>2. ASSUME UNCHANGED obj, NEW d \in Contours, \A c \in Contours \ {d} : Kept(c)
      PROVE  [Lifecycle!LifeNext]_(Lifecycle!lifeVars)
  <2>1. P' = P
    BY <1>2 DEF Owns
  <2>2. L' = [L EXCEPT ![d] = Life(d)']
    BY <1>2 DEF Kept, Life
  <2>3. CASE Life(d)' = Life(d)
    BY <2>1, <2>2, <2>3 DEF Lifecycle!lifeVars
  <2>4. CASE Life(d) = "absent" /\ Life(d)' = "unclaimed"
    <3>1. Lifecycle!Appear(d)
      BY <2>1, <2>2, <2>4 DEF Lifecycle!Appear, Lifecycle!Set
    <3>. QED BY <3>1 DEF Lifecycle!LifeNext
  <2>5. CASE Life(d) = "unclaimed" /\ Life(d)' = "absent"
    <3>1. Lifecycle!Withdraw(d)
      BY <2>1, <2>2, <2>5 DEF Lifecycle!Withdraw, Lifecycle!Set
    <3>. QED BY <3>1 DEF Lifecycle!LifeNext
  <2>6. CASE Life(d) = "unclaimed" /\ Life(d)' = "claimed"
    <3>1. Lifecycle!Claim(d)
      BY <2>1, <2>2, <2>6 DEF Lifecycle!Claim, Lifecycle!Set
    <3>. QED BY <3>1 DEF Lifecycle!LifeNext
  <2>7. CASE Life(d) = "claimed" /\ Life(d)' = "departing"
    <3>1. Lifecycle!Depart(d)
      BY <2>1, <2>2, <2>7 DEF Lifecycle!Depart, Lifecycle!Set
    <3>. QED BY <3>1 DEF Lifecycle!LifeNext
  <2>8. CASE Life(d) = "departing" /\ ~Populated(d) /\ Life(d)' = "absent"
    <3>1. Lifecycle!Release(d)
      BY <2>1, <2>2, <2>8 DEF Lifecycle!Release, Lifecycle!Set, Populated
    <3>. QED BY <3>1 DEF Lifecycle!LifeNext
  <2>. QED BY <2>3, <2>4, <2>5, <2>6, <2>7, <2>8, LifeChange
<1>. QED BY <1>0, <1>1, <1>2, LifeOfOne

\* The operator implements ContourLifecycle: workloads appear only under the finalizer,
\* and the finalizer of a deleted Contour is removed only once its workloads are gone, by
\* one Contour at a time, for any number of them, across failures, lost replies and
\* crashes.
THEOREM LifecycleCorrectness ==
  ASSUME InformersKeepUp, Limits["strips"] = 0, \A c \in Contours : Home[c] = None
  PROVE  SafetySpec /\ []Stationary => KeepsLifecycle
<1>1. Init => Lifecycle!LifeInit
  <2>. SUFFICES ASSUME Init
                PROVE  Lifecycle!LifeInit
    OBVIOUS
  <2>1. \A c \in Contours : Life(c) = "absent"
    BY DEF Init, ApiInit, Life
  <2>2. \A c \in Contours : Owns(c, Managed \cap Workloads) = FALSE
    BY KindsApart DEF Init, ApiInit, Owns, OwnedBy
  <2>. QED BY <2>1, <2>2 DEF Lifecycle!LifeInit
<1>2. TenancyInv /\ [Next]_vars => [Lifecycle!LifeNext]_(Lifecycle!lifeVars)
  BY LifeStep DEF Homeless
<1>. QED BY <1>1, <1>2, TenancyInvariance, PTL DEF SafetySpec, KeepsLifecycle, Lifecycle!LifeSpec
================================================================================
