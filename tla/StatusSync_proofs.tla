--------------------------- MODULE StatusSync_proofs ---------------------------
(***************************************************************************)
(* Proofs about StatusSync, for whatever the workloads' controllers may    *)
(* report, and any number of edits, changes, faults and instants.          *)
(***************************************************************************)
EXTENDS StatusSync, TLAPS

----------------------------------------------------------------------------
(* Lemmas about what a pass computes. *)

\* What was found makes one of the messages, and a status goes with it.
LEMMA VerdictType ==
  ASSUME NEW d \in Deployments \cup {None}, NEW e \in DaemonSets \cup {None}
  PROVE  Verdict(d, e) \in Messages /\ StatusOf(Verdict(d, e)) \in Statuses
<1>1. CASE d = None
  BY <1>1 DEF Verdict, StatusOf, Messages, Statuses
<1>2. CASE d # None /\ e = None
  BY <1>2 DEF Verdict, StatusOf, Messages, Statuses
<1>3. CASE d # None /\ e # None
  <2>1. d.condition \in {"True", "False", "Unreported"}
    BY <1>3, ReportsAssumption DEF Deployments, Reported
  <2>. QED BY <1>3, <2>1 DEF Verdict, StatusOf, Messages, Statuses
<1>. QED BY <1>1, <1>2, <1>3

\* The condition a pass has in mind is a condition.
LEMMA UpdateType ==
  ASSUME NEW d \in Deployments \cup {None}, NEW e \in DaemonSets \cup {None},
         clock \in 0..MaxClock
  PROVE  [ status |-> StatusOf(Verdict(d, e)), message |-> Verdict(d, e), since |-> clock ]
           \in Conditions
BY VerdictType DEF Conditions

\* Merging conditions makes a condition.
LEMMA MergeType ==
  ASSUME NEW c \in Conditions \cup {None}, NEW u \in Conditions
  PROVE  MergeConditions(c, u) \in Conditions
BY NoneAssumption DEF MergeConditions, Conditions

\* The result of merging says what the update says; its time is that of the update
\* only if the status has changed.
LEMMA MergeResult ==
  ASSUME NEW c \in Conditions \cup {None}, NEW u \in Conditions
  PROVE  LET m == MergeConditions(c, u)
         IN  /\ m.status = u.status /\ m.message = u.message
             /\ m.since = IF c # None /\ c.status = u.status THEN c.since ELSE u.since
BY NoneAssumption DEF MergeConditions, ConditionChanged, Conditions

\* A pass computes a status.
LEMMA RecomputedType ==
  ASSUME NEW s \in ContourStatuses, NEW d \in Deployments \cup {None},
         NEW e \in DaemonSets \cup {None}, clock \in 0..MaxClock
  PROVE  Recomputed(s, d, e) \in ContourStatuses /\ Recomputed(s, d, e).condition # None
<1> DEFINE u == [ status |-> StatusOf(Verdict(d, e)), message |-> Verdict(d, e),
                  since |-> clock ]
           m == MergeConditions(s.condition, u)
<1>1. m \in Conditions
  BY UpdateType, MergeType DEF ContourStatuses
<1>2. (IF d = None THEN s.contours ELSE d.available) \in Nat
  BY ReportsAssumption DEF ContourStatuses, Deployments, Reported
<1>3. (IF e = None THEN s.envoys ELSE e.available) \in EnvoyCounts
  BY DEF ContourStatuses, DaemonSets
<1>4. m # None
  BY <1>1, NoneAssumption
<1> HIDE DEF m
<1>5. Recomputed(s, d, e) = [ contours  |-> IF d = None THEN s.contours ELSE d.available,
                              envoys    |-> IF e = None THEN s.envoys ELSE e.available,
                              condition |-> m ]
  BY DEF Recomputed, m
<1>. QED BY <1>1, <1>2, <1>3, <1>4, <1>5 DEF ContourStatuses

\* Whatever status a pass starts from, it ends with one that is coherent.
LEMMA RecomputedCoherent ==
  ASSUME NEW s \in ContourStatuses, NEW d \in Deployments \cup {None},
         NEW e \in DaemonSets \cup {None}, clock \in 0..MaxClock
  PROVE  CoherentStatus(Recomputed(s, d, e))
<1> DEFINE u == [ status |-> StatusOf(Verdict(d, e)), message |-> Verdict(d, e),
                  since |-> clock ]
           r == Recomputed(s, d, e)
<1>1. r.condition.status = StatusOf(Verdict(d, e)) /\ r.condition.message = Verdict(d, e)
  BY UpdateType, MergeResult DEF Recomputed, ContourStatuses
<1>2. e # None => r.envoys = e.available /\ r.envoys \in Nat
  BY ReportsAssumption DEF Recomputed, DaemonSets
<1>3. CASE d = None \/ e = None
  <2>1. Verdict(d, e) \in {"deploymentMissing", "daemonSetMissing"}
    BY <1>3 DEF Verdict
  <2>. QED BY <1>1, <2>1 DEF CoherentStatus
<1>4. CASE d # None /\ e # None
  <2>1. d.condition \in {"True", "False", "Unreported"}
    BY <1>4, ReportsAssumption DEF Deployments, Reported
  <2>2. /\ Verdict(d, e) \in {"available", "noContours"} => e.available > 0
        /\ Verdict(d, e) \in {"noEnvoys", "neither"} => ~(e.available > 0)
    BY <1>4, <2>1 DEF Verdict
  <2>. QED BY <1>1, <1>2, <1>4, <2>2 DEF CoherentStatus
<1>. QED BY <1>3, <1>4

\* The time of the condition stays with its status, and is not earlier.
Follows(was, is) ==
  /\ is # None /\ is.since <= clock
  /\ was # None => /\ is.status = was.status => is.since = was.since
                   /\ is.since >= was.since

\* What a pass computes from a status follows it.
LEMMA RecomputedFollows ==
  ASSUME NEW s \in ContourStatuses, NEW d \in Deployments \cup {None},
         NEW e \in DaemonSets \cup {None}, clock \in 0..MaxClock,
         s.condition # None => s.condition.since <= clock
  PROVE  Follows(s.condition, Recomputed(s, d, e).condition)
<1> DEFINE u == [ status |-> StatusOf(Verdict(d, e)), message |-> Verdict(d, e),
                  since |-> clock ]
           is == Recomputed(s, d, e).condition
<1>1. is = MergeConditions(s.condition, u)
  BY DEF Recomputed
<1>2. is.status = u.status /\ is.since =
         IF s.condition # None /\ s.condition.status = u.status
         THEN s.condition.since ELSE clock
  BY <1>1, UpdateType, MergeResult DEF ContourStatuses
<1>3. is # None
  BY RecomputedType
<1>4. s.condition # None => s.condition.since \in Nat
  BY BoundsAssumption DEF ContourStatuses, Conditions
<1>5. clock \in Nat
  BY BoundsAssumption
<1>. QED BY <1>2, <1>3, <1>4, <1>5 DEF Follows
----------------------------------------------------------------------------
(* Type correctness. *)

USE DEF workloads, caches, worker

WorkerTypeOK ==
  /\ queued \in BOOLEAN
  /\ pc \in {"idle", "get", "getDeployment", "getDaemonSet", "update"}
  /\ latest \in ContourStatuses /\ updated \in ContourStatuses
  /\ copy \in {"current", "outdated", "former"}
  /\ deploy \in Deployments \cup {None}
  /\ errs \in BOOLEAN

\* A Contour begins without a status, which is a status.
LEMMA NoStatusType == NoStatus \in ContourStatuses
BY ReportsAssumption DEF NoStatus, ContourStatuses

\* The budget stays a number for each kind.
LEMMA SpendType ==
  ASSUME left \in [{"changes", "edits", "faults"} -> Nat],
         NEW kind \in {"changes", "edits", "faults"}, Spend(kind)
  PROVE  left' \in [{"changes", "edits", "faults"} -> Nat]
BY DEF Spend

\* The end of a pass leaves the worker idle.
LEMMA FinishType ==
  ASSUME NEW failed \in BOOLEAN, NEW event \in BOOLEAN, queued \in BOOLEAN,
         Finish(failed, event)
  PROVE  WorkerTypeOK'
BY NoStatusType DEF Finish, Forget, WorkerTypeOK

\* What is reported of a Deployment makes a Deployment.
LEMMA ReportedType ==
  ASSUME NEW o \in BOOLEAN, NEW r \in DeploymentReports
  PROVE  Reported(o, r) \in Deployments
BY DEF Deployments, Reported

\* What the operator creates is what controllers report on.
LEMMA EnsuredType == NewDeployment \in Deployments /\ NewDaemonSet \in DaemonSets
<1>1. NewDeployment = Reported(TRUE, [available |-> 0, condition |-> "Unreported"])
  BY DEF Reported, NewDeployment
<1>2. [available |-> 0, condition |-> "Unreported"] \in DeploymentReports /\ 0 \in EnvoyCounts
  BY ReportsAssumption
<1>3. NewDeployment \in Deployments
  BY <1>1, <1>2, ReportedType
<1>. QED BY <1>2, <1>3 DEF DaemonSets, NewDaemonSet

\* The steps of the worker keep everything in its type.
LEMMA WorkerStepType == StatusTypeOK /\ Worker => StatusTypeOK'
<1> SUFFICES ASSUME StatusTypeOK, Worker PROVE StatusTypeOK'
  OBVIOUS
<1>. USE DEF StatusTypeOK
<1>1. CASE EnsureContour
  <2>1. /\ deployment' \in Deployments \cup {None}
        /\ daemonSet' \in DaemonSets \cup {None}
    BY <1>1, EnsuredType DEF EnsureContour, Ensured
  <2>2. left' \in [{"changes", "edits", "faults"} -> Nat]
    BY <1>1, SpendType DEF EnsureContour
  <2>3. errs' \in BOOLEAN
    BY <1>1 DEF EnsureContour, EnsureFails
  <2>4. queued' \in BOOLEAN /\ pc' \in {"idle", "get"}
    BY <1>1 DEF EnsureContour
  <2>. QED BY <1>1, <2>1, <2>2, <2>3, <2>4 DEF EnsureContour
<1>2. CASE GetContour
  <2>1. left' \in [{"changes", "edits", "faults"} -> Nat]
    BY <1>2, SpendType DEF GetContour
  <2>2. WorkerTypeOK'
    BY <1>2, FinishType DEF GetContour, WorkerTypeOK
  <2>. QED BY <1>2, <2>1, <2>2 DEF GetContour, WorkerTypeOK
<1>3. CASE GetDeployment
  BY <1>3 DEF GetDeployment
<1>4. CASE GetDaemonSet
  <2>1. Recomputed(latest, deploy, daemonSetCache) \in ContourStatuses
    BY RecomputedType
  <2>2. WorkerTypeOK'
    BY <1>4, <2>1, FinishType, NoStatusType DEF GetDaemonSet, WorkerTypeOK
  <2>. QED BY <1>4, <2>2 DEF GetDaemonSet, WorkerTypeOK
<1>5. CASE UpdateStatus
  <2>1. left' \in [{"changes", "edits", "faults"} -> Nat]
    BY <1>5, SpendType DEF UpdateStatus
  <2>2. WorkerTypeOK'
    BY <1>5, FinishType, NoStatusType DEF UpdateStatus, RetryOnConflict, WorkerTypeOK
  <2>3. contour' \in [valid : BOOLEAN, status : ContourStatuses] \cup {None}
    BY <1>5 DEF UpdateStatus
  <2>. QED BY <1>5, <2>1, <2>2, <2>3 DEF UpdateStatus, WorkerTypeOK
<1>. QED BY <1>1, <1>2, <1>3, <1>4, <1>5 DEF Worker

\* So do the steps of everybody else.
LEMMA OthersType ==
  ASSUME StatusTypeOK,
         \/ Restart \/ EditContour \/ DeleteContour \/ CreateContour \/ ChangeWorkload
         \/ DeliverDeployment \/ DeliverDaemonSet \/ Tick
  PROVE  StatusTypeOK'
<1>. USE DEF StatusTypeOK
<1>1. CASE Restart
  <2>1. left' \in [{"changes", "edits", "faults"} -> Nat]
    BY <1>1, SpendType DEF Restart
  <2>. QED BY <1>1, <2>1, NoStatusType DEF Restart, Forget
<1>2. CASE EditContour
  <2>1. left' \in [{"changes", "edits", "faults"} -> Nat]
    BY <1>2, SpendType DEF EditContour
  <2>. QED BY <1>2, <2>1 DEF EditContour
<1>3. CASE DeleteContour
  <2>1. left' \in [{"changes", "edits", "faults"} -> Nat]
    BY <1>3, SpendType DEF DeleteContour
  <2>. QED BY <1>3, <2>1 DEF DeleteContour
<1>4. CASE CreateContour
  <2>1. left' \in [{"changes", "edits", "faults"} -> Nat]
    BY <1>4, SpendType DEF CreateContour
  <2>. QED BY <1>4, <2>1, NoStatusType DEF CreateContour
<1>5. CASE ChangeWorkload
  <2>1. left' \in [{"changes", "edits", "faults"} -> Nat]
    BY <1>5, SpendType DEF ChangeWorkload
  <2>2. deployment # None => deployment.ours \in BOOLEAN
    BY DEF Deployments, Reported
  <2>3. deployment' \in Deployments \cup {None}
    <3>1. CASE UNCHANGED deployment \/ deployment' = None
      BY <3>1
    <3>2. CASE deployment # None /\ \E r \in DeploymentReports : deployment' = Reported(deployment.ours, r)
      BY <3>2, <2>2, ReportedType
    <3>3. CASE \E r \in DeploymentReports : deployment' = Reported(FALSE, r)
      BY <3>3, ReportedType
    <3>. QED BY <1>5, <3>1, <3>2, <3>3 DEF ChangeWorkload
  <2>4. daemonSet' \in DaemonSets \cup {None}
    <3>1. CASE UNCHANGED daemonSet \/ daemonSet' = None
      BY <3>1
    <3>2. CASE daemonSet # None /\ \E n \in EnvoyCounts : daemonSet' = [daemonSet EXCEPT !.available = n]
      BY <3>2 DEF DaemonSets
    <3>3. CASE \E n \in EnvoyCounts : daemonSet' = [ours |-> FALSE, available |-> n]
      BY <3>3 DEF DaemonSets
    <3>. QED BY <1>5, <3>1, <3>2, <3>3 DEF ChangeWorkload
  <2>. QED BY <1>5, <2>1, <2>3, <2>4 DEF ChangeWorkload
<1>6. CASE DeliverDeployment
  <2>1. queued' \in BOOLEAN
    BY <1>6 DEF DeliverDeployment, QueuedBy
  <2>. QED BY <1>6, <2>1 DEF DeliverDeployment
<1>7. CASE DeliverDaemonSet
  <2>1. queued' \in BOOLEAN
    BY <1>7 DEF DeliverDaemonSet, QueuedBy
  <2>. QED BY <1>7, <2>1 DEF DeliverDaemonSet
<1>8. CASE Tick
  <2>1. clock' \in 0..MaxClock
    BY <1>8, BoundsAssumption DEF Tick
  <2>. QED BY <1>8, <2>1 DEF Tick
<1>. QED BY <1>1, <1>2, <1>3, <1>4, <1>5, <1>6, <1>7, <1>8

\* Everything begins in its type.
LEMMA InitType == Init => StatusTypeOK
<1> SUFFICES ASSUME Init PROVE StatusTypeOK
  OBVIOUS
<1>1. left \in [{"changes", "edits", "faults"} -> Nat]
  BY BoundsAssumption DEF Init
<1>2. 0 \in 0..MaxClock
  BY BoundsAssumption
<1>. QED BY <1>1, <1>2, NoStatusType DEF Init, StatusTypeOK

\* Every step keeps it.
LEMMA NextType == StatusTypeOK /\ [Next]_vars => StatusTypeOK'
<1> SUFFICES ASSUME StatusTypeOK, [Next]_vars PROVE StatusTypeOK'
  OBVIOUS
<1>1. CASE Worker
  BY <1>1, WorkerStepType
<1>2. CASE UNCHANGED vars
  BY <1>2 DEF StatusTypeOK, vars
<1>3. CASE Next /\ ~Worker
  BY <1>3, OthersType DEF Next
<1>. QED BY <1>1, <1>2, <1>3 DEF Next

\* The status, the worker's copies of it and of the workloads, and the clock keep
\* their types, whatever fails and whoever interferes.
THEOREM StatusTypeCorrectness == SafetySpec => []StatusTypeOK
BY InitType, NextType, PTL DEF SafetySpec

----------------------------------------------------------------------------
(* Coherence. *)

\* What is stored and what is about to be stored are each of one pass.
CoherenceInv == Coherent /\ CoherentStatus(updated)

\* A Contour without a condition has nothing to be coherent about.
LEMMA NoStatusCoherent == CoherentStatus(NoStatus)
BY DEF CoherentStatus, NoStatus

\* Every step keeps what is stored and what is about to be stored coherent: only
\* GetDaemonSet makes a status, and only UpdateStatus stores one.
LEMMA NextCoherent ==
  StatusTypeOK /\ CoherenceInv /\ [Next]_vars => CoherenceInv'
<1> SUFFICES ASSUME StatusTypeOK, CoherenceInv, [Next]_vars PROVE CoherenceInv'
  OBVIOUS
<1>1. Coherent' /\ CoherentStatus(updated)' <=>
        (contour' # None => CoherentStatus(contour'.status)) /\ CoherentStatus(updated')
  BY DEF Coherent, CoherentStatus
<1>2. CoherentStatus(updated')
  <2>1. CASE updated' \in {updated, NoStatus}
    BY <2>1, NoStatusCoherent DEF CoherenceInv
  <2>2. CASE updated' = Recomputed(latest, deploy, daemonSetCache)
    BY <2>2, RecomputedCoherent DEF StatusTypeOK
  <2>3. updated' \in {updated, NoStatus} \/ updated' = Recomputed(latest, deploy, daemonSetCache)
    <3>1. CASE Worker
      BY <3>1 DEF Worker, EnsureContour, GetContour, GetDeployment, GetDaemonSet,
                  UpdateStatus, RetryOnConflict, Finish, Forget
    <3>2. CASE ~Worker
      BY <3>2 DEF Next, vars, Restart, Forget, EditContour, DeleteContour, CreateContour,
                  ChangeWorkload, DeliverDeployment, DeliverDaemonSet, Tick
    <3>. QED BY <3>1, <3>2
  <2>. QED BY <2>1, <2>2, <2>3
<1>3. contour' # None => CoherentStatus(contour'.status)
  <2>1. CASE contour' # None /\ contour'.status = NoStatus
    BY <2>1, NoStatusCoherent
  <2>2. CASE contour' # None /\ contour'.status = updated
    BY <2>2 DEF CoherenceInv
  <2>3. CASE contour' # None /\ contour # None /\ contour'.status = contour.status
    BY <2>3 DEF CoherenceInv, Coherent
  <2>4. CASE UpdateStatus
    <3>1. CASE contour # None /\ contour' = [contour EXCEPT !.status = updated]
      BY <3>1, <2>2 DEF StatusTypeOK
    <3>2. CASE UNCHANGED contour
      BY <3>2, <2>3
    <3>. QED BY <2>4, <3>1, <3>2 DEF UpdateStatus
  <2>5. CASE EditContour
    <3>1. contour' # None /\ contour # None => contour'.status = contour.status
      BY <2>5 DEF EditContour, StatusTypeOK
    <3>. QED BY <2>5, <3>1, <2>3 DEF EditContour
  <2>6. CASE DeleteContour \/ CreateContour
    BY <2>6, <2>1 DEF DeleteContour, CreateContour
  <2>7. CASE ~UpdateStatus /\ ~EditContour /\ ~DeleteContour /\ ~CreateContour
    <3>1. UNCHANGED contour
      BY <2>7 DEF Next, vars, Worker, EnsureContour, GetContour, GetDeployment, GetDaemonSet,
                  Restart, ChangeWorkload, DeliverDeployment, DeliverDaemonSet, Tick
    <3>. QED BY <3>1, <2>3
  <2>. QED BY <2>4, <2>5, <2>6, <2>7
<1>. QED BY <1>1, <1>2, <1>3 DEF CoherenceInv

\* The number of Envoys and the condition that is stored with it are of one pass,
\* whatever conflicts, fails and lags.
THEOREM CoherenceCorrectness == SafetySpec => []Coherent
<1>1. Init => CoherenceInv
  BY NoStatusCoherent DEF Init, CoherenceInv, Coherent
<1>2. CoherenceInv => Coherent
  BY DEF CoherenceInv
<1>. QED BY <1>1, <1>2, InitType, NextType, NextCoherent, PTL DEF SafetySpec

----------------------------------------------------------------------------
(* The transition time. *)

\* The stored time is not in the future.
StoredInPast ==
  contour # None /\ contour.status.condition # None =>
    contour.status.condition.since <= clock

\* A copy that is current is of what is stored, and what is about to be stored follows
\* it: this is what the resourceVersion is for.
CurrentOK ==
  copy = "current" =>
    /\ contour # None
    /\ pc \in {"getDeployment", "getDaemonSet"} => latest = contour.status
    /\ pc = "update" => Follows(contour.status.condition, updated.condition)

TransitionInv == StoredInPast /\ CurrentOK

\* What follows a condition still follows it when time has gone on.
LEMMA FollowsLater ==
  ASSUME NEW was \in Conditions \cup {None}, NEW is \in Conditions \cup {None},
         Follows(was, is), clock \in 0..MaxClock, clock' \in 0..MaxClock, clock' >= clock
  PROVE  /\ is # None /\ is.since <= clock'
         /\ was # None => /\ is.status = was.status => is.since = was.since
                          /\ is.since >= was.since
<1>1. is # None => is.since \in Nat
  BY BoundsAssumption DEF Conditions
<1>. QED BY <1>1, BoundsAssumption DEF Follows

\* Only UpdateStatus changes the status of a Contour that stays, and then to what the
\* pass has computed from a copy that is current.
LEMMA StatusChanges ==
  ASSUME StatusTypeOK, [Next]_vars, contour # None, contour' # None,
         contour'.status # contour.status
  PROVE  UpdateStatus /\ pc = "update" /\ copy = "current" /\ contour'.status = updated
<1>1. CASE UpdateStatus
  <2>1. ~ UNCHANGED contour
    OBVIOUS
  <2>2. contour' = [contour EXCEPT !.status = updated] => contour'.status = updated
    BY DEF StatusTypeOK
  <2>. QED BY <1>1, <2>1, <2>2 DEF UpdateStatus
<1>2. CASE EditContour
  BY <1>2 DEF EditContour, StatusTypeOK
<1>3. CASE DeleteContour \/ CreateContour
  BY <1>3 DEF DeleteContour, CreateContour
<1>4. CASE ~UpdateStatus /\ ~EditContour /\ ~DeleteContour /\ ~CreateContour
  <2>1. UNCHANGED contour
    BY <1>4 DEF Next, vars, Worker, EnsureContour, GetContour, GetDeployment, GetDaemonSet,
                Restart, ChangeWorkload, DeliverDeployment, DeliverDaemonSet, Tick
  <2>. QED BY <2>1
<1>. QED BY <1>1, <1>2, <1>3, <1>4

\* Time does not go back.
LEMMA ClockForward ==
  ASSUME StatusTypeOK, [Next]_vars
  PROVE  clock' >= clock
<1>1. clock \in Nat
  BY BoundsAssumption DEF StatusTypeOK
<1>2. UNCHANGED clock \/ clock' = clock + 1
  BY DEF Next, vars, Worker, EnsureContour, GetContour, GetDeployment, GetDaemonSet,
         UpdateStatus, Restart, EditContour, DeleteContour, CreateContour,
         ChangeWorkload, DeliverDeployment, DeliverDaemonSet, Tick
<1>. QED BY <1>1, <1>2

\* The stored time stays in the past: what is written was computed in the past.
LEMMA NextStoredInPast ==
  ASSUME StatusTypeOK, StatusTypeOK', TransitionInv, [Next]_vars
  PROVE  StoredInPast'
<1> SUFFICES ASSUME contour' # None, contour'.status.condition # None
             PROVE  contour'.status.condition.since <= clock'
  BY DEF StoredInPast
<1>1. clock' >= clock /\ clock \in Nat /\ clock' \in Nat
  BY ClockForward, BoundsAssumption DEF StatusTypeOK
<1>2. CASE contour = None
  <2>1. CASE CreateContour
    <3>1. contour'.status = NoStatus
      BY <2>1 DEF CreateContour
    <3>. QED BY <3>1 DEF NoStatus
  <2>2. CASE UpdateStatus
    BY <1>2, <2>2 DEF UpdateStatus
  <2>3. CASE ~CreateContour /\ ~UpdateStatus
    BY <1>2, <2>3 DEF Next, vars, Worker, EnsureContour, GetContour, GetDeployment,
                      GetDaemonSet, Restart, EditContour, DeleteContour, ChangeWorkload,
                      DeliverDeployment, DeliverDaemonSet, Tick
  <2>. QED BY <2>1, <2>2, <2>3
<1>3. contour'.status.condition.since \in Nat
  BY BoundsAssumption DEF StatusTypeOK, ContourStatuses, Conditions
<1>4. CASE contour # None /\ contour'.status = contour.status
  BY <1>1, <1>3, <1>4 DEF TransitionInv, StoredInPast
<1>5. CASE contour # None /\ contour'.status # contour.status
  <2>1. pc = "update" /\ copy = "current" /\ contour'.status = updated
    BY <1>5, StatusChanges
  <2>2. Follows(contour.status.condition, updated.condition)
    BY <2>1 DEF TransitionInv, CurrentOK
  <2>. QED BY <1>1, <1>3, <2>1, <2>2 DEF Follows
<1>. QED BY <1>2, <1>4, <1>5

\* A copy stays current only as long as nobody writes the Contour.
LEMMA NextCurrent ==
  ASSUME StatusTypeOK, StatusTypeOK', TransitionInv, [Next]_vars
  PROVE  CurrentOK'
<1> SUFFICES ASSUME copy' = "current"
             PROVE  /\ contour' # None
                    /\ pc' \in {"getDeployment", "getDaemonSet"} => latest' = contour'.status
                    /\ pc' = "update" => Follows(contour.status.condition, updated.condition)'
  BY DEF CurrentOK, Follows
<1>1. CASE GetContour
  BY <1>1 DEF GetContour, Finish, Forget
<1>2. CASE GetDeployment
  BY <1>2 DEF GetDeployment, TransitionInv, CurrentOK
<1>3. CASE GetDaemonSet
  <2>1. /\ copy = "current" /\ pc' = "update"
        /\ updated' = Recomputed(latest, deploy, daemonSetCache)
        /\ UNCHANGED << contour, clock >>
    BY <1>3 DEF GetDaemonSet, Finish, Forget
  <2>2. contour # None /\ latest = contour.status
    BY <1>3, <2>1 DEF GetDaemonSet, TransitionInv, CurrentOK
  <2>3. Follows(contour.status.condition, updated'.condition)
    BY <2>1, <2>2, RecomputedFollows DEF TransitionInv, StoredInPast, StatusTypeOK
  <2>. QED BY <2>1, <2>2, <2>3 DEF Follows
<1>4. CASE EnsureContour \/ UpdateStatus \/ Restart
  BY <1>4 DEF EnsureContour, UpdateStatus, RetryOnConflict, Restart, Finish, Forget,
              TransitionInv, CurrentOK
<1>5. CASE EditContour \/ DeleteContour \/ CreateContour
  BY <1>5 DEF EditContour, DeleteContour, CreateContour, TransitionInv, CurrentOK
<1>6. CASE ChangeWorkload \/ DeliverDeployment \/ DeliverDaemonSet \/ UNCHANGED vars
  BY <1>6 DEF ChangeWorkload, DeliverDeployment, DeliverDaemonSet, vars, TransitionInv,
              CurrentOK, Follows
<1>7. CASE Tick
  <2>1. UNCHANGED << contour, updated, pc, copy, latest >>
    BY <1>7 DEF Tick
  <2>2. contour # None
    BY <2>1 DEF TransitionInv, CurrentOK
  <2>3. clock \in 0..MaxClock /\ clock' \in 0..MaxClock /\ clock' >= clock
    BY ClockForward DEF StatusTypeOK
  <2>4. contour.status.condition \in Conditions \cup {None}
        /\ updated.condition \in Conditions \cup {None}
    BY <2>2 DEF StatusTypeOK, ContourStatuses
  <2>5. pc = "update" => Follows(contour.status.condition, updated.condition)
    BY <2>1 DEF TransitionInv, CurrentOK
  <2>6. pc = "update" => Follows(contour.status.condition, updated.condition)'
    BY <2>1, <2>3, <2>4, <2>5, FollowsLater DEF Follows
  <2>. QED BY <2>1, <2>2, <2>6 DEF TransitionInv, CurrentOK
<1>. QED BY <1>1, <1>2, <1>3, <1>4, <1>5, <1>6, <1>7 DEF Next, Worker

\* The transition time moves only with the status of the condition, and never back,
\* between any two versions of a Contour.
THEOREM TransitionCorrectness == SafetySpec => TransitionTimed
<1> DEFINE Timed ==
      /\ contour # None /\ contour' # None
      /\ contour.status.condition # None
      => LET was == contour.status.condition
             is  == contour'.status.condition
         IN  /\ is # None
             /\ is.status = was.status => is.since = was.since
             /\ is.since >= was.since
<1>1. Init => TransitionInv
  BY DEF Init, TransitionInv, StoredInPast, CurrentOK, NoStatus
<1>2. StatusTypeOK /\ TransitionInv /\ [Next]_vars => TransitionInv'
  BY NextType, NextStoredInPast, NextCurrent DEF TransitionInv
<1>3. StatusTypeOK /\ TransitionInv /\ [Next]_vars => [Timed]_vars
  <2> SUFFICES ASSUME StatusTypeOK, TransitionInv, [Next]_vars,
                      contour # None, contour' # None, contour.status.condition # None
               PROVE  /\ contour'.status.condition # None
                      /\ contour'.status.condition.status = contour.status.condition.status
                         => contour'.status.condition.since = contour.status.condition.since
                      /\ contour'.status.condition.since >= contour.status.condition.since
    OBVIOUS
  <2>1. contour.status.condition.since \in Nat
    BY BoundsAssumption DEF StatusTypeOK, ContourStatuses, Conditions
  <2>2. CASE contour'.status = contour.status
    BY <2>1, <2>2
  <2>3. CASE contour'.status # contour.status
    <3>1. pc = "update" /\ copy = "current" /\ contour'.status = updated
      BY <2>3, StatusChanges
    <3>2. Follows(contour.status.condition, updated.condition)
      BY <3>1 DEF TransitionInv, CurrentOK
    <3>. QED BY <3>1, <3>2 DEF Follows
  <2>. QED BY <2>2, <2>3
<1>. QED BY <1>1, <1>2, <1>3, InitType, NextType, PTL DEF SafetySpec, TransitionTimed

----------------------------------------------------------------------------
(* No change of the workloads is forgotten. *)

Ours(w) == w # None /\ w.ours

\* What a pass says when it ends is what the informers say, as long as it has not been
\* called again.
IdleAgrees ==
  pc = "idle" /\ ~queued /\ contour # None /\ Ours(deploymentCache) /\ Ours(daemonSetCache)
    => AgreesWith(deploymentCache, daemonSetCache)

\* The Deployment that was found is still the informer's when the DaemonSet is read ...
FoundCurrent ==
  pc = "getDaemonSet" /\ ~queued /\ Ours(deploymentCache) => deploy = deploymentCache

\* ... and the status that was read the stored one, unless a pass is due.
CopyKept ==
  pc \in {"getDeployment", "getDaemonSet", "update"} /\ ~queued => copy = "current"

AttentionInv == IdleAgrees /\ FoundCurrent /\ CopyKept

\* A status that merging leaves as it was says what was found.
LEMMA UnchangedAgrees ==
  ASSUME NEW s \in ContourStatuses, NEW d \in Deployments, NEW e \in DaemonSets,
         clock \in 0..MaxClock, Recomputed(s, d, e) = s
  PROVE  /\ s.contours = d.available /\ s.envoys = e.available
         /\ s.condition # None /\ s.condition.message = Verdict(d, e)
<1>1. d # None /\ e # None
  BY NoneAssumption
<1>2. Recomputed(s, d, e).contours = d.available /\ Recomputed(s, d, e).envoys = e.available
  BY <1>1 DEF Recomputed
<1>3. Recomputed(s, d, e).condition.message = Verdict(d, e)
  BY UpdateType, MergeResult DEF Recomputed, ContourStatuses
<1>4. Recomputed(s, d, e).condition # None
  BY RecomputedType
<1>. QED BY <1>2, <1>3, <1>4

\* The worker becomes idle without being called again only where nothing had to be
\* written: every write brings an event, and every error a retry.
LEMMA NextIdleAgrees ==
  ASSUME StatusTypeOK, CurrentOK, AttentionInv, [Next]_vars
  PROVE  IdleAgrees'
<1> SUFFICES ASSUME pc' = "idle", ~queued', contour' # None,
                    Ours(deploymentCache'), Ours(daemonSetCache')
             PROVE  AgreesWith(deploymentCache, daemonSetCache)'
  BY DEF IdleAgrees, Ours
<1>1. CASE EnsureContour
  BY <1>1 DEF EnsureContour
<1>2. CASE GetContour
  BY <1>2 DEF GetContour, Finish
<1>3. CASE GetDeployment
  BY <1>3 DEF GetDeployment
<1>4. CASE GetDaemonSet
  <2>1. /\ pc = "getDaemonSet" /\ ~queued
        /\ Recomputed(latest, deploy, daemonSetCache) = latest
        /\ UNCHANGED << contour, deploymentCache, daemonSetCache >>
    BY <1>4 DEF GetDaemonSet, Finish, ContourStatusChanged
  <2>2. deploy = deploymentCache /\ latest = contour.status
    BY <2>1 DEF AttentionInv, FoundCurrent, CopyKept, CurrentOK, Ours
  <2>3. deploymentCache \in Deployments /\ daemonSetCache \in DaemonSets
    BY <2>1 DEF StatusTypeOK, Ours
  <2>4. AgreesWith(deploymentCache, daemonSetCache)
    BY <2>1, <2>2, <2>3, UnchangedAgrees DEF StatusTypeOK, AgreesWith
  <2>. QED BY <2>1, <2>4 DEF AgreesWith
<1>5. CASE UpdateStatus
  BY <1>5 DEF UpdateStatus, RetryOnConflict, Finish
<1>6. CASE Restart
  BY <1>6 DEF Restart
<1>7. CASE EditContour \/ DeleteContour \/ CreateContour
  BY <1>7 DEF EditContour, DeleteContour, CreateContour
<1>8. CASE ChangeWorkload \/ Tick \/ UNCHANGED vars
  BY <1>8 DEF ChangeWorkload, Tick, vars, AttentionInv, IdleAgrees, AgreesWith, Ours
<1>9. CASE DeliverDeployment
  BY <1>9 DEF DeliverDeployment, QueuedBy, Ours
<1>10. CASE DeliverDaemonSet
  BY <1>10 DEF DeliverDaemonSet, QueuedBy, Ours
<1>. QED BY <1>1, <1>2, <1>3, <1>4, <1>5, <1>6, <1>7, <1>8, <1>9, <1>10 DEF Next, Worker

\* Between the two reads the informer may bring another Deployment, but then a pass is
\* due.
LEMMA NextFoundCurrent ==
  ASSUME StatusTypeOK, AttentionInv, [Next]_vars
  PROVE  FoundCurrent'
<1> SUFFICES ASSUME pc' = "getDaemonSet", ~queued', Ours(deploymentCache')
             PROVE  deploy' = deploymentCache'
  BY DEF FoundCurrent, Ours
<1>1. CASE GetDeployment
  BY <1>1 DEF GetDeployment
<1>2. CASE EnsureContour \/ GetContour \/ GetDaemonSet \/ UpdateStatus \/ Restart
  BY <1>2 DEF EnsureContour, GetContour, GetDaemonSet, UpdateStatus, RetryOnConflict,
              Restart, Finish, Forget, AttentionInv, FoundCurrent
<1>3. CASE EditContour \/ DeleteContour \/ CreateContour
  BY <1>3 DEF EditContour, DeleteContour, CreateContour, AttentionInv, FoundCurrent
<1>4. CASE ChangeWorkload \/ Tick \/ DeliverDaemonSet \/ UNCHANGED vars
  BY <1>4 DEF ChangeWorkload, Tick, DeliverDaemonSet, vars, AttentionInv, FoundCurrent, Ours
<1>5. CASE DeliverDeployment
  BY <1>5 DEF DeliverDeployment, QueuedBy, Ours
<1>. QED BY <1>1, <1>2, <1>3, <1>4, <1>5 DEF Next, Worker

\* Whoever writes the Contour in the course of a pass makes the next one due.
LEMMA NextCopyKept ==
  ASSUME StatusTypeOK, AttentionInv, [Next]_vars
  PROVE  CopyKept'
<1> SUFFICES ASSUME pc' \in {"getDeployment", "getDaemonSet", "update"}, ~queued'
             PROVE  copy' = "current"
  BY DEF CopyKept
<1>1. CASE Worker
  BY <1>1 DEF Worker, EnsureContour, GetContour, GetDeployment, GetDaemonSet, UpdateStatus,
              RetryOnConflict, Finish, Forget, AttentionInv, CopyKept
<1>2. CASE Restart \/ EditContour \/ DeleteContour \/ CreateContour
  BY <1>2 DEF Restart, Forget, EditContour, DeleteContour, CreateContour, AttentionInv, CopyKept
<1>3. CASE ChangeWorkload \/ Tick \/ DeliverDeployment \/ DeliverDaemonSet \/ UNCHANGED vars
  BY <1>3 DEF ChangeWorkload, Tick, DeliverDeployment, DeliverDaemonSet, vars, AttentionInv,
              CopyKept
<1>. QED BY <1>1, <1>2, <1>3 DEF Next

\* A status that is not true is not forgotten, whatever conflicts, fails and lags, for
\* any number of edits, changes and crashes: what AgreesEventually needs beside
\* fairness.
THEOREM StatusAttentionCorrectness == SafetySpec => []NoLostStatus
<1>1. Init => CurrentOK /\ StoredInPast /\ AttentionInv
  BY DEF Init, CurrentOK, StoredInPast, NoStatus, AttentionInv, IdleAgrees, FoundCurrent, CopyKept
<1>2. /\ StatusTypeOK /\ TransitionInv /\ AttentionInv /\ [Next]_vars
      => TransitionInv' /\ AttentionInv'
  BY NextType, NextStoredInPast, NextCurrent, NextIdleAgrees, NextFoundCurrent, NextCopyKept
     DEF TransitionInv, AttentionInv
<1>3. AttentionInv /\ StatusTypeOK => NoLostStatus
  BY DEF AttentionInv, IdleAgrees, NoLostStatus, BothOurs, Agrees, Ours, StatusTypeOK
<1>. QED BY <1>1, <1>2, <1>3, InitType, NextType, PTL DEF SafetySpec, TransitionInv

===============================================================================
