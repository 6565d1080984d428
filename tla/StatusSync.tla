------------------------------ MODULE StatusSync ------------------------------
(***************************************************************************)
(* The status of one Contour.  SyncContour reads the Contour again, then   *)
(* the Deployment and the DaemonSet from the informer cache, one after the *)
(* other, merges what it computes into the status it read, and writes the  *)
(* result with the resourceVersion it read; on a conflict it calls itself. *)
(* Each of these requests is a step here, between any two of which users   *)
(* and the workloads' controllers may act.  ContourController takes        *)
(* SyncContour as one step; what comes before it in a pass is one step     *)
(* here.  A finalized Contour is assumed.                                  *)
(***************************************************************************)
EXTENDS Naturals

CONSTANTS
  DeploymentReports,  \* what the Deployment controller may report
  EnvoyCounts,        \* what the DaemonSet controller may report
  MaxChanges,         \* how often a workload changes
  MaxEdits,           \* how often users edit, delete or create the Contour
  MaxFaults,          \* failed requests and crashes
  MaxClock,           \* the last instant that time.Now may return
  None

ASSUME ReportsAssumption ==
  /\ DeploymentReports \subseteq
       [available : Nat, condition : {"True", "False", "Unreported"}]
  /\ [available |-> 0, condition |-> "Unreported"] \in DeploymentReports
  /\ EnvoyCounts \subseteq Nat /\ 0 \in EnvoyCounts

ASSUME BoundsAssumption == {MaxChanges, MaxEdits, MaxFaults, MaxClock} \subseteq Nat

VARIABLES
  contour,          \* the stored Contour, or None
  deployment,       \* the stored Deployment, or None ...
  daemonSet,        \* ... and DaemonSet
  deploymentCache,  \* the informers' copies of them
  daemonSetCache,
  queued,           \* whether the Contour is in the work queue
  pc,               \* what the worker does next
  latest,           \* the status SyncContour has read
  copy,             \* whether that copy is of the stored version of the Contour
  deploy,           \* the Deployment it has found
  updated,          \* the status it means to write
  errs,             \* whether the pass has collected an error
  clock,
  left              \* what is left of the bounds

workloads == << deployment, daemonSet >>
caches == << deploymentCache, daemonSetCache >>
worker == << pc, latest, copy, deploy, updated, errs >>
vars == << contour, workloads, caches, queued, worker, clock, left >>

Statuses == {"True", "False", "Unknown"}
Messages == { "available", "noEnvoys", "noContours", "neither", "unknown",
              "deploymentMissing", "daemonSetMissing" }

Conditions == [status : Statuses, message : Messages, since : 0..MaxClock]
ContourStatuses ==
  [contours : Nat, envoys : EnvoyCounts, condition : Conditions \cup {None}]

\* Whether the owning-contour labels are there: a workload of the same name that
\* somebody else has made lacks them, and is found all the same.
Reported(o, r) == [ours |-> o, available |-> r.available, condition |-> r.condition]
Deployments == { Reported(o, r) : o \in BOOLEAN, r \in DeploymentReports }
DaemonSets == [ours : BOOLEAN, available : EnvoyCounts]

ASSUME NoneAssumption ==
  None \notin Conditions \cup Deployments \cup DaemonSets

NoStatus == [contours |-> 0, envoys |-> 0, condition |-> None]

Spend(kind) == left[kind] > 0 /\ left' = [left EXCEPT ![kind] = @ - 1]

Init ==
  /\ contour = [valid |-> TRUE, status |-> NoStatus]
  /\ deployment = None /\ daemonSet = None
  /\ deploymentCache = None /\ daemonSetCache = None
  /\ queued = TRUE
  /\ pc = "idle" /\ latest = NoStatus /\ copy = "former" /\ deploy = None
  /\ updated = NoStatus /\ errs = FALSE
  /\ clock = 0
  /\ left = [changes |-> MaxChanges, edits |-> MaxEdits, faults |-> MaxFaults]

----------------------------------------------------------------------------
(* The condition. *)

\* What computeContourAvailableCondition has to say of d and e; either may be None.
Verdict(d, e) ==
  CASE d = None                 -> "deploymentMissing"
    [] d # None /\ e = None     -> "daemonSetMissing"
    [] d # None /\ e # None     ->
         CASE d.condition = "True"       -> IF e.available > 0 THEN "available" ELSE "noEnvoys"
           [] d.condition = "False"      -> IF e.available > 0 THEN "noContours" ELSE "neither"
           [] d.condition = "Unreported" -> "unknown"

\* The reason goes with the status.
StatusOf(message) ==
  CASE message = "available" -> "True"
    [] message = "unknown"   -> "Unknown"
    [] OTHER                 -> "False"

\* A bug: only the status of the condition is compared.
ConditionStatusChanged(a, b) == a.status # b.status

ConditionChanged(a, b) == a.status # b.status \/ a.message # b.message

\* A bug: each change of the condition moves the transition time.
MergedAfresh(condition, update) ==
  IF condition = None \/ ConditionChanged(condition, update) THEN update ELSE condition

\* The transition time moves only with the status.
MergeConditions(condition, update) ==
  CASE condition = None -> update
    [] condition # None /\ ~ConditionChanged(condition, update) -> condition
    [] condition # None /\ ConditionChanged(condition, update) ->
         IF condition.status = update.status
         THEN [update EXCEPT !.since = condition.since] ELSE update

\* A bug: the two numbers are swapped.
RecomputedSwapped(s, d, e) ==
  [ contours  |-> IF e = None THEN s.contours ELSE e.available,
    envoys    |-> IF d = None THEN s.envoys ELSE d.available,
    condition |-> s.condition ]

\* The status after merging what was found into s. A number whose workload was
\* not found stays what it was.
Recomputed(s, d, e) ==
  [ contours  |-> IF d = None THEN s.contours ELSE d.available,
    envoys    |-> IF e = None THEN s.envoys ELSE e.available,
    condition |-> MergeConditions(s.condition,
                    [ status  |-> StatusOf(Verdict(d, e)),
                      message |-> Verdict(d, e),
                      since   |-> clock ]) ]

\* A bug: the number of Envoys is not compared.
ConditionOrContoursChanged(current, expected) ==
  current.contours # expected.contours \/ current.condition # expected.condition

ContourStatusChanged(current, expected) == current # expected

----------------------------------------------------------------------------
(* A pass of the worker. *)

\* What a pass remembers is forgotten with it.
Forget ==
  /\ pc' = "idle"
  /\ latest' = NoStatus /\ copy' = "former" /\ deploy' = None /\ updated' = NoStatus
  /\ errs' = FALSE

\* A bug: the errors of a pass are logged, not returned.
FinishSwallowing(failed, event) == Forget /\ queued' = (queued \/ event)

\* The pass ends, and failed passes are retried.
Finish(failed, event) == Forget /\ queued' = (queued \/ failed \/ event)

\* What is missing in the cache is created, which fails if it is there after all.
Ensured(cached, stored, new) == IF cached = None /\ stored = None THEN new ELSE stored
EnsureFails(cached, stored) == cached = None /\ stored # None

NewDeployment == [ours |-> TRUE, available |-> 0, condition |-> "Unreported"]
NewDaemonSet == [ours |-> TRUE, available |-> 0]

\* The part of the pass before SyncContour. An error may keep it from both workloads
\* or from one, or come after the object was created; SyncContour is called anyway. A
\* Contour that validation turns away goes back to the queue unchanged, which is no step.
EnsureContour ==
  LET deploymentMade == Ensured(deploymentCache, deployment, NewDeployment)
      daemonSetMade  == Ensured(daemonSetCache, daemonSet, NewDaemonSet)
  IN  /\ pc = "idle" /\ queued
      /\ queued' = FALSE
      /\ IF contour = None
         THEN UNCHANGED << pc, errs, workloads, left >>
         ELSE /\ contour.valid
              /\ pc' = "get"
              /\ \/ /\ deployment' = deploymentMade /\ daemonSet' = daemonSetMade
                    /\ errs' = \/ EnsureFails(deploymentCache, deployment)
                               \/ EnsureFails(daemonSetCache, daemonSet)
                    /\ UNCHANGED left
                 \/ /\ deployment' \in {deployment, deploymentMade}
                    /\ daemonSet' \in {daemonSet, daemonSetMade}
                    /\ errs' = TRUE
                    /\ Spend("faults")
      /\ UNCHANGED << contour, caches, latest, copy, deploy, updated, clock >>

GetContour ==
  /\ pc = "get"
  /\ \/ /\ contour # None
        /\ latest' = contour.status /\ copy' = "current" /\ pc' = "getDeployment"
        /\ UNCHANGED << deploy, updated, errs, queued, left >>
     \/ /\ contour = None
        /\ Finish(errs, FALSE)
        /\ UNCHANGED left
     \/ /\ Spend("faults")
        /\ Finish(TRUE, FALSE)
  /\ UNCHANGED << contour, workloads, caches, clock >>

GetDeployment ==
  /\ pc = "getDeployment"
  /\ deploy' = deploymentCache
  /\ errs' = (errs \/ deploymentCache = None)
  /\ pc' = "getDaemonSet"
  /\ UNCHANGED << contour, workloads, caches, queued, latest, copy, updated, clock, left >>

GetDaemonSet ==
  LET status == Recomputed(latest, deploy, daemonSetCache)
      failed == errs \/ daemonSetCache = None
  IN  /\ pc = "getDaemonSet"
      /\ IF ContourStatusChanged(latest, status)
         THEN /\ pc' = "update" /\ updated' = status /\ errs' = failed
              /\ latest' = NoStatus /\ deploy' = None
              /\ UNCHANGED << copy, queued >>
         ELSE Finish(failed, FALSE)
      /\ UNCHANGED << contour, workloads, caches, clock, left >>

\* A bug: the retry tries the outdated copy again.
RetryWithSameCopy == UNCHANGED << worker, queued >>

\* SyncContour calls itself, with the errors of this call still to be returned.
RetryOnConflict ==
  /\ pc' = "get" /\ updated' = NoStatus
  /\ UNCHANGED << latest, copy, deploy, errs, queued >>

\* A Contour that has gone is no error. The answer to a write that took effect may
\* be lost. A Contour created anew has another UID, the answer to which does not
\* contain "the object has been modified".
UpdateStatus ==
  /\ pc = "update"
  /\ \/ /\ contour # None /\ copy = "current"
        /\ contour' = [contour EXCEPT !.status = updated]
        /\ \/ Finish(errs, TRUE) /\ UNCHANGED left
           \/ Finish(TRUE, TRUE) /\ Spend("faults")
     \/ /\ contour # None /\ copy = "outdated"
        /\ RetryOnConflict
        /\ UNCHANGED << contour, left >>
     \/ /\ contour # None /\ copy = "former"
        /\ Finish(TRUE, FALSE)
        /\ UNCHANGED << contour, left >>
     \/ /\ contour = None
        /\ Finish(errs, FALSE)
        /\ UNCHANGED << contour, left >>
     \/ /\ Spend("faults")
        /\ Finish(TRUE, FALSE)
        /\ UNCHANGED contour
  /\ UNCHANGED << workloads, caches, clock >>

\* The process dies and starts again, listing everything.
Restart ==
  /\ Spend("faults")
  /\ Forget
  /\ queued' = (contour # None)
  /\ deploymentCache' = deployment /\ daemonSetCache' = daemonSet
  /\ UNCHANGED << contour, workloads, clock >>

Worker ==
  EnsureContour \/ GetContour \/ GetDeployment \/ GetDaemonSet \/ UpdateStatus

----------------------------------------------------------------------------
(* Everything else. *)

\* An edit of the spec may make it invalid, or valid again.
EditContour ==
  /\ contour # None
  /\ Spend("edits")
  /\ \E v \in BOOLEAN : contour' = [contour EXCEPT !.valid = v]
  /\ copy' = IF copy = "current" THEN "outdated" ELSE copy
  /\ queued' = TRUE
  /\ UNCHANGED << workloads, caches, pc, latest, deploy, updated, errs, clock >>

\* Somebody has stripped the finalizer.
DeleteContour ==
  /\ contour # None
  /\ Spend("edits")
  /\ contour' = None /\ copy' = "former" /\ queued' = TRUE
  /\ UNCHANGED << workloads, caches, pc, latest, deploy, updated, errs, clock >>

CreateContour ==
  /\ contour = None
  /\ Spend("edits")
  /\ contour' = [valid |-> TRUE, status |-> NoStatus] /\ queued' = TRUE
  /\ UNCHANGED << workloads, caches, worker, clock >>

\* A workload's controller reports, or somebody deletes the workload or makes one
\* of that name.
ChangeWorkload ==
  /\ Spend("changes")
  /\ \/ /\ \/ deployment # None
              /\ \E r \in DeploymentReports : deployment' = Reported(deployment.ours, r)
           \/ deployment # None /\ deployment' = None
           \/ /\ deployment = None
              /\ \E r \in DeploymentReports : deployment' = Reported(FALSE, r)
        /\ UNCHANGED daemonSet
     \/ /\ \/ /\ daemonSet # None
              /\ \E n \in EnvoyCounts : daemonSet' = [daemonSet EXCEPT !.available = n]
           \/ daemonSet # None /\ daemonSet' = None
           \/ /\ daemonSet = None
              /\ \E n \in EnvoyCounts : daemonSet' = [ours |-> FALSE, available |-> n]
        /\ UNCHANGED deployment
  /\ workloads' # workloads
  /\ UNCHANGED << contour, caches, queued, worker, clock >>

\* enqueueRequestForOwningContour maps the old and the new object of an event.
QueuedBy(old, new) == (old # None /\ old.ours) \/ (new # None /\ new.ours)

DeliverDeployment ==
  /\ deploymentCache # deployment
  /\ deploymentCache' = deployment
  /\ queued' = (queued \/ QueuedBy(deploymentCache, deployment))
  /\ UNCHANGED << contour, workloads, daemonSetCache, worker, clock, left >>

DeliverDaemonSet ==
  /\ daemonSetCache # daemonSet
  /\ daemonSetCache' = daemonSet
  /\ queued' = (queued \/ QueuedBy(daemonSetCache, daemonSet))
  /\ UNCHANGED << contour, workloads, deploymentCache, worker, clock, left >>

Tick ==
  /\ clock < MaxClock
  /\ clock' = clock + 1
  /\ UNCHANGED << contour, workloads, caches, queued, worker, left >>

Next ==
  \/ Worker \/ Restart
  \/ EditContour \/ DeleteContour \/ CreateContour \/ ChangeWorkload
  \/ DeliverDeployment \/ DeliverDaemonSet
  \/ Tick

Fairness == WF_vars(Worker) /\ WF_vars(DeliverDeployment) /\ WF_vars(DeliverDaemonSet)

SafetySpec == Init /\ [][Next]_vars
Spec == SafetySpec /\ Fairness

----------------------------------------------------------------------------
(* Properties. *)

StatusTypeOK ==
  /\ contour \in [valid : BOOLEAN, status : ContourStatuses] \cup {None}
  /\ deployment \in Deployments \cup {None} /\ deploymentCache \in Deployments \cup {None}
  /\ daemonSet \in DaemonSets \cup {None} /\ daemonSetCache \in DaemonSets \cup {None}
  /\ queued \in BOOLEAN
  /\ pc \in {"idle", "get", "getDeployment", "getDaemonSet", "update"}
  /\ latest \in ContourStatuses /\ updated \in ContourStatuses
  /\ copy \in {"current", "outdated", "former"}
  /\ deploy \in Deployments \cup {None}
  /\ errs \in BOOLEAN
  /\ clock \in 0..MaxClock
  /\ left \in [{"changes", "edits", "faults"} -> Nat]

\* The number of Envoys and the condition of a stored status are of one pass: where
\* the message speaks of the availability of Envoy, the number agrees, through
\* conflicts, retries and workloads that come and go (status.go:62, conditions.go:63).
CoherentStatus(s) ==
  s.condition # None =>
    /\ s.condition.status = StatusOf(s.condition.message)
    /\ s.condition.message \in {"available", "noContours"} => s.envoys > 0
    /\ s.condition.message \in {"noEnvoys", "neither"} => s.envoys = 0

Coherent == contour # None => CoherentStatus(contour.status)

\* "Only update the transition time if Status changes" (conditions.go:130), and then
\* to a time that is later than or equal to the former one: however many passes and
\* retries lie between two states of a Contour, as long as it is the same one.
TransitionTimed ==
  [][ /\ contour # None /\ contour' # None
      /\ contour.status.condition # None
      => LET was == contour.status.condition
             is  == contour'.status.condition
         IN  /\ is # None
             /\ is.status = was.status => is.since = was.since
             /\ is.since >= was.since ]_vars

\* Synchronising the status ends: neither the retries on conflicts (status.go:75) nor
\* the events of its own writes go on for ever once users, workloads and failures
\* have come to rest.
Invalid == contour # None /\ ~contour.valid

Rests == <>[](Invalid \/ (pc = "idle" /\ ~queued))

\* The stored status is what d and e amount to.
AgreesWith(d, e) ==
  /\ contour.status.contours = d.available
  /\ contour.status.envoys = e.available
  /\ contour.status.condition # None
  /\ contour.status.condition.message = Verdict(d, e)

Agrees == AgreesWith(deployment, daemonSet)

BothOurs ==
  deployment # None /\ daemonSet # None /\ deployment.ours /\ daemonSet.ours

\* A status that does not say what is true of the Contour's own workloads is never
\* forgotten: a pass is due or under way, or there is an event to come that brings one.
\* No resync has to make up for a pass that read one workload before and the other
\* after a change, for a conflict, or for an error (controller.go:80, status.go:44).
NoLostStatus ==
  contour # None /\ BothOurs /\ ~Agrees =>
    \/ queued \/ pc # "idle"
    \/ deploymentCache # deployment \/ daemonSetCache # daemonSet

\* The status comes to say what is true of the Contour's own workloads, whichever
\* events, conflicts, failures and stale reads come between (controller.go:80). Of
\* workloads without the labels no event arrives, and an invalid Contour is not looked at.
AgreesEventually == <>[](contour # None /\ contour.valid /\ BothOurs => Agrees)
===============================================================================
