----------------------------- MODULE ObjectUpdates -----------------------------
(***************************************************************************)
(* One child object of a Contour and everybody who writes to it.  The      *)
(* Ensure function of its kind compares the informer's copy with what it   *)
(* expects, by that kind's own fields, and updates, replaces or recreates  *)
(* the object; between passes others label it, annotate it, change it,     *)
(* delete it, or put one with another selector or roleRef in its place.    *)
(* ContourController has all objects but one value for the content of      *)
(* each; this module has one object and looks inside.  The Envoy Service   *)
(* is the subject of EnvoyService.                                         *)
(***************************************************************************)
EXTENDS Resources

CONSTANTS
  Kinds,            \* the kinds to look at
  MaxAttempts,      \* how often retryJobCreate tries within its three seconds
  MaxDisturbances,  \* how often others write to the object
  MaxFaults,        \* how many requests fail, or succeed and lose their reply
  None

ASSUME KindsAssumption == Kinds \subseteq AllResources \ {"envoyService"}

ASSUME AttemptsAssumption ==
  MaxAttempts \in Nat \ {0} /\ MaxDisturbances \in Nat /\ MaxFaults \in Nat

ServiceAccounts ==
  {"contourServiceAccount", "envoyServiceAccount", "certgenServiceAccount"}
Bindings == {"clusterRoleBinding", "certgenRoleBinding", "controllerRoleBinding"}

\* "owner" stands for the two owning-contour labels, "ours" for the others the
\* operator sets, "automatic" for kubernetes.io/metadata.name.
Labels == {"owner", "ours", "automatic", "others"}

\* `content` is what the kind's comparison looks at beside the labels, `fixed` what
\* the API server lets nobody change, `extra` what no comparison looks at
\* (annotations, the secrets of a ServiceAccount, unknown keys).
Objects ==
  [ labels : SUBSET Labels, content : {"wanted", "drifted"}, fixed : {"wanted", "other"},
    extra : BOOLEAN, terminating : BOOLEAN ]

ASSUME NoneAssumption == None \notin Objects

VARIABLES
  kind,      \* the kind of the object
  obj,       \* the stored object, or None
  cache,     \* the informer's copy
  current,   \* whether that is of the stored version
  attempts,  \* how often the Job's creation may still be tried; 0 outside the loop
  outcome,   \* how the last pass ended
  left       \* what is left of the bounds

vars == << kind, obj, cache, current, attempts, outcome, left >>

HasContent(k) == k \notin {"namespace"} \cup ServiceAccounts
HasFixed(k) == k \in SelectorKinds \cup Bindings

----------------------------------------------------------------------------
(* What the operator expects, and how it compares. *)

ExpectedLabels(k) ==
  {"owner"} \cup (IF k \in {"deployment", "daemonSet", "job"} THEN {"ours"} ELSE {})

Expected(k) ==
  [ labels |-> ExpectedLabels(k), content |-> "wanted", fixed |-> "wanted",
    extra |-> FALSE, terminating |-> FALSE ]

LabelsCompared(k) == k \notin {"configMap", "contourService"}

\* A bug: no update carries a resourceVersion.
ReplacingAlways(k) == TRUE

\* The kinds for which the update sends the expected object, not a changed copy.
Replacing(k) == k \notin ConditionalUpdate

\* A bug: labels are not compared.
ContentChanged(k, o) == o.content # Expected(k).content

\* A bug: the labels that a controller adds to a Job's pods count as a difference.
GeneratedLabelsChanged(k, o) ==
  k = "job" \/ o.labels # Expected(k).labels \/ o.content # Expected(k).content

\* The ...ConfigChanged functions and cfgMapChanged. The selector of a Deployment or a
\* DaemonSet has been compared before.
Changed(k, o) ==
  \/ LabelsCompared(k) /\ o.labels # Expected(k).labels
  \/ o.content # Expected(k).content
  \/ k \in Bindings /\ o.fixed # Expected(k).fixed

\* A bug: every kind sends the expected object.
UpdatedWhole(k, o) == Expected(k)

\* A bug: the copy gets the content but keeps its labels.
UpdatedContent(k, o) == [o EXCEPT !.content = Expected(k).content]

\* The object that is written if it has changed.
Updated(k, o) ==
  IF Replacing(k) THEN Expected(k)
  ELSE [o EXCEPT !.labels  = IF LabelsCompared(k) THEN Expected(k).labels ELSE @,
                 !.content = Expected(k).content,
                 !.fixed   = Expected(k).fixed]

\* A bug: the labels are not looked at.
OwnedByName(o) == TRUE

Owned(o) == "owner" \in o.labels

----------------------------------------------------------------------------
(* The API server. *)

\* What it makes of an object: a namespace is labelled with its name.
Defaulted(k, o) ==
  IF k = "namespace" THEN [o EXCEPT !.labels = @ \cup {"automatic"}] ELSE o

\* An Update needs an object, the current resourceVersion if it carries one, and
\* leaves alone what is immutable.
UpdateAccepted(o) ==
  /\ obj # None
  /\ Replacing(kind) \/ current
  /\ HasFixed(kind) => o.fixed = obj.fixed

\* Writing an object that is like the stored one makes no new version.
Store(o) ==
  /\ obj' = o
  /\ current' = (current /\ o = obj)

Spend(what) == left[what] > 0 /\ left' = [left EXCEPT ![what] = @ - 1]

\* A request for o is served; or fails before or after it took effect.
Request(o) ==
  \/ Store(o) /\ outcome' = "ensured" /\ UNCHANGED left
  \/ Spend("faults") /\ outcome' = "failed" /\ (Store(o) \/ UNCHANGED << obj, current >>)

Rejected == outcome' = "failed" /\ UNCHANGED << obj, current, left >>

----------------------------------------------------------------------------
(* A pass over the object. Reading the cache and the write that follows are one
   step, since the cache may be out of date at any time. *)

Init ==
  /\ kind \in Kinds
  /\ obj = None /\ cache = None /\ current = TRUE
  /\ attempts = 0
  /\ outcome = "pending"
  /\ left = [disturbances |-> MaxDisturbances, faults |-> MaxFaults]

OtherSelector(o) == kind \in SelectorKinds /\ o.fixed # Expected(kind).fixed

CreateObject ==
  /\ attempts = 0 /\ cache = None
  /\ IF obj = None THEN Request(Defaulted(kind, Expected(kind))) ELSE Rejected
  /\ UNCHANGED << kind, cache, attempts >>

\* The pass succeeds with the object gone; its deletion is an event.
ReplaceSelector ==
  /\ attempts = 0 /\ cache # None
  /\ OtherSelector(cache)
  /\ IF Owned(cache) THEN Request(None)
     ELSE outcome' = "ensured" /\ UNCHANGED << obj, current, left >>
  /\ UNCHANGED << kind, cache, attempts >>

UpdateObject ==
  LET o == Defaulted(kind, Updated(kind, cache))
  IN  /\ attempts = 0 /\ cache # None /\ kind # "job"
      /\ ~OtherSelector(cache) /\ Owned(cache) /\ Changed(kind, cache)
      /\ IF UpdateAccepted(o) THEN Request(o) ELSE Rejected
      /\ UNCHANGED << kind, cache, attempts >>

\* A bug: one more try than there is time for.
TriesAndOneMore == MaxAttempts + 1

\* At once, and then after every second up to the timeout.
Tries == MaxAttempts

\* recreateJobIfNeeded deletes the Job, which stays until its pods are orphaned, ...
DeleteJob ==
  LET doomed == IF obj = None THEN None ELSE [obj EXCEPT !.terminating = TRUE]
  IN  /\ attempts = 0 /\ cache # None /\ kind = "job"
      /\ Owned(cache) /\ Changed(kind, cache)
      /\ \/ /\ Store(doomed)
            /\ attempts' = Tries /\ outcome' = "pending"
            /\ UNCHANGED left
         \/ /\ Store(doomed) \/ UNCHANGED << obj, current >>
            /\ Spend("faults")
            /\ outcome' = "failed"
            /\ UNCHANGED attempts
      /\ UNCHANGED << kind, cache >>

\* ... and tries to create it, whatever the error, until the time is up.
RetryJobCreate ==
  /\ attempts > 0
  /\ \/ /\ obj = None
        /\ Store(Expected(kind))
        /\ \/ attempts' = 0 /\ outcome' = "ensured" /\ UNCHANGED left
           \/ /\ Spend("faults")
              /\ attempts' = attempts - 1
              /\ outcome' = IF attempts = 1 THEN "failed" ELSE "pending"
     \/ /\ IF obj = None THEN Spend("faults") ELSE UNCHANGED left
        /\ attempts' = attempts - 1
        /\ outcome' = IF attempts = 1 THEN "failed" ELSE "pending"
        /\ UNCHANGED << obj, current >>
  /\ UNCHANGED << kind, cache >>

LeaveAlone ==
  /\ attempts = 0 /\ cache # None
  /\ ~OtherSelector(cache) /\ ~(Owned(cache) /\ Changed(kind, cache))
  /\ outcome' = "ensured"
  /\ UNCHANGED << kind, obj, cache, current, attempts, left >>

Pass ==
  \/ CreateObject \/ ReplaceSelector \/ UpdateObject
  \/ DeleteJob \/ RetryJobCreate \/ LeaveAlone

\* The process dies between deleting the Job and creating it.
Crash ==
  /\ attempts > 0
  /\ Spend("faults")
  /\ attempts' = 0 /\ outcome' = "failed"
  /\ cache' = obj /\ current' = TRUE
  /\ UNCHANGED << kind, obj >>

----------------------------------------------------------------------------
(* Everybody else. *)

Deliver ==
  /\ ~current
  /\ cache' = obj /\ current' = TRUE
  /\ UNCHANGED << kind, obj, attempts, outcome, left >>

\* The garbage collector has orphaned the pods of a deleted Job.
Collect ==
  /\ obj # None /\ obj.terminating
  /\ obj' = None /\ current' = FALSE
  /\ UNCHANGED << kind, cache, attempts, outcome, left >>

\* What others may make of the object: labels come and go, compared and other fields
\* change, it is deleted (a finished Job by its TTL), or an object with another
\* selector or roleRef, but with the operator's labels, replaces it.
Variants ==
  { [obj EXCEPT !.labels = (obj.labels \ {"owner", "others"}) \cup ls] :
      ls \in SUBSET {"owner", "others"} }
  \cup (IF HasContent(kind) THEN { [obj EXCEPT !.content = "drifted"] } ELSE {})
  \cup { [obj EXCEPT !.extra = ~@], None }
  \cup (IF HasFixed(kind) THEN { [Expected(kind) EXCEPT !.fixed = "other"] } ELSE {})

Disturb ==
  /\ obj # None
  /\ Spend("disturbances")
  /\ obj' \in Variants \ {obj}
  /\ current' = FALSE
  /\ outcome' = "pending"
  /\ UNCHANGED << kind, cache, attempts >>

Next == Pass \/ Crash \/ Deliver \/ Collect \/ Disturb

\* Passes recur with every event and every resync.
Fairness == WF_vars(Pass) /\ WF_vars(Deliver) /\ WF_vars(Collect)

SafetySpec == Init /\ [][Next]_vars
Spec == SafetySpec /\ Fairness

----------------------------------------------------------------------------
(* Properties. *)

ObjectTypeOK ==
  /\ kind \in Kinds
  /\ obj \in Objects \cup {None} /\ cache \in Objects \cup {None}
  /\ current \in BOOLEAN /\ (current => cache = obj)
  /\ attempts \in 0..MaxAttempts /\ (attempts > 0 => kind = "job")
  /\ outcome \in {"pending", "ensured", "failed"}
  /\ left \in [{"disturbances", "faults"} -> Nat]

\* An object in order. A namespace is written by every pass, and what others have
\* added to it is gone.
Right(o) ==
  /\ ~o.terminating
  /\ LabelsCompared(kind) => o.labels = Defaulted(kind, Expected(kind)).labels
  /\ o.content = "wanted" /\ o.fixed = "wanted"
  /\ kind = "namespace" => ~o.extra

\* An object without the owner labels is not touched by a pass: where the update
\* carries a resourceVersion even if the informer's copy still has the labels, else
\* if the copy is current (updateClusterRoleIfNeeded and its likes: "using contour to
\* verify the existence of owner labels"). Deletions carry no resourceVersion.
StrangersUntouched ==
  [][ /\ Pass /\ obj # None /\ "owner" \notin obj.labels
      /\ current \/ (kind \in ConditionalUpdate /\ obj' # None)
      => obj' = obj ]_vars

\* What others have written beside the compared fields outlives the updates of a kind
\* that changes a copy, even if the informer has not seen it yet; of a ConfigMap this
\* goes for the labels too. The other kinds wipe it.
NothingLost ==
  [][ /\ Pass /\ kind \in ConditionalUpdate /\ obj # None /\ obj' # None
      => /\ obj'.extra = obj.extra
         /\ ~LabelsCompared(kind) => obj'.labels = obj.labels ]_vars

\* A pass that starts from a current copy and reports success leaves the object in
\* order, a stranger's, or deleted for its selector; and what it did not have to do
\* again it leaves to the next pass as nothing to do.
PassRepairs ==
  [][ /\ Pass /\ current /\ outcome' = "ensured" /\ obj' # None /\ Owned(obj')
      /\ ~obj'.terminating
      => Right(obj') ]_vars

\* A pass leaves an object in order as it is: the same version, no Job run anew, no
\* rollout; also the namespace, which differs from what is expected by the label that
\* Kubernetes adds and is updated by every pass (equality.go:311).
NoChurn ==
  [][ Pass /\ current /\ obj # None /\ Right(obj) => obj' = obj ]_vars

\* What ChildObject tells apart: the owner labels, the selector, and whether all that
\* is compared is as wanted.
LookOf(o) ==
  CASE o = None                                    -> "absent"
    [] o # None /\ ~Owned(o)                       -> "foreign"
    [] o # None /\ Owned(o) /\ OtherSelector(o)    -> "oldSelector"
    [] o # None /\ Owned(o) /\ ~OtherSelector(o)   ->
         IF Right([o EXCEPT !.extra = FALSE, !.terminating = FALSE])
         THEN "wanted" ELSE "drifted"

Child == INSTANCE ChildObject
  WITH stored       <- LookOf(obj),
       seen         <- LookOf(cache),
       doomed       <- obj # None /\ obj.terminating,
       disturbances <- left["disturbances"]

\* What any Ensure function does to its object, by whichever fields it compares and
\* whatever it sends, is what ContourController takes it to do: it creates where the
\* copy shows nothing, writes what it wants over what the copy shows to be the
\* operator's and to differ, and else leaves the object alone.
KeepsObject == Child!ChildSpec

\* A binding with the operator's labels but another roleRef is not repaired: the API
\* server rejects each update (equality.go:381).
Stuck == obj # None /\ kind \in Bindings /\ obj.fixed = "other"

\* However others disturb the object, requests fail and the informer lags, at last it
\* is there and in order, unless it is a stranger's.
RepairedEventually ==
  <>[](Stuck \/ (obj # None /\ (Owned(obj) => Right(obj))))
===============================================================================
