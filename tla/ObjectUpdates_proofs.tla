------------------------- MODULE ObjectUpdates_proofs -------------------------
(***************************************************************************)
(* Proofs about ObjectUpdates, for every kind of object, any number of     *)
(* disturbances and faults, and any number of tries at a Job.              *)
(***************************************************************************)
EXTENDS ObjectUpdates, TLAPS

----------------------------------------------------------------------------
(* Lemmas about what a pass writes. *)

\* What is expected of a kind is an object, and so is what the API server makes of it.
LEMMA ExpectedType ==
  ASSUME NEW k \in Kinds
  PROVE  Expected(k) \in Objects /\ Defaulted(k, Expected(k)) \in Objects
<1>1. ExpectedLabels(k) \subseteq Labels
  BY DEF ExpectedLabels, Labels
<1>2. "automatic" \in Labels
  BY DEF Labels
<1>. QED BY <1>1, <1>2 DEF Expected, Defaulted, Objects

\* What a pass makes of the copy it has read is an object.
LEMMA UpdatedType ==
  ASSUME NEW k \in Kinds, NEW o \in Objects
  PROVE  Updated(k, o) \in Objects /\ Defaulted(k, Updated(k, o)) \in Objects
<1>1. ExpectedLabels(k) \subseteq Labels /\ "automatic" \in Labels
  BY DEF ExpectedLabels, Labels
<1>2. Updated(k, o) \in Objects
  BY <1>1, ExpectedType DEF Updated, Expected, Objects
<1>. QED BY <1>1, <1>2 DEF Defaulted, Objects

\* An update with a resourceVersion leaves alone what is beside the compared fields.
LEMMA UpdatedKeeps ==
  ASSUME NEW k \in Kinds \cap ConditionalUpdate, NEW o \in Objects
  PROVE  LET u == Defaulted(k, Updated(k, o))
         IN  /\ u.extra = o.extra
             /\ ~LabelsCompared(k) => u.labels = o.labels
<1>1. k # "namespace"
  BY DEF ConditionalUpdate
<1>. QED BY <1>1 DEF Defaulted, Updated, Replacing, Objects

\* What was written for the current copy is in order, unless it is being deleted.
LEMMA WrittenRight ==
  ASSUME kind \in Kinds, NEW o \in Objects
  PROVE  /\ Right(Defaulted(kind, Expected(kind)))
         /\ LET u == Defaulted(kind, Updated(kind, o))
            IN  ~u.terminating => Right(u)
<1>1. Right(Defaulted(kind, Expected(kind)))
  BY DEF Right, Defaulted, Expected
<1>2. CASE Replacing(kind)
  BY <1>1, <1>2 DEF Updated
<1>3. CASE ~Replacing(kind)
  <2>1. kind # "namespace"
    BY <1>3 DEF Replacing, ConditionalUpdate
  <2>2. Defaulted(kind, Updated(kind, o)) = Updated(kind, o)
    BY <2>1 DEF Defaulted
  <2>3. LabelsCompared(kind) => Updated(kind, o).labels = Expected(kind).labels
    BY <1>3 DEF Updated, Objects
  <2>4. Updated(kind, o).content = "wanted" /\ Updated(kind, o).fixed = "wanted"
    BY <1>3 DEF Updated, Objects, Expected
  <2>5. Defaulted(kind, Expected(kind)) = Expected(kind)
    BY <2>1 DEF Defaulted
  <2>6. Updated(kind, o).terminating \in BOOLEAN
    BY UpdatedType DEF Objects
  <2>7. ~Updated(kind, o).terminating => Right(Updated(kind, o))
    BY <2>1, <2>3, <2>4, <2>5, <2>6 DEF Right
  <2>. QED BY <1>1, <2>2, <2>7
<1>. QED BY <1>1, <1>2, <1>3

\* An object in order is not changed by a pass: either nothing differs, or it is a
\* namespace and what is written is what is there.
LEMMA RightStays ==
  ASSUME kind \in Kinds, NEW o \in Objects, Right(o)
  PROVE  /\ ~OtherSelector(o)
         /\ Changed(kind, o) => kind = "namespace" /\ Defaulted(kind, Updated(kind, o)) = o
<1>1. ~OtherSelector(o)
  BY DEF Right, OtherSelector, Expected
<1>2. CASE kind # "namespace"
  BY <1>1, <1>2 DEF Right, Changed, Defaulted, Expected
<1>3. CASE kind = "namespace"
  <2>1. Updated(kind, o) = Expected(kind)
    BY <1>3 DEF Updated, Replacing, ConditionalUpdate
  <2>2. o.labels = Defaulted(kind, Expected(kind)).labels
    BY <1>3 DEF Right, LabelsCompared
  <2>3. o.content = "wanted" /\ o.fixed = "wanted" /\ o.extra = FALSE /\ o.terminating = FALSE
    BY <1>3 DEF Right, Objects
  <2>4. Defaulted(kind, Expected(kind)) =
          [ labels |-> o.labels, content |-> "wanted", fixed |-> "wanted",
            extra |-> FALSE, terminating |-> FALSE ]
    BY <1>3, <2>2 DEF Defaulted, Expected
  <2>. QED BY <1>1, <1>3, <2>1, <2>3, <2>4 DEF Objects
<1>. QED BY <1>2, <1>3

----------------------------------------------------------------------------
(* The invariant. *)

\* What is immutable is as wanted in the kinds that have nothing immutable, and a
\* namespace has the label of Kubernetes.
ShapeOK(o) ==
  /\ o.fixed = "wanted" \/ HasFixed(kind)
  /\ kind = "namespace" => "automatic" \in o.labels

ObjectInv == ObjectTypeOK /\ (obj # None => ShapeOK(obj))

\* What the operator creates has the shape of its kind.
LEMMA ExpectedShape ==
  ASSUME kind \in Kinds, NEW o \in Objects
  PROVE  /\ ShapeOK(Expected(kind)) \/ kind = "namespace"
         /\ ShapeOK(Defaulted(kind, Expected(kind)))
         /\ ShapeOK(Defaulted(kind, Updated(kind, o)))
<1>1. Expected(kind).fixed = "wanted" /\ Updated(kind, o).fixed = "wanted"
  BY DEF Expected, Updated, Objects
<1>2. Updated(kind, o) \in Objects /\ Expected(kind) \in Objects
  BY UpdatedType, ExpectedType
<1>. QED BY <1>1, <1>2 DEF ShapeOK, Defaulted, Objects

\* The budget stays a number for each kind of trouble.
LEMMA SpendType ==
  ASSUME left \in [{"disturbances", "faults"} -> Nat],
         NEW what \in {"disturbances", "faults"}, Spend(what)
  PROVE  left' \in [{"disturbances", "faults"} -> Nat]
BY DEF Spend

\* What is stored is there, and the informer's copy is current only if it was and
\* nothing has changed.
LEMMA StoreType ==
  ASSUME current \in BOOLEAN, NEW o, Store(o)
  PROVE  obj' = o /\ current' \in BOOLEAN /\ (current' => current /\ obj' = obj)
<1>1. obj' = o /\ current' = (current /\ o = obj)
  BY DEF Store
<1>2. (current /\ o = obj) \in BOOLEAN
  BY Zenon
<1>3. current' => current /\ o = obj
  BY <1>1, Zenon
<1>. QED BY <1>1, <1>2, <1>3

\* A request leaves what was there, or what was asked for, which others know as the new
\* version if it differs.
LEMMA RequestType ==
  ASSUME ObjectInv, NEW o, o \in Objects => ShapeOK(o), o \in Objects \cup {None},
         Request(o), UNCHANGED << kind, cache, attempts >>
  PROVE  ObjectInv'
<1>1. left' \in [{"disturbances", "faults"} -> Nat]
  BY SpendType DEF Request, ObjectInv, ObjectTypeOK
<1>2. obj' \in {obj, o} /\ (current' => current /\ obj' = obj) /\ current' \in BOOLEAN
  <2>1. current \in BOOLEAN
    BY DEF ObjectInv, ObjectTypeOK
  <2>. QED BY <2>1, StoreType DEF Request
<1>3. outcome' \in {"pending", "ensured", "failed"}
  BY DEF Request
<1>. QED BY <1>1, <1>2, <1>3 DEF ObjectInv, ObjectTypeOK, ShapeOK

\* The steps of a pass keep the invariant.
LEMMA PassInv == ObjectInv /\ Pass => ObjectInv'
<1> SUFFICES ASSUME ObjectInv, Pass PROVE ObjectInv'
  OBVIOUS
<1>. USE DEF ObjectInv
<1>1. CASE CreateObject
  <2>1. Defaulted(kind, Expected(kind)) \in Objects /\ ShapeOK(Defaulted(kind, Expected(kind)))
    BY ExpectedType, ExpectedShape DEF ObjectTypeOK
  <2>2. CASE Request(Defaulted(kind, Expected(kind)))
    BY <1>1, <2>1, <2>2, RequestType DEF CreateObject
  <2>3. CASE Rejected
    BY <1>1, <2>3 DEF CreateObject, Rejected, ObjectTypeOK, ShapeOK
  <2>. QED BY <1>1, <2>2, <2>3 DEF CreateObject
<1>2. CASE ReplaceSelector
  <2>1. CASE Request(None)
    BY <1>2, <2>1, NoneAssumption, RequestType DEF ReplaceSelector
  <2>2. CASE ~Request(None)
    BY <1>2, <2>2 DEF ReplaceSelector, ObjectTypeOK, ShapeOK
  <2>. QED BY <2>1, <2>2
<1>3. CASE UpdateObject
  <2> DEFINE o == Defaulted(kind, Updated(kind, cache))
  <2>1. o \in Objects /\ ShapeOK(o)
    BY <1>3, UpdatedType, ExpectedShape DEF UpdateObject, ObjectTypeOK
  <2>2. CASE Request(o)
    BY <1>3, <2>1, <2>2, RequestType DEF UpdateObject
  <2>3. CASE Rejected
    BY <1>3, <2>3 DEF UpdateObject, Rejected, ObjectTypeOK, ShapeOK
  <2>. QED BY <1>3, <2>2, <2>3 DEF UpdateObject
<1>4. CASE DeleteJob
  <2> DEFINE doomed == IF obj = None THEN None ELSE [obj EXCEPT !.terminating = TRUE]
  <2>1. doomed \in Objects \cup {None} /\ (doomed # None => ShapeOK(doomed))
    BY DEF ObjectTypeOK, Objects, ShapeOK
  <2>2. left' \in [{"disturbances", "faults"} -> Nat]
    BY <1>4, SpendType DEF DeleteJob, ObjectTypeOK
  <2>3. /\ obj' \in {obj, doomed} /\ (current' => current /\ obj' = obj) /\ current' \in BOOLEAN
        /\ UNCHANGED << kind, cache >> /\ kind = "job"
    <3>1. current \in BOOLEAN
      BY DEF ObjectTypeOK
    <3>2. Store(doomed) \/ UNCHANGED << obj, current >>
      BY <1>4 DEF DeleteJob
    <3>3. UNCHANGED << kind, cache >> /\ kind = "job"
      BY <1>4 DEF DeleteJob
    <3> HIDE DEF doomed
    <3>. QED BY <3>1, <3>2, <3>3, StoreType
  <2>4. attempts' \in {attempts, MaxAttempts} /\ outcome' \in {"pending", "failed"}
    BY <1>4 DEF DeleteJob, Tries
  <2>5. attempts' \in 0..MaxAttempts
    BY <2>4, AttemptsAssumption DEF ObjectTypeOK
  <2> HIDE DEF doomed
  <2>. QED BY <2>1, <2>2, <2>3, <2>4, <2>5 DEF ObjectTypeOK, ShapeOK
<1>5. CASE RetryJobCreate
  <2>1. kind = "job" /\ attempts \in 1..MaxAttempts
    BY <1>5, AttemptsAssumption DEF RetryJobCreate, ObjectTypeOK
  <2>2. Expected(kind) \in Objects /\ ShapeOK(Expected(kind))
    BY <2>1, ExpectedType, ExpectedShape DEF ObjectTypeOK
  <2>3. left' \in [{"disturbances", "faults"} -> Nat]
    BY <1>5, SpendType DEF RetryJobCreate, ObjectTypeOK
  <2>4. /\ obj' \in {obj, Expected(kind)} /\ (current' => current /\ obj' = obj)
        /\ current' \in BOOLEAN /\ UNCHANGED << kind, cache >>
    <3>1. current \in BOOLEAN
      BY DEF ObjectTypeOK
    <3>. QED BY <1>5, <3>1, StoreType DEF RetryJobCreate
  <2>5. attempts' \in {0, attempts - 1} /\ outcome' \in {"pending", "ensured", "failed"}
    BY <1>5 DEF RetryJobCreate
  <2>6. attempts' \in 0..MaxAttempts
    BY <2>1, <2>5, AttemptsAssumption
  <2>. QED BY <2>1, <2>2, <2>3, <2>4, <2>5, <2>6 DEF ObjectTypeOK, ShapeOK
<1>6. CASE LeaveAlone
  BY <1>6 DEF LeaveAlone, ObjectTypeOK, ShapeOK
<1>. QED BY <1>1, <1>2, <1>3, <1>4, <1>5, <1>6 DEF Pass

\* What others make of an object is an object of its shape: they may put one with
\* another selector or roleRef there only where the kind has such.
LEMMA DisturbInv == ObjectInv /\ Disturb => ObjectInv'
<1> SUFFICES ASSUME ObjectInv, Disturb PROVE ObjectInv'
  OBVIOUS
<1>1. kind \in Kinds /\ obj \in Objects /\ ShapeOK(obj)
  BY DEF ObjectInv, ObjectTypeOK, Disturb
<1>2. obj' \in Objects \cup {None} /\ (obj' # None => ShapeOK(obj'))
  <2>1. obj' \in Variants
    BY DEF Disturb
  <2>2. CASE \E ls \in SUBSET {"owner", "others"} :
               obj' = [obj EXCEPT !.labels = (obj.labels \ {"owner", "others"}) \cup ls]
    BY <1>1, <2>2 DEF Objects, Labels, ShapeOK, Disturb
  <2>3. CASE obj' = [obj EXCEPT !.content = "drifted"] \/ obj' = [obj EXCEPT !.extra = ~@]
    BY <1>1, <2>3 DEF Objects, ShapeOK, Disturb
  <2>4. CASE HasFixed(kind) /\ obj' = [Expected(kind) EXCEPT !.fixed = "other"]
    <3>1. kind # "namespace"
      BY <2>4 DEF HasFixed, SelectorKinds, Bindings
    <3>2. UNCHANGED kind
      BY DEF Disturb
    <3>3. obj' \in Objects
      BY <1>1, <2>4, ExpectedType DEF Objects
    <3>. QED BY <2>4, <3>1, <3>2, <3>3 DEF ShapeOK, HasFixed
  <2>. QED BY <2>1, <2>2, <2>3, <2>4 DEF Variants
<1>3. left' \in [{"disturbances", "faults"} -> Nat]
  BY SpendType DEF Disturb, ObjectInv, ObjectTypeOK
<1>4. current' = FALSE /\ outcome' = "pending" /\ UNCHANGED << kind, cache, attempts >>
  BY DEF Disturb
<1>5. ShapeOK(obj)' <=> ShapeOK(obj')
  BY <1>4 DEF ShapeOK
<1>. QED BY <1>2, <1>3, <1>4, <1>5 DEF ObjectInv, ObjectTypeOK

\* Every step keeps the invariant.
LEMMA NextInv == ObjectInv /\ [Next]_vars => ObjectInv'
<1> SUFFICES ASSUME ObjectInv, [Next]_vars PROVE ObjectInv'
  OBVIOUS
<1>1. CASE Crash
  <2>1. left' \in [{"disturbances", "faults"} -> Nat]
    BY <1>1, SpendType DEF Crash, ObjectInv, ObjectTypeOK
  <2>. QED BY <1>1, <2>1, AttemptsAssumption DEF Crash, ObjectInv, ObjectTypeOK, ShapeOK
<1>2. CASE Deliver
  BY <1>2 DEF Deliver, ObjectInv, ObjectTypeOK, ShapeOK
<1>3. CASE Collect
  BY <1>3 DEF Collect, ObjectInv, ObjectTypeOK, ShapeOK
<1>4. CASE UNCHANGED vars
  BY <1>4 DEF vars, ObjectInv, ObjectTypeOK, ShapeOK
<1>. QED BY <1>1, <1>2, <1>3, <1>4, PassInv, DisturbInv DEF Next

\* At the beginning there is no object.
LEMMA InitInv == Init => ObjectInv
BY AttemptsAssumption DEF Init, ObjectInv, ObjectTypeOK

\* The informer's copy, where it is current, is the object, and only a Job is being
\* created again, for any kinds, disturbances, faults and tries.
THEOREM ObjectTypeCorrectness == SafetySpec => []ObjectTypeOK
<1>1. ObjectInv => ObjectTypeOK
  BY DEF ObjectInv
<1>. QED BY <1>1, InitInv, NextInv, PTL DEF SafetySpec

----------------------------------------------------------------------------
(* What a pass may do. *)

\* A pass writes an object that exists in three ways: it deletes one whose copy is
\* owned, marks a Job whose copy is owned for deletion, or updates, and that with a
\* resourceVersion unless the kind sends what is expected.
LEMMA PassWrites ==
  ASSUME ObjectInv, Pass, obj # None, obj' # obj
  PROVE  /\ Owned(cache) /\ cache # None
         /\ \/ ReplaceSelector /\ obj' = None /\ OtherSelector(cache)
            \/ DeleteJob
            \/ /\ UpdateObject /\ Changed(kind, cache)
               /\ obj' = Defaulted(kind, Updated(kind, cache))
               /\ kind \in ConditionalUpdate => current
<1>1. CASE CreateObject
  BY <1>1 DEF CreateObject, Rejected
<1>2. CASE ReplaceSelector
  BY <1>2 DEF ReplaceSelector, Request, Store
<1>3. CASE UpdateObject
  BY <1>3 DEF UpdateObject, Request, Store, Rejected, UpdateAccepted, Replacing
<1>4. CASE DeleteJob
  BY <1>4 DEF DeleteJob
<1>5. CASE RetryJobCreate
  BY <1>5 DEF RetryJobCreate
<1>6. CASE LeaveAlone
  BY <1>6 DEF LeaveAlone
<1>. QED BY <1>1, <1>2, <1>3, <1>4, <1>5, <1>6 DEF Pass

\* A pass leaves an object without the owner labels alone: either the copy shows it, or
\* the update is turned away.
THEOREM StrangersCorrectness == SafetySpec => StrangersUntouched
<1> DEFINE Untouched ==
      /\ Pass /\ obj # None /\ "owner" \notin obj.labels
      /\ current \/ (kind \in ConditionalUpdate /\ obj' # None)
      => obj' = obj
<1>1. ObjectInv /\ [Next]_vars => [Untouched]_vars
  <2> SUFFICES ASSUME ObjectInv, Pass, obj # None, ~Owned(obj), obj' # obj,
                      current \/ (kind \in ConditionalUpdate /\ obj' # None)
               PROVE  FALSE
    BY DEF Owned
  <2>1. Owned(cache)
    BY PassWrites
  <2>2. current => cache = obj
    BY DEF ObjectInv, ObjectTypeOK
  <2>3. ~current
    BY <2>1, <2>2
  <2>4. kind \in ConditionalUpdate /\ obj' # None /\ kind # "job"
    BY <2>3 DEF ConditionalUpdate
  <2>. QED BY <2>3, <2>4, PassWrites DEF DeleteJob
<1>. QED BY <1>1, InitInv, NextInv, PTL DEF SafetySpec, StrangersUntouched

\* An update of a kind that changes a copy keeps what others have written beside the
\* compared fields, whatever the informer has seen: if it is accepted, the copy is
\* current.
THEOREM NothingLostCorrectness == SafetySpec => NothingLost
<1> DEFINE Kept ==
      /\ Pass /\ kind \in ConditionalUpdate /\ obj # None /\ obj' # None
      => /\ obj'.extra = obj.extra
         /\ ~LabelsCompared(kind) => obj'.labels = obj.labels
<1>1. ObjectInv /\ [Next]_vars => [Kept]_vars
  <2> SUFFICES ASSUME ObjectInv, Pass, kind \in ConditionalUpdate, obj # None, obj' # None,
                      obj' # obj
               PROVE  /\ obj'.extra = obj.extra
                      /\ ~LabelsCompared(kind) => obj'.labels = obj.labels
    OBVIOUS
  <2>1. kind # "job"
    BY DEF ConditionalUpdate
  <2>2. current /\ obj' = Defaulted(kind, Updated(kind, cache))
    BY <2>1, PassWrites DEF DeleteJob
  <2>3. cache = obj /\ obj \in Objects /\ kind \in Kinds
    BY <2>2 DEF ObjectInv, ObjectTypeOK
  <2>. QED BY <2>2, <2>3, UpdatedKeeps
<1>. QED BY <1>1, InitInv, NextInv, PTL DEF SafetySpec, NothingLost

\* A pass over an object that is in order changes nothing.
THEOREM NoChurnCorrectness == SafetySpec => NoChurn
<1> DEFINE Still == Pass /\ current /\ obj # None /\ Right(obj) => obj' = obj
<1>1. ObjectInv /\ [Next]_vars => [Still]_vars
  <2> SUFFICES ASSUME ObjectInv, Pass, current, obj # None, Right(obj), obj' # obj
               PROVE  FALSE
    OBVIOUS
  <2>1. cache = obj /\ obj \in Objects /\ kind \in Kinds
    BY DEF ObjectInv, ObjectTypeOK
  <2>2. ~OtherSelector(obj) /\ (Changed(kind, obj) =>
          kind = "namespace" /\ Defaulted(kind, Updated(kind, obj)) = obj)
    BY <2>1, RightStays
  <2>. QED BY <2>1, <2>2, PassWrites DEF DeleteJob
<1>. QED BY <1>1, InitInv, NextInv, PTL DEF SafetySpec, NoChurn

\* A pass that begins with a current copy and succeeds leaves the object in order.
THEOREM PassRepairsCorrectness == SafetySpec => PassRepairs
<1> DEFINE Repairs ==
      /\ Pass /\ current /\ outcome' = "ensured" /\ obj' # None /\ Owned(obj')
      /\ ~obj'.terminating
      => Right(obj')
<1>1. ObjectInv /\ [Next]_vars => [Repairs]_vars
  <2> SUFFICES ASSUME ObjectInv, Pass, current, outcome' = "ensured", obj' # None,
                      Owned(obj'), ~obj'.terminating
               PROVE  Right(obj')
    OBVIOUS
  <2>1. cache = obj /\ obj \in Objects \cup {None} /\ kind \in Kinds
        /\ (obj # None => ShapeOK(obj))
    BY DEF ObjectInv, ObjectTypeOK
  <2>2. CASE CreateObject
    BY <2>1, <2>2, WrittenRight, ExpectedType DEF CreateObject, Request, Store, Rejected
  <2>3. CASE ReplaceSelector
    BY <2>1, <2>3 DEF ReplaceSelector, Request, Store
  <2>4. CASE UpdateObject
    BY <2>1, <2>4, WrittenRight DEF UpdateObject, Request, Store, Rejected
  <2>5. CASE DeleteJob
    BY <2>5 DEF DeleteJob
  <2>6. CASE RetryJobCreate
    <3>1. kind = "job"
      BY <2>6 DEF RetryJobCreate, ObjectInv, ObjectTypeOK
    <3>2. obj' = Expected(kind)
      BY <2>6 DEF RetryJobCreate, Store
    <3>3. Defaulted(kind, Expected(kind)) = Expected(kind)
      BY <3>1 DEF Defaulted
    <3>. QED BY <2>1, <3>2, <3>3, WrittenRight, ExpectedType
  <2>7. CASE LeaveAlone
    <3>1. obj' = obj /\ obj \in Objects /\ ~OtherSelector(obj) /\ ~Changed(kind, obj)
      BY <2>1, <2>7 DEF LeaveAlone
    <3>2. kind # "namespace"
      BY <2>1, <3>1 DEF Changed, LabelsCompared, ExpectedLabels, Expected, ShapeOK
    <3>3. obj.fixed = "wanted"
      BY <2>1, <3>1 DEF ShapeOK, HasFixed, OtherSelector, Changed, Expected
    <3>4. obj.content = "wanted"
      BY <3>1 DEF Changed, Expected
    <3>5. LabelsCompared(kind) => obj.labels = Defaulted(kind, Expected(kind)).labels
      BY <3>1, <3>2 DEF Changed, Defaulted
    <3>. QED BY <3>1, <3>2, <3>3, <3>4, <3>5 DEF Right
  <2>. QED BY <2>2, <2>3, <2>4, <2>5, <2>6, <2>7 DEF Pass
<1>. QED BY <1>1, InitInv, NextInv, PTL DEF SafetySpec, PassRepairs

----------------------------------------------------------------------------
(* What the core knows of an object. *)

\* Only a Job stays for a while once it is deleted.
OnlyJobsTerminate ==
  /\ obj # None /\ obj.terminating => kind = "job"
  /\ cache # None /\ cache.terminating => kind = "job"

\* An update of any other kind does not bring back a mark of deletion.
LEMMA NextOnlyJobsTerminate ==
  ObjectInv /\ OnlyJobsTerminate /\ [Next]_vars => OnlyJobsTerminate'
<1> SUFFICES ASSUME ObjectInv, OnlyJobsTerminate, [Next]_vars, kind # "job"
             PROVE  OnlyJobsTerminate'
  BY DEF Next, vars, Pass, CreateObject, ReplaceSelector, UpdateObject, DeleteJob,
         RetryJobCreate, LeaveAlone, Crash, Deliver, Collect, Disturb, OnlyJobsTerminate
<1>1. kind \in Kinds /\ obj \in Objects \cup {None} /\ cache \in Objects \cup {None}
  BY DEF ObjectInv, ObjectTypeOK
<1>2. Expected(kind).terminating = FALSE /\ Defaulted(kind, Expected(kind)).terminating = FALSE
  BY DEF Expected, Defaulted
<1>3. CASE CreateObject \/ ReplaceSelector \/ DeleteJob \/ RetryJobCreate \/ LeaveAlone
  BY <1>2, <1>3, NoneAssumption
     DEF CreateObject, ReplaceSelector, DeleteJob, RetryJobCreate, LeaveAlone, Request,
         Rejected, Store, OnlyJobsTerminate, ObjectInv, ObjectTypeOK
<1>4. CASE UpdateObject
  <2> DEFINE o == Defaulted(kind, Updated(kind, cache))
  <2>1. ~o.terminating
    <3>1. cache \in Objects /\ cache.terminating = FALSE
      BY <1>1, <1>4 DEF UpdateObject, OnlyJobsTerminate, Objects
    <3>2. Updated(kind, cache).terminating = FALSE
      BY <1>2, <3>1 DEF Updated, Objects
    <3>. QED BY <3>2, <1>1, UpdatedType DEF Defaulted, Objects
  <2>2. obj' \in {obj, o} /\ UNCHANGED << kind, cache >>
    BY <1>4 DEF UpdateObject, Request, Rejected, Store
  <2> HIDE DEF o
  <2>. QED BY <2>1, <2>2 DEF OnlyJobsTerminate
<1>5. CASE Crash \/ Deliver \/ Collect \/ UNCHANGED vars
  BY <1>5, NoneAssumption DEF Crash, Deliver, Collect, vars, OnlyJobsTerminate
<1>6. CASE Disturb
  <2>1. obj \in Objects /\ ~obj.terminating
    BY <1>1, <1>6 DEF Disturb, OnlyJobsTerminate
  <2>2. obj' # None => ~obj'.terminating
    <3>1. obj' \in Variants
      BY <1>6 DEF Disturb
    <3>. QED BY <1>1, <1>2, <2>1, <3>1, ExpectedType DEF Variants, Objects
  <2>. QED BY <1>6, <2>2 DEF Disturb, OnlyJobsTerminate
<1>. QED BY <1>3, <1>4, <1>5, <1>6 DEF Next, Pass

\* An object is as wanted, by its looks, if all that is compared is.
LEMMA RightLook ==
  ASSUME kind \in Kinds, NEW o \in Objects
  PROVE  Right([o EXCEPT !.extra = FALSE, !.terminating = FALSE]) <=>
           /\ LabelsCompared(kind) => o.labels = Defaulted(kind, Expected(kind)).labels
           /\ o.content = "wanted" /\ o.fixed = "wanted"
BY DEF Right, Objects

\* Two objects that agree in all that is compared look alike.
LEMMA SameLook ==
  ASSUME kind \in Kinds, NEW o \in Objects, NEW p \in Objects,
         o.labels = p.labels, o.content = p.content, o.fixed = p.fixed
  PROVE  LookOf(o) = LookOf(p)
<1>1. o # None /\ p # None
  BY NoneAssumption
<1>2. (Owned(o) <=> Owned(p)) /\ (OtherSelector(o) <=> OtherSelector(p))
  BY DEF Owned, OtherSelector
<1>3. Right([o EXCEPT !.extra = FALSE, !.terminating = FALSE]) <=>
        Right([p EXCEPT !.extra = FALSE, !.terminating = FALSE])
  BY RightLook
<1>. QED BY <1>1, <1>2, <1>3 DEF LookOf

\* What the operator writes is as wanted, by its looks.
LEMMA WrittenLook ==
  ASSUME kind \in Kinds, NEW o \in Objects, Owned(o)
  PROVE  /\ LookOf(Defaulted(kind, Expected(kind))) = "wanted"
         /\ LookOf(Defaulted(kind, Updated(kind, o))) = "wanted"
<1> DEFINE e == Defaulted(kind, Expected(kind))
           u == Defaulted(kind, Updated(kind, o))
<1>1. e \in Objects /\ u \in Objects
  BY ExpectedType, UpdatedType
<1>2. /\ LabelsCompared(kind) => e.labels = Defaulted(kind, Expected(kind)).labels
      /\ e.content = "wanted" /\ e.fixed = "wanted" /\ "owner" \in e.labels
  BY DEF Expected, ExpectedLabels, Defaulted
<1>3. /\ LabelsCompared(kind) => u.labels = e.labels
      /\ u.content = "wanted" /\ u.fixed = "wanted" /\ "owner" \in u.labels
  <2>1. CASE Replacing(kind)
    BY <1>2, <2>1 DEF Updated
  <2>2. CASE ~Replacing(kind)
    <3>1. kind # "namespace"
      BY <2>2 DEF Replacing, ConditionalUpdate
    <3>2. u = [o EXCEPT !.labels  = IF LabelsCompared(kind) THEN Expected(kind).labels ELSE @,
                        !.content = Expected(kind).content,
                        !.fixed   = Expected(kind).fixed]
      BY <2>2, <3>1 DEF Updated, Defaulted
    <3>3. e = Expected(kind)
      BY <3>1 DEF Defaulted
    <3>4. "owner" \in o.labels
      BY DEF Owned
    <3>. QED BY <1>2, <3>2, <3>3, <3>4 DEF Objects
  <2>. QED BY <2>1, <2>2
<1> HIDE DEF e, u
<1>4. ASSUME NEW x \in Objects, x.fixed = "wanted", x.content = "wanted", "owner" \in x.labels,
             LabelsCompared(kind) => x.labels = Defaulted(kind, Expected(kind)).labels
      PROVE  LookOf(x) = "wanted"
  <2>1. x # None /\ Owned(x) /\ ~OtherSelector(x)
    BY <1>4, NoneAssumption DEF Owned, OtherSelector, Expected
  <2>. QED BY <1>4, <2>1, RightLook DEF LookOf
<1>5. LookOf(e) = "wanted"
  BY <1>1, <1>2, <1>4
<1>6. LookOf(u) = "wanted"
  BY <1>1, <1>3, <1>4 DEF e
<1>. QED BY <1>5, <1>6 DEF e, u

\* A copy that is the operator's, has the selector and differs looks drifted; a
\* namespace differs even if it looks as wanted.
LEMMA DifferingLook ==
  ASSUME kind \in Kinds, NEW o \in Objects, Owned(o), ~OtherSelector(o), Changed(kind, o)
  PROVE  LookOf(o) = "drifted" \/ (LookOf(o) = "wanted" /\ kind = "namespace")
<1>1. o # None
  BY NoneAssumption
<1>2. kind # "namespace" => ~Right([o EXCEPT !.extra = FALSE, !.terminating = FALSE])
  BY RightLook DEF Changed, Defaulted, Expected
<1>. QED BY <1>1, <1>2 DEF LookOf

\* What is not there looks absent, and what is there does not.
LEMMA AbsentLook ==
  ASSUME NEW o \in Objects \cup {None}
  PROVE  LookOf(o) \in Child!Looks /\ (LookOf(o) = "absent" <=> o = None)
BY DEF LookOf, Child!Looks

\* Every step is one that ChildObject allows, or changes none of the looks: a request
\* that takes effect is a step of the operator, Disturb one of the others, and what the
\* informer brings is what is stored.
LEMMA NextChild ==
  ObjectInv /\ OnlyJobsTerminate /\ OnlyJobsTerminate' /\ ObjectInv' /\ [Next]_vars
    => [Child!ChildNext]_(Child!childVars)
<1> SUFFICES ASSUME ObjectInv, OnlyJobsTerminate, OnlyJobsTerminate', ObjectInv', [Next]_vars
             PROVE  [Child!ChildNext]_(Child!childVars)
  OBVIOUS
<1> DEFINE Doomed == obj # None /\ obj.terminating
<1>1. /\ kind \in Kinds /\ obj \in Objects \cup {None} /\ cache \in Objects \cup {None}
      /\ obj' \in Objects \cup {None} /\ cache' \in Objects \cup {None}
      /\ left \in [{"disturbances", "faults"} -> Nat]
  BY DEF ObjectInv, ObjectTypeOK
<1>2. UNCHANGED kind
  BY DEF Next, vars, Pass, CreateObject, ReplaceSelector, UpdateObject, DeleteJob,
         RetryJobCreate, LeaveAlone, Crash, Deliver, Collect, Disturb
<1>3. LookOf(obj)' = LookOf(obj') /\ LookOf(cache)' = LookOf(cache')
  BY <1>2 DEF LookOf, OtherSelector, Right
<1>4. (obj = None => LookOf(obj) = "absent") /\ (cache = None => LookOf(cache) = "absent")
  BY DEF LookOf
<1>5. obj # None => LookOf(obj) # "absent"
  BY <1>1, AbsentLook
<1>6. Doomed \in BOOLEAN /\ (Doomed => kind = "job")
  BY <1>1 DEF Objects, OnlyJobsTerminate
<1>7. ~UNCHANGED left["disturbances"] => Disturb
  BY <1>1 DEF Next, vars, Pass, CreateObject, ReplaceSelector, UpdateObject, DeleteJob,
         RetryJobCreate, LeaveAlone, Crash, Deliver, Collect, Request, Rejected, Spend
<1>8. CASE UNCHANGED << obj, cache >> /\ ~Disturb
  BY <1>2, <1>3, <1>7, <1>8 DEF Child!childVars
<1>9. CASE CreateObject /\ obj' # obj
  <2>1. /\ obj = None /\ cache = None /\ obj' = Defaulted(kind, Expected(kind))
        /\ UNCHANGED cache
    BY <1>9 DEF CreateObject, Request, Rejected, Store
  <2>2. LookOf(obj') = "wanted" /\ ~obj'.terminating
    <3>1. Expected(kind) \in Objects /\ Owned(Expected(kind))
      BY <1>1, ExpectedType DEF Owned, Expected, ExpectedLabels
    <3>. QED BY <1>1, <2>1, <3>1, WrittenLook DEF Defaulted, Expected
  <2>3. ~Disturb
    BY <2>1 DEF Disturb
  <2>4. Child!Create
    BY <1>2, <1>3, <1>4, <1>7, <2>1, <2>2, <2>3 DEF Child!Create
  <2>. QED BY <2>4 DEF Child!ChildNext
<1>10. CASE ReplaceSelector /\ obj' # obj
  <2>1. /\ cache # None /\ Owned(cache) /\ OtherSelector(cache) /\ obj' = None
        /\ UNCHANGED cache /\ left["disturbances"]' = left["disturbances"]
    BY <1>1, <1>10 DEF ReplaceSelector, Request, Store, Spend
  <2>2. LookOf(cache) = "oldSelector" /\ kind \in SelectorKinds
    BY <2>1 DEF LookOf, OtherSelector
  <2>3. ~Doomed /\ ~Doomed'
    BY <1>6, <2>1, <2>2 DEF SelectorKinds
  <2>4. LookOf(obj') = "absent"
    BY <2>1 DEF LookOf
  <2>5. Child!Replace
    BY <1>2, <1>3, <2>1, <2>2, <2>3, <2>4
       DEF Child!Replace, Child!SelectorKinds, SelectorKinds
  <2>. QED BY <2>5 DEF Child!ChildNext
<1>11. CASE UpdateObject /\ obj' # obj
  <2>1. /\ cache \in Objects /\ kind # "job" /\ Owned(cache) /\ ~OtherSelector(cache)
        /\ Changed(kind, cache) /\ obj # None
        /\ kind \in ConditionalUpdate => current
        /\ obj' = Defaulted(kind, Updated(kind, cache)) /\ UNCHANGED cache
        /\ left["disturbances"]' = left["disturbances"]
    BY <1>1, <1>11 DEF UpdateObject, UpdateAccepted, Replacing, Request, Rejected, Store, Spend
  <2>2. LookOf(cache) = "drifted" \/ (LookOf(cache) = "wanted" /\ kind = "namespace")
    BY <1>1, <2>1, DifferingLook
  <2>3. LookOf(obj') = "wanted"
    BY <1>1, <2>1, WrittenLook
  <2>4. kind \in ConditionalUpdate => LookOf(obj) = LookOf(cache)
    BY <2>1 DEF ObjectInv, ObjectTypeOK
  <2>5. ~Doomed /\ ~Doomed'
    BY <1>2, <1>6, <2>1 DEF OnlyJobsTerminate
  <2>6. Child!Update
    BY <1>2, <1>3, <1>5, <2>1, <2>2, <2>3, <2>4, <2>5
       DEF Child!Update, Child!ConditionalUpdate, ConditionalUpdate
  <2>. QED BY <2>6 DEF Child!ChildNext
<1>12. CASE DeleteJob /\ obj' # obj
  <2>1. /\ cache \in Objects /\ kind = "job" /\ Owned(cache) /\ Changed(kind, cache)
        /\ obj # None /\ obj' = [obj EXCEPT !.terminating = TRUE] /\ UNCHANGED cache
        /\ left["disturbances"]' = left["disturbances"]
    BY <1>1, <1>12 DEF DeleteJob, Store, Spend
  <2>2. LookOf(cache) = "drifted"
    <3>1. ~OtherSelector(cache)
      BY <2>1 DEF OtherSelector, SelectorKinds
    <3>. QED BY <1>1, <2>1, <3>1, DifferingLook
  <2>3. /\ obj \in Objects /\ obj' \in Objects /\ obj'.labels = obj.labels
        /\ obj'.content = obj.content /\ obj'.fixed = obj.fixed /\ obj'.terminating = TRUE
    BY <1>1, <2>1 DEF Objects
  <2>4. LookOf(obj') = LookOf(obj)
    BY <1>1, <2>3, SameLook
  <2>5. obj' # None
    BY <2>3, NoneAssumption
  <2>6. Child!Doom
    BY <1>2, <1>3, <1>5, <2>1, <2>2, <2>3, <2>4, <2>5 DEF Child!Doom
  <2>. QED BY <2>6 DEF Child!ChildNext
<1>13. CASE RetryJobCreate /\ obj' # obj
  <2>1. /\ kind = "job" /\ obj = None /\ obj' = Expected(kind) /\ UNCHANGED cache
    BY <1>13 DEF RetryJobCreate, Store, ObjectInv, ObjectTypeOK
  <2>2. LookOf(obj') = "wanted" /\ ~obj'.terminating
    <3>1. Expected(kind) \in Objects /\ Owned(Expected(kind))
      BY <1>1, ExpectedType DEF Owned, Expected, ExpectedLabels
    <3>2. Defaulted(kind, Expected(kind)) = Expected(kind)
      BY <2>1 DEF Defaulted
    <3>. QED BY <1>1, <2>1, <3>1, <3>2, WrittenLook DEF Expected
  <2>3. ~Disturb
    BY <2>1 DEF Disturb
  <2>4. Child!Create
    BY <1>2, <1>3, <1>4, <1>7, <2>1, <2>2, <2>3 DEF Child!Create
  <2>. QED BY <2>4 DEF Child!ChildNext
<1>14. CASE Crash \/ Deliver
  <2>1. cache' = obj /\ UNCHANGED obj
    BY <1>14 DEF Crash, Deliver
  <2>2. left["disturbances"]' = left["disturbances"]
    BY <1>1, <1>14 DEF Crash, Deliver, Spend
  <2>3. Child!See
    BY <1>2, <1>3, <2>1, <2>2 DEF Child!See
  <2>. QED BY <2>3 DEF Child!ChildNext
<1>15. CASE Collect
  <2>1. /\ obj # None /\ obj.terminating /\ obj' = None
        /\ UNCHANGED << cache, left >>
    BY <1>15 DEF Collect
  <2>2. LookOf(obj') = "absent"
    BY <2>1 DEF LookOf
  <2>3. Child!Vanish
    BY <1>2, <1>3, <2>1, <2>2 DEF Child!Vanish
  <2>. QED BY <2>3 DEF Child!ChildNext
<1>16. CASE Disturb
  <2>1. /\ obj # None /\ left["disturbances"] > 0
        /\ left["disturbances"]' = left["disturbances"] - 1
        /\ obj' \in Variants /\ UNCHANGED cache
    BY <1>1, <1>16 DEF Disturb, Spend
  <2>2. LookOf(obj') \in Child!Looks /\ (LookOf(obj') = "absent" <=> obj' = None)
    BY <1>1, AbsentLook
  <2>3. Doomed' = (Doomed /\ LookOf(obj') # "absent")
    <3>1. CASE obj' = None
      BY <2>2, <3>1
    <3>2. CASE obj' # None /\ kind # "job"
      BY <1>2, <1>6, <2>2, <3>2 DEF OnlyJobsTerminate
    <3>3. CASE obj' # None /\ kind = "job"
      <4>1. ~HasFixed(kind)
        BY <3>3 DEF HasFixed, SelectorKinds, Bindings
      <4>2. obj'.terminating = obj.terminating
        BY <1>1, <2>1, <3>3, <4>1 DEF Variants, Objects
      <4>. QED BY <2>1, <2>2, <3>3, <4>2
    <3>. QED BY <3>1, <3>2, <3>3
  <2>4. Child!Others
    BY <1>2, <1>3, <1>5, <2>1, <2>2, <2>3 DEF Child!Others
  <2>. QED BY <2>4 DEF Child!ChildNext
<1>17. CASE LeaveAlone
  BY <1>8, <1>17 DEF LeaveAlone, Disturb
<1>. QED BY <1>8, <1>9, <1>10, <1>11, <1>12, <1>13, <1>14, <1>15, <1>16, <1>17
     DEF Next, Pass, vars, CreateObject, ReplaceSelector, UpdateObject, DeleteJob, RetryJobCreate

\* Whatever an Ensure function compares and however it writes, it does to its object
\* what ContourController takes it to do, and no more, for any kinds, disturbances,
\* faults and tries.
THEOREM ObjectRefinementCorrectness == SafetySpec => KeepsObject
<1>1. Init => OnlyJobsTerminate
  BY DEF Init, OnlyJobsTerminate
<1>2. Init => Child!ChildInit
  BY DEF Init, Child!ChildInit, LookOf
<1>. QED BY <1>1, <1>2, InitInv, NextInv, NextOnlyJobsTerminate, NextChild, PTL
     DEF SafetySpec, KeepsObject, Child!ChildSpec

===============================================================================
