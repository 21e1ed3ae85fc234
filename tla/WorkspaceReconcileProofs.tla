----------------------- MODULE WorkspaceReconcileProofs -----------------------
(***************************************************************************)
(* Theorems about WorkspaceReconcile, for every set of specs and every     *)
(* number of edits, requests, surprises and failures.                      *)
(*                                                                         *)
(* Some fifty actions are sorted once, by what they do to the object and   *)
(* the worker's copy (Kinds), to the infrastructure (Untouched), to        *)
(* requests (RequestsKept) and to the plan (PlanKept), and by the steps    *)
(* they lead to (Paths, PlanPaths).  The invariants are then proved from   *)
(* these lemmas and the few actions that matter to each:                   *)
(*   Copy       what the worker's copy may be relied on for;               *)
(*   Finalized  no infrastructure without a finalizer, no cleanup before   *)
(*              the infrastructure is gone or may stay;                    *)
(*   Tracked    what it says of the plan on record;                        *)
(*   Planned    what has changes was planned, in this reconcile unless a   *)
(*              request put that off;                                      *)
(*   Once       a served request is the worker's to remove;                *)
(*   Current    main.tf is made from a spec that counts as observed;       *)
(*   PlanComes  a generation is recorded when it has been planned.         *)
(* Only Once needs an assumption, that nothing fails.                      *)
(***************************************************************************)
EXTENDS WorkspaceReconcile, TLAPS

\* Only edits and one deletion make generations, only releases versions.
Bounded ==
  /\ ~object.deleting => object.generation <= MaxGeneration
  /\ upstream <= 1 + surprises

\* From rendering to the end of the reconcile, or a failure, main.tf is there.
Rendering == {"clearBackoff", "dropRetry", "render"}
Rendered == pc \in WorkerSteps \ (Rendering \cup {"idle", "backoff"}) => rendered \in Configs

-----------------------------------------------------------------------------
(* Type correctness *)

\* The updates that the worker's calls make of an object keep it one.
LEMMA UpdateType ==
  ASSUME NEW o \in Objects, NEW b \in BOOLEAN, NEW c \in BOOLEAN
  PROVE  /\ [o EXCEPT !.completed = b] \in Objects
         /\ [o EXCEPT !.valid = b] \in Objects
         /\ [o EXCEPT !.blocked = b] \in Objects
         /\ [o EXCEPT !.due = b] \in Objects
         /\ [o EXCEPT !.newApply = b] \in Objects
         /\ [o EXCEPT !.finalizer = b] \in Objects
         /\ [o EXCEPT !.finalizer = b, !.exists = c] \in Objects
         /\ [o EXCEPT !.blocked = b, !.retrying = c] \in Objects
         /\ [o EXCEPT !.blocked = FALSE, !.retrying = FALSE, !.due = TRUE] \in Objects
         /\ [o EXCEPT !.completed = TRUE, !.retrying = FALSE] \in Objects
         /\ [o EXCEPT !.completed = TRUE, !.newApply = FALSE, !.retrying = FALSE] \in Objects
         /\ [o EXCEPT !.newApply = FALSE, !.completed = TRUE, !.retrying = FALSE] \in Objects
         /\ [o EXCEPT !.hasChanges = FALSE, !.completed = TRUE, !.retrying = FALSE] \in Objects
         /\ [o EXCEPT !.observed = o.generation, !.due = FALSE] \in Objects
<1>1. [o EXCEPT !.completed = b] \in Objects
  BY DEF Objects
<1>3. [o EXCEPT !.valid = b] \in Objects
  BY DEF Objects
<1>4. [o EXCEPT !.blocked = b] \in Objects
  BY DEF Objects
<1>5. [o EXCEPT !.due = b] \in Objects
  BY DEF Objects
<1>6. [o EXCEPT !.newApply = b] \in Objects
  BY DEF Objects
<1>7. [o EXCEPT !.finalizer = b] \in Objects
  BY DEF Objects
<1>8. [o EXCEPT !.finalizer = b, !.exists = c] \in Objects
  BY DEF Objects
<1>9. [o EXCEPT !.blocked = b, !.retrying = c] \in Objects
  BY DEF Objects
<1>10. [o EXCEPT !.blocked = FALSE, !.retrying = FALSE, !.due = TRUE] \in Objects
  BY DEF Objects
<1>11. [o EXCEPT !.completed = TRUE, !.retrying = FALSE] \in Objects
  BY DEF Objects
<1>12. [o EXCEPT !.completed = TRUE, !.newApply = FALSE, !.retrying = FALSE] \in Objects
  BY DEF Objects
<1>13. [o EXCEPT !.newApply = FALSE, !.completed = TRUE, !.retrying = FALSE] \in Objects
  BY DEF Objects
<1>14. [o EXCEPT !.hasChanges = FALSE, !.completed = TRUE, !.retrying = FALSE] \in Objects
  BY DEF Objects
<1>15. [o EXCEPT !.observed = o.generation, !.due = FALSE] \in Objects
  <2>1. o.generation \in 0 .. (MaxGeneration + 1)
    BY BoundsAssumption DEF Objects
  <2> QED
    BY <2>1 DEF Objects
<1> QED
  BY <1>1, <1>3, <1>4, <1>5, <1>6, <1>7, <1>8, <1>9, <1>10, <1>11, <1>12, <1>13, <1>14, <1>15

\* The types and the bounds hold at first.
LEMMA InitType == Init => TypeOK /\ Bounded
<1> SUFFICES ASSUME Init
             PROVE  TypeOK /\ Bounded
  OBVIOUS
<1>1. object \in Objects
  <2>1. \A s \in Specs : Created(s) \in Objects
    BY BoundsAssumption DEF Created, Objects
  <2> QED
    BY <2>1 DEF Init
<1>2. Bounded
  BY BoundsAssumption DEF Init, Created, Bounded
<1>3. {pc, "idle"} \subseteq WorkerSteps
  BY DEF Init, WorkerSteps
<1>4. {0, 1} \subseteq 0 .. (1 + MaxSurprises) /\ 1 \in 1 .. (1 + MaxSurprises)
  BY BoundsAssumption
<1>5. 0 \in 0 .. MaxSurprises /\ 0 \in 0 .. MaxRequests /\ 0 \in 0 .. MaxFaults
  BY BoundsAssumption
<1> QED
  BY <1>1, <1>2, <1>3, <1>4, <1>5 DEF Init, TypeOK

\* The parts of TypeOK: what a worker holds, and the groups of variables.
HeldType == object \in Objects /\ ws \in Objects /\ fresh \in BOOLEAN
QueueType == queued \in BOOLEAN /\ timers \subseteq {"retry", "refresh"}
LocalType ==
  /\ force \in BOOLEAN /\ changed \in BOOLEAN
  /\ rendered \in Configs \cup {None} /\ sum \in 0 .. (1 + MaxSurprises)
DiskType ==
  /\ modules \in 1 .. (1 + MaxSurprises)
  /\ marker \in [generation : 1 .. (MaxGeneration + 1), config : Configs] \cup {None}
WorldType ==
  /\ infra \in Targets \cup {None, Partial} /\ upstream \in 0 .. (1 + MaxSurprises)
  /\ surprises \in 0 .. MaxSurprises
RequestType ==
  requests \in 0 .. MaxRequests /\ unserved \in BOOLEAN /\ unplanned \in BOOLEAN
FaultType == faults \in 0 .. MaxFaults

\* The parts follow from TypeOK, and stay with what they speak of.
LEMMA PartsOfType ==
  ASSUME TypeOK
  PROVE  /\ QueueType /\ LocalType /\ DiskType /\ WorldType /\ RequestType /\ FaultType
         /\ pc # "idle" => HeldType
         /\ UNCHANGED queueVars => QueueType'
         /\ UNCHANGED localVars => LocalType'
         /\ UNCHANGED diskVars => DiskType'
         /\ UNCHANGED worldVars => WorldType'
         /\ UNCHANGED requestVars => RequestType'
         /\ UNCHANGED otherVars => DiskType' /\ WorldType' /\ RequestType'
         /\ UNCHANGED faults => FaultType'
         /\ Fail => FaultType'
<1>1. /\ QueueType /\ LocalType /\ DiskType /\ WorldType /\ RequestType /\ FaultType
      /\ pc # "idle" => HeldType
  BY DEF TypeOK, QueueType, LocalType, DiskType, WorldType, RequestType, FaultType, HeldType
<1>2. UNCHANGED queueVars => QueueType'
  BY <1>1 DEF QueueType, queueVars
<1>3. UNCHANGED localVars => LocalType'
  BY <1>1 DEF LocalType, localVars
<1>4. UNCHANGED diskVars => DiskType'
  BY <1>1 DEF DiskType, diskVars
<1>5. UNCHANGED worldVars => WorldType'
  BY <1>1 DEF WorldType, worldVars
<1>6. UNCHANGED requestVars => RequestType'
  BY <1>1 DEF RequestType, requestVars, askedVars
<1>7. UNCHANGED faults => FaultType'
  BY <1>1 DEF FaultType
<1>8. Fail => FaultType'
  BY <1>1, BoundsAssumption DEF FaultType, Fail
<1> QED
  BY <1>1, <1>2, <1>3, <1>4, <1>5, <1>6, <1>7, <1>8 DEF otherVars

\* The parts make up TypeOK after a step of the worker that goes on,
LEMMA TypeOfParts ==
  ASSUME pc' \in WorkerSteps, HeldType', QueueType', LocalType', DiskType', WorldType',
         RequestType', FaultType'
  PROVE  TypeOK'
BY DEF TypeOK, QueueType, LocalType, DiskType, WorldType, RequestType, FaultType, HeldType

\* and after one that ends its reconcile.
LEMMA TypeOfIdle ==
  ASSUME pc' = "idle", object' \in Objects, ws' = None, fresh' \in BOOLEAN, QueueType',
         LocalType', DiskType', WorldType', RequestType', FaultType'
  PROVE  TypeOK'
<1>1. pc' \in WorkerSteps
  BY DEF WorkerSteps
<1> QED
  BY <1>1 DEF TypeOK, QueueType, LocalType, DiskType, WorldType, RequestType, FaultType

\* What the calls of a worker leave of the object and of its copy.
LEMMA WriteType ==
  ASSUME TypeOK, pc # "idle"
  PROVE  /\ \A o \in Objects : Write(o) => HeldType'
         /\ \A o \in Objects : TryWrite(o) => HeldType' /\ FaultType'
         /\ \A o \in Objects : ErroredAs(o) => HeldType' /\ pc' = "backoff"
         /\ Errored => HeldType' /\ pc' = "backoff"
         /\ Aborted => HeldType' /\ pc' = "backoff"
         /\ UNCHANGED objectVars => HeldType'
<1>1. HeldType
  BY PartsOfType
<1>2. UNCHANGED objectVars => HeldType'
  BY <1>1 DEF HeldType, objectVars
<1>3. \A o \in Objects : Write(o) => HeldType'
  BY DEF HeldType, Write
<1>4. \A o \in Objects : TryWrite(o) => HeldType' /\ FaultType'
  BY <1>1, <1>2, <1>3, PartsOfType DEF HeldType, TryWrite
<1>5. \A o \in Objects : ErroredAs(o) => HeldType' /\ pc' = "backoff"
  BY <1>3, UpdateType DEF ErroredAs
<1> QED
  BY <1>1, <1>2, <1>3, <1>4, <1>5 DEF Errored, Aborted, HeldType

\* Return leaves an idle worker.
LEMMA ReturnType ==
  ASSUME TypeOK, NEW q \in BOOLEAN, NEW t \in SUBSET {"retry", "refresh"}, Return(q, t)
  PROVE  /\ pc' = "idle" /\ ws' = None /\ fresh' \in BOOLEAN
         /\ QueueType' /\ LocalType'
<1>1. QueueType'
  BY DEF TypeOK, Return, QueueType
<1>2. 0 \in 0 .. (1 + MaxSurprises)
  BY BoundsAssumption
<1> QED
  BY <1>1, <1>2 DEF Return, LocalType

\* A step of the worker that leaves all but the object and its copy.
LEMMA PlainType ==
  ASSUME TypeOK, pc # "idle", pc' \in WorkerSteps, HeldType', UNCHANGED faults \/ FaultType',
         UNCHANGED <<queueVars, localVars, otherVars>>
  PROVE  TypeOK'
BY PartsOfType, TypeOfParts

\* One that also notes whether the plan on record is an old one.
LEMMA NotingType ==
  ASSUME TypeOK, pc # "idle", pc' \in WorkerSteps, HeldType', UNCHANGED faults \/ FaultType',
         unplanned' \in BOOLEAN, UNCHANGED <<queueVars, localVars, diskVars, worldVars, askedVars>>
  PROVE  TypeOK'
<1>1. RequestType'
  BY PartsOfType DEF RequestType, askedVars
<1> QED
  BY <1>1, PartsOfType, TypeOfParts

\* What the worker plans, applies and marks, once main.tf is rendered.
LEMMA TargetType ==
  ASSUME TypeOK, Rendered, pc \in WorkerSteps \ (Rendering \cup {"idle", "backoff"})
  PROVE  /\ rendered \in Configs
         /\ Target \in Targets
         /\ Marker \in [generation : 1 .. (MaxGeneration + 1), config : Configs]
<1>1. rendered \in Configs /\ object.generation \in 1 .. (MaxGeneration + 1)
      /\ modules \in 1 .. (1 + MaxSurprises)
  BY DEF TypeOK, Rendered, Objects
<1> QED
  BY <1>1 DEF Target, Targets, Marker

\* Every step keeps the types.
LEMMA TypeStep ==
  ASSUME TypeOK, Bounded, Rendered, [Next]_vars
  PROVE  TypeOK'
<1> USE PartsOfType
<1>o. pc # "idle" => object \in Objects /\ ws \in Objects
  BY DEF HeldType
<1>b. object \in Objects
  BY DEF TypeOK
<1>n. NotesUnplanned => unplanned' \in BOOLEAN
  BY Zenon DEF NotesUnplanned
<1>1. CASE RenderFails
  BY <1>1, WriteType, PlainType DEF RenderFails, At, WorkerSteps
<1>2. CASE DecideDeleting
  BY <1>2, <1>o, UpdateType, WriteType, PlainType DEF DecideDeleting, At, WorkerSteps
<1>3. CASE DecideApply
  BY <1>3, <1>o, UpdateType, WriteType, PlainType DEF DecideApply, At, WorkerSteps
<1>4. CASE DecideNothing
  BY <1>4, WriteType, PlainType DEF DecideNothing, At, WorkerSteps
<1>5. CASE DecideFails
  BY <1>5, WriteType, PlainType DEF DecideFails, At, WorkerSteps
<1>6. CASE HasFinalizer
  BY <1>6, WriteType, PlainType DEF HasFinalizer, At, WorkerSteps
<1>7. CASE AddFinalizer
  BY <1>7, <1>o, UpdateType, WriteType, PlainType DEF AddFinalizer, At, WorkerSteps
<1>8. CASE AwaitDestroyFails
  BY <1>8, WriteType, PlainType DEF AwaitDestroyFails, At, WorkerSteps
<1>9. CASE DestroyBegins
  BY <1>9, WriteType, PlainType DEF DestroyBegins, At, WorkerSteps
<1>10. CASE DestroySkipped
  BY <1>10, WriteType, PlainType DEF DestroySkipped, At, WorkerSteps
<1>11. CASE PlanDeferred
  BY <1>11, WriteType, NotingType DEF PlanDeferred, At, WorkerSteps
<1>12. CASE PlanBypassed
  BY <1>12, <1>o, UpdateType, WriteType, PlainType DEF PlanBypassed, At, WorkerSteps
<1>13. CASE PlanBypassFails
  BY <1>13, WriteType, PlainType DEF PlanBypassFails, At, WorkerSteps
<1>14. CASE PlanBegins
  BY <1>14, <1>o, UpdateType, WriteType, PlainType DEF PlanBegins, At, WorkerSteps
<1>15. CASE PlanFails
  BY <1>15, WriteType, PlainType DEF PlanFails, At, WorkerSteps
<1>16. CASE RecordFails
  BY <1>16, WriteType, PlainType DEF RecordFails, WorkerSteps
<1>17. CASE NoApply
  BY <1>17, WriteType, PlainType DEF NoApply, At, WorkerSteps
<1>18. CASE AwaitApply
  BY <1>18, <1>o, UpdateType, WriteType, PlainType DEF AwaitApply, At, WorkerSteps
<1>19. CASE AwaitApplyFails
  BY <1>19, WriteType, PlainType DEF AwaitApplyFails, At, WorkerSteps
<1>20. CASE NothingToApply
  BY <1>20, WriteType, PlainType DEF NothingToApply, At, WorkerSteps
<1>21. CASE RecordApply
  BY <1>21, <1>o, UpdateType, WriteType, PlainType DEF RecordApply, At, WorkerSteps
<1>22. CASE Settle
  BY <1>22, <1>o, UpdateType, WriteType, PlainType DEF Settle, At, WorkerSteps
<1>23. CASE SettleFails
  BY <1>23, WriteType, PlainType DEF SettleFails, At, WorkerSteps
<1>24. CASE RescheduleFails
  <2>1. unplanned' \in BOOLEAN
    BY <1>24, <1>n DEF RescheduleFails, RequestType
  <2>2. HeldType' /\ FaultType' /\ pc' = "backoff" /\ pc # "idle"
    BY <1>24, <1>o, UpdateType, WriteType DEF RescheduleFails, Observed
  <2> QED
    BY <1>24, <2>1, <2>2, NotingType DEF RescheduleFails, WorkerSteps
<1>25. CASE ClearBackoff
  BY <1>25, <1>o, UpdateType, WriteType, PlainType DEF ClearBackoff, At, WorkerSteps
<1>26. CASE ManualRetryFails
  <2>1. pc' = "idle" /\ ws' = None /\ fresh' \in BOOLEAN /\ QueueType' /\ LocalType'
    BY <1>26, ReturnType DEF ManualRetryFails
  <2>2. object' \in Objects
    BY <1>26, <1>b, UpdateType DEF ManualRetryFails
  <2> QED
    BY <1>26, <2>1, <2>2, TypeOfIdle DEF ManualRetryFails
<1>27. CASE AwaitDestroy
  <2>1. pc' = "idle" /\ ws' = None /\ fresh' \in BOOLEAN /\ QueueType' /\ LocalType'
    BY <1>27, ReturnType DEF AwaitDestroy
  <2>2. object' \in Objects
    BY <1>27, <1>b, UpdateType DEF AwaitDestroy
  <2> QED
    BY <1>27, <2>1, <2>2, TypeOfIdle DEF AwaitDestroy
<1>28. CASE LeaveDeleted
  <2>1. pc' = "idle" /\ ws' = None /\ fresh' \in BOOLEAN /\ QueueType' /\ LocalType'
    BY <1>28, ReturnType DEF LeaveDeleted
  <2>2. object' \in Objects
    BY <1>28, <1>b, UpdateType DEF LeaveDeleted
  <2> QED
    BY <1>28, <2>1, <2>2, TypeOfIdle DEF LeaveDeleted
<1>29. CASE Observe
  <2>1. pc' = "idle" /\ ws' = None /\ fresh' \in BOOLEAN /\ QueueType' /\ LocalType'
    BY <1>29, ReturnType DEF Observe
  <2>2. object' \in Objects
    BY <1>29, <1>b, UpdateType DEF Observe, Observed
  <2>3. RequestType'
    BY <1>29, <1>n DEF Observe, RequestType, askedVars
  <2> QED
    BY <1>29, <2>1, <2>2, <2>3, TypeOfIdle DEF Observe
<1>30. CASE Vanished
  <2>1. pc' = "idle" /\ ws' = None /\ fresh' \in BOOLEAN /\ QueueType' /\ LocalType'
    BY <1>30, ReturnType DEF Vanished
  <2>2. object' \in Objects
    BY <1>30, <1>b, UpdateType DEF Vanished
  <2> QED
    BY <1>30, <2>1, <2>2, TypeOfIdle DEF Vanished
<1>31. CASE Backoff
  <2>1. pc' = "idle" /\ ws' = None /\ fresh' \in BOOLEAN /\ QueueType' /\ LocalType'
    BY <1>31, ReturnType DEF Backoff
  <2>2. object' \in Objects
    BY <1>31, <1>b, UpdateType DEF Backoff
  <2> QED
    BY <1>31, <2>1, <2>2, TypeOfIdle DEF Backoff
<1>32. CASE DecidePlan
  <2>1. sum \in 0 .. (1 + MaxSurprises) /\ object.hash \in 0 .. (1 + MaxSurprises)
    BY <1>b DEF Objects, LocalType
  <2>2. \A h \in 0 .. (1 + MaxSurprises) :
          [object EXCEPT !.newPlan = TRUE, !.hash = h] \in Objects
    BY <1>b DEF Objects
  <2>3. HeldType'
    BY <1>32, <2>1, <2>2, WriteType DEF DecidePlan, At
  <2> QED
    BY <1>32, <2>3, PlainType DEF DecidePlan, At, WorkerSteps
<1>33. CASE RecordPlan
  <2>1. Target \in Targets
    BY <1>33, TargetType DEF RecordPlan, At, WorkerSteps, Rendering
  <2>2. [object EXCEPT !.hasChanges = changed, !.newPlan = FALSE, !.newApply = TRUE,
                       !.completed = TRUE, !.plan = Target] \in Objects
    BY <1>b, <2>1 DEF Objects, LocalType
  <2>3. HeldType'
    BY <1>33, <2>2, WriteType DEF RecordPlan, At
  <2> QED
    BY <1>33, <2>3, NotingType DEF RecordPlan, At, WorkerSteps
<1>34. CASE FindGone \/ WaitForRetry \/ WaitForRefresh
  BY <1>34 DEF TypeOK, FindGone, WaitForRetry, WaitForRefresh, Take, objectVars, localVars,
         otherVars, diskVars, worldVars, requestVars, askedVars
<1>35. CASE Begin
  <2>1. HeldType'
    BY <1>35, <1>b DEF Begin, Write, HeldType
  <2>2. QueueType'
    BY <1>35 DEF Begin, Take, QueueType
  <2>3. force' \in BOOLEAN
    <3>1. force' = ("retry" \in object.annotations)
      BY <1>35 DEF Begin
    <3>2. "retry" \in object.annotations \/ "retry" \notin object.annotations
      OBVIOUS
    <3> QED
      BY <3>1, <3>2
  <2>4. LocalType'
    BY <1>35, <2>3 DEF Begin, LocalType
  <2> QED
    BY <1>35, <2>1, <2>2, <2>4, TypeOfParts DEF Begin, WorkerSteps
<1>36. CASE DropRetry
  <2>1. HeldType'
    <3>1. \A a \in SUBSET Annotations : [object EXCEPT !.annotations = (object.annotations) \ a] \in Objects
      BY <1>b DEF Objects
    <3>2. {"retry"} \cap ws.annotations \in SUBSET Annotations
      BY DEF Annotations
    <3> QED
      BY <1>36, <3>1, <3>2, WriteType DEF DropRetry, At
  <2>2. QueueType'
    BY <1>36 DEF DropRetry, QueueType
  <2> QED
    BY <1>36, <2>1, <2>2, TypeOfParts DEF DropRetry, WorkerSteps
<1>37. CASE DropApply
  <2>1. HeldType'
    <3>1. \A a \in SUBSET Annotations : [object EXCEPT !.annotations = (object.annotations) \ a] \in Objects
      BY <1>b DEF Objects
    <3>2. {"apply"} \cap ws.annotations \in SUBSET Annotations
      BY DEF Annotations
    <3> QED
      BY <1>37, <3>1, <3>2, WriteType DEF DropApply, At
  <2>2. QueueType'
    BY <1>37 DEF DropApply, QueueType
  <2> QED
    BY <1>37, <2>1, <2>2, TypeOfParts DEF DropApply, WorkerSteps
<1>38. CASE Render
  <2>1. HeldType'
    BY <1>38, <1>o, WriteType DEF Render, At
  <2>2. LocalType'
    <3>1. ws \in Objects /\ \A o \in Objects : o.spec.config \in Configs
      BY <1>38, <1>o DEF Render, At, Objects, Configs
    <3> QED
      BY <1>38, <3>1 DEF Render, LocalType
  <2> QED
    BY <1>38, <2>1, <2>2, TypeOfParts DEF Render, WorkerSteps
<1>39. CASE SkipInit
  <2>1. HeldType' /\ FaultType'
    BY <1>39, <1>o, UpdateType, WriteType DEF SkipInit, At
  <2>2. LocalType'
    <3>1. 0 \in 0 .. (1 + MaxSurprises)
      BY BoundsAssumption
    <3> QED
      BY <1>39, <3>1 DEF SkipInit, LocalType
  <2> QED
    BY <1>39, <2>1, <2>2, TypeOfParts DEF SkipInit, WorkerSteps
<1>40. CASE InitBegins
  <2>1. HeldType' /\ FaultType'
    BY <1>40, <1>o, UpdateType, WriteType DEF InitBegins, At
  <2>2. DiskType'
    BY <1>40 DEF InitBegins, DiskType
  <2> QED
    BY <1>40, <2>1, <2>2, TypeOfParts DEF InitBegins, WorkerSteps
<1>41. CASE InitEnds
  <2>1. HeldType'
    BY <1>41, <1>o, UpdateType, WriteType DEF InitEnds, At
  <2>2. upstream \in 0 .. (1 + MaxSurprises) /\ upstream \in 1 .. (1 + MaxSurprises)
    BY <1>41 DEF InitEnds, WorldType
  <2>3. LocalType'
    BY <1>41, <2>2 DEF InitEnds, LocalType
  <2>4. DiskType'
    BY <1>41, <2>2, TargetType DEF InitEnds, DiskType, At, WorkerSteps, Rendering
  <2>5. FaultType'
    BY <1>41 DEF InitEnds
  <2> QED
    BY <1>41, <2>1, <2>3, <2>4, <2>5, TypeOfParts DEF InitEnds, WorkerSteps
<1>42. CASE InitFails
  <2>1. HeldType' /\ pc' = "backoff"
    BY <1>42, <1>b, UpdateType, WriteType DEF InitFails, At
  <2>2. FaultType'
    BY <1>42 DEF InitFails
  <2>3. upstream # 0 => upstream \in 1 .. (1 + MaxSurprises)
    BY DEF WorldType
  <2>4. DiskType'
    BY <1>42, <2>3, TargetType DEF InitFails, DiskType, diskVars, At, WorkerSteps, Rendering
  <2> QED
    BY <1>42, <2>1, <2>2, <2>4, TypeOfParts DEF InitFails, WorkerSteps
<1>43. CASE DestroyEnds
  <2>1. HeldType'
    BY <1>43, WriteType DEF DestroyEnds, At
  <2>2. WorldType'
    BY <1>43 DEF DestroyEnds, WorldType
  <2> QED
    BY <1>43, <2>1, <2>2, TypeOfParts DEF DestroyEnds, WorkerSteps
<1>44. CASE DestroyFails
  <2>1. HeldType' /\ pc' = "backoff"
    BY <1>44, WriteType DEF DestroyFails, At
  <2>2. WorldType'
    BY <1>44 DEF DestroyFails, WorldType
  <2> QED
    BY <1>44, <2>1, <2>2, TypeOfParts DEF DestroyFails, WorkerSteps
<1>45. CASE RemoveFinalizer
  <2>1. pc' = "idle" /\ ws' = None /\ fresh' \in BOOLEAN /\ QueueType' /\ LocalType'
    BY <1>45, ReturnType DEF RemoveFinalizer
  <2>2. object' \in Objects
    BY <1>45, <1>b, UpdateType DEF RemoveFinalizer
  <2>3. DiskType'
    BY <1>45 DEF RemoveFinalizer, DiskType
  <2> QED
    BY <1>45, <2>1, <2>2, <2>3, TypeOfIdle DEF RemoveFinalizer
<1>46. CASE FinalizerUpdateFails
  <2>1. HeldType' /\ pc' = "backoff"
    BY <1>46, WriteType DEF FinalizerUpdateFails, At
  <2>2. DiskType' /\ FaultType'
    BY <1>46 DEF FinalizerUpdateFails, DiskType
  <2> QED
    BY <1>46, <2>1, <2>2, TypeOfParts DEF FinalizerUpdateFails, WorkerSteps
<1>47. CASE PlanEnds
  <2>1. HeldType'
    BY <1>47, <1>o, UpdateType, WriteType DEF PlanEnds, At
  <2>2. LocalType'
    BY <1>47 DEF PlanEnds, LocalType
  <2> QED
    BY <1>47, <2>1, <2>2, TypeOfParts DEF PlanEnds, WorkerSteps
<1>48. CASE ApplyBegins
  <2>1. HeldType' /\ FaultType'
    BY <1>48, <1>o, UpdateType, WriteType DEF ApplyBegins, At
  <2>2. RequestType'
    BY <1>48 DEF ApplyBegins, RequestType
  <2> QED
    BY <1>48, <2>1, <2>2, TypeOfParts DEF ApplyBegins, WorkerSteps
<1>49. CASE ApplyEnds
  <2>1. HeldType'
    BY <1>49, WriteType DEF ApplyEnds, At
  <2>2. WorldType'
    BY <1>49, TargetType DEF ApplyEnds, WorldType, At, WorkerSteps, Rendering
  <2> QED
    BY <1>49, <2>1, <2>2, TypeOfParts DEF ApplyEnds, WorkerSteps
<1>50. CASE ApplyFails
  <2>1. HeldType' /\ pc' = "backoff"
    BY <1>50, WriteType DEF ApplyFails, At
  <2>2. WorldType'
    BY <1>50, TargetType DEF ApplyFails, Unfinished, WorldType, At, WorkerSteps, Rendering
  <2> QED
    BY <1>50, <2>1, <2>2, TypeOfParts DEF ApplyFails, WorkerSteps
<1>51. CASE Users
  <2>1. TypeOK /\ object' \in Objects /\ fresh' = FALSE /\ queued' = TRUE /\ RequestType'
        /\ UNCHANGED <<ws, timers, pc, localVars, diskVars, worldVars, faults>>
    <3>1. ASSUME NEW s \in Specs, Edit(s)
          PROVE  object' \in Objects /\ RequestType'
      <4>1. object.generation + 1 \in 1 .. (MaxGeneration + 1)
        BY <1>b, <3>1, BoundsAssumption DEF Edit, Objects
      <4> QED
        BY <1>b, <3>1, <4>1 DEF Edit, UserWrites, Objects
    <3>2. ASSUME NEW a \in UserAnnotations, Annotate(a)
          PROVE  object' \in Objects /\ RequestType'
      <4>1. a \in Annotations
        BY EnvironmentAssumption
      <4>2. object' \in Objects
        BY <1>b, <3>2, <4>1 DEF Annotate, UserWrites, Objects
      <4>3. requests' \in 0 .. MaxRequests
        BY <3>2, BoundsAssumption DEF Annotate, RequestType
      <4>4. unserved' \in BOOLEAN
        BY <3>2, Zenon DEF Annotate
      <4>5. unplanned' \in BOOLEAN
        BY <3>2 DEF Annotate, RequestType
      <4> QED
        BY <4>2, <4>3, <4>4, <4>5 DEF RequestType
    <3>3. ASSUME Delete
          PROVE  object' \in Objects /\ RequestType'
      <4>1. object.generation + 1 \in 1 .. (MaxGeneration + 1)
        BY <1>b, <3>3, BoundsAssumption DEF Delete, Objects, Bounded
      <4>2. object' \in Objects
        BY <1>b, <3>3, <4>1 DEF Delete, UserWrites, Objects
      <4>3. UNCHANGED requestVars
        BY <3>3 DEF Delete
      <4> QED
        BY <4>2, <4>3
    <3> QED
      BY <1>51, <3>1, <3>2, <3>3 DEF Users, Edit, Annotate, Delete, UserWrites
  <2> QED
    BY <2>1 DEF TypeOK, RequestType, localVars, diskVars, worldVars
<1>52. CASE RetryTime \/ RefreshTime
  <2>1. object' \in Objects
    BY <1>52, <1>b, UpdateType DEF RetryTime, RefreshTime
  <2>2. QueueType'
    <3>1. queued' \in BOOLEAN
      BY <1>52 DEF RetryTime, RefreshTime, QueueType
    <3> QED
      BY <1>52, <3>1 DEF RetryTime, RefreshTime, QueueType
  <2>3. UNCHANGED <<ws, fresh, pc, localVars, otherVars, faults>>
    BY <1>52 DEF RetryTime, RefreshTime
  <2> QED
    BY <2>1, <2>2, <2>3 DEF TypeOK, QueueType, localVars, otherVars, diskVars, worldVars,
       requestVars, askedVars
<1>53. CASE Surprise
  <2>1. surprises' \in 0 .. MaxSurprises
    BY <1>53, BoundsAssumption DEF Surprise, WorldType
  <2>2. upstream' \in 0 .. (1 + MaxSurprises)
    BY <1>53, BoundsAssumption DEF Surprise, WorldType, Bounded
  <2>3. infra' \in Targets \cup {None, Partial}
    BY <1>53 DEF Surprise, WorldType
  <2> QED
    BY <1>53, <2>1, <2>2, <2>3 DEF Surprise, TypeOK, objectVars, queueVars, localVars, diskVars,
         requestVars, askedVars
<1>54. CASE Crash
  <2>1. infra' \in Targets \cup {None, Partial}
    <3>1. pc = "applying" => Target \in Targets
      BY TargetType DEF WorkerSteps, Rendering
    <3> QED
      BY <1>54, <3>1 DEF Crash, Unfinished, WorldType
  <2>2. WorldType'
    BY <1>54, <2>1 DEF Crash, WorldType
  <2>3. QueueType' /\ DiskType'
    BY <1>54 DEF Crash, QueueType, DiskType
  <2>4. LocalType'
    <3>1. 0 \in 0 .. (1 + MaxSurprises)
      BY BoundsAssumption
    <3> QED
      BY <1>54, <3>1 DEF Crash, LocalType
  <2>5. object' \in Objects /\ FaultType'
    BY <1>54, <1>b DEF Crash
  <2> QED
    BY <1>54, <2>2, <2>3, <2>4, <2>5, TypeOfIdle DEF Crash
<1>55. CASE Rest \/ UNCHANGED vars
  BY <1>55 DEF Rest, TypeOK, vars, objectVars, queueVars, localVars, otherVars, diskVars,
         worldVars, requestVars, askedVars
<1> QED
  BY <1>1, <1>2, <1>3, <1>4, <1>5, <1>6, <1>7, <1>8, <1>9, <1>10, <1>11, <1>12, <1>13, <1>14,
     <1>15, <1>16, <1>17, <1>18, <1>19, <1>20, <1>21, <1>22, <1>23, <1>24, <1>25, <1>26,
     <1>27, <1>28, <1>29, <1>30, <1>31, <1>32, <1>33, <1>34, <1>35, <1>36, <1>37, <1>38,
     <1>39, <1>40, <1>41, <1>42, <1>43, <1>44, <1>45, <1>46, <1>47, <1>48, <1>49, <1>50,
     <1>51, <1>52, <1>53, <1>54, <1>55
  DEF Next, Reconcile, HandleManualRetry, HandleRendering, HandleRefreshDependencies,
      HandleDeletionAndFinalizers, HandlePlan, HandleApply, HandleReschedule

-----------------------------------------------------------------------------
(* The kinds of steps *)

\* What users ask for with one object is what they ask for with the other; the
\* worker's part of both is the finalizer and that the object is there.
SameAsked(o, q) ==
  /\ o.exists = q.exists /\ o.generation = q.generation /\ o.spec = q.spec
  /\ o.deleting = q.deleting /\ o.finalizer = q.finalizer /\ o.annotations = q.annotations

\* A step that changes no more than the rest of the status: the worker's copy
\* stays, becomes up to date, or is dropped.
Quiet ==
  /\ SameAsked(object', object)
  /\ \/ UNCHANGED <<ws, fresh>> /\ (pc' = "idle" <=> pc = "idle")
     \/ pc' # "idle" /\ fresh' /\ SameAsked(ws', object)
     \/ pc' = "idle" /\ ~fresh'

\* The updates of the status change nothing that users ask for.
LEMMA UpdateAsked ==
  ASSUME NEW o \in Objects, NEW b, NEW c
  PROVE  /\ SameAsked(o, o)
         /\ SameAsked([o EXCEPT !.completed = b], o)
         /\ SameAsked([[o EXCEPT !.valid = b] EXCEPT !.completed = c], o)
         /\ SameAsked([o EXCEPT !.valid = b], o)
         /\ SameAsked([o EXCEPT !.blocked = b], o)
         /\ SameAsked([o EXCEPT !.due = b], o)
         /\ SameAsked([o EXCEPT !.newApply = b], o)
         /\ SameAsked([o EXCEPT !.blocked = b, !.retrying = c], o)
         /\ SameAsked([o EXCEPT !.blocked = FALSE, !.retrying = FALSE, !.due = TRUE], o)
         /\ SameAsked([o EXCEPT !.completed = TRUE, !.retrying = FALSE], o)
         /\ SameAsked([o EXCEPT !.completed = TRUE, !.newApply = FALSE, !.retrying = FALSE], o)
         /\ SameAsked([o EXCEPT !.newApply = FALSE, !.completed = TRUE, !.retrying = FALSE], o)
         /\ SameAsked([o EXCEPT !.hasChanges = FALSE, !.completed = TRUE, !.retrying = FALSE], o)
         /\ SameAsked([o EXCEPT !.observed = b, !.due = c], o)
         /\ SameAsked([o EXCEPT !.newPlan = b, !.hash = c], o)
         /\ SameAsked([o EXCEPT !.hasChanges = b, !.newPlan = FALSE, !.newApply = TRUE,
                                !.completed = TRUE, !.plan = c], o)
BY DEF Objects, SameAsked

\* A call that writes such an update is quiet, and so is Return after one.
LEMMA QuietWrites ==
  ASSUME TypeOK
  PROVE  /\ \A o : Write(o) /\ SameAsked(o, object) /\ pc' # "idle" => Quiet
         /\ \A o : TryWrite(o) /\ SameAsked(o, object) /\ pc # "idle" /\ pc' # "idle" => Quiet
         /\ ErroredAs([object EXCEPT !.valid = TRUE]) => Quiet
         /\ ErroredAs([object EXCEPT !.valid = FALSE]) => Quiet
         /\ Errored => Quiet
         /\ Aborted /\ pc # "idle" => Quiet
         /\ UNCHANGED objectVars /\ (pc' = "idle" <=> pc = "idle") => Quiet
         /\ \A q, t : Return(q, t) /\ SameAsked(object', object) => Quiet
<1>1. object \in Objects /\ SameAsked(object, object)
  BY DEF TypeOK, SameAsked
<1>2. \A o : Write(o) /\ SameAsked(o, object) /\ pc' # "idle" => Quiet
  BY DEF Write, Quiet
<1>3. UNCHANGED objectVars /\ (pc' = "idle" <=> pc = "idle") => Quiet
  BY <1>1 DEF objectVars, Quiet, SameAsked
<1>4. \A o : TryWrite(o) /\ SameAsked(o, object) /\ pc # "idle" /\ pc' # "idle" => Quiet
  BY <1>1, <1>2, <1>3 DEF TryWrite, Quiet, SameAsked
<1>5. \A v \in BOOLEAN : ErroredAs([object EXCEPT !.valid = v]) => Quiet
  BY <1>1, <1>2, UpdateAsked DEF ErroredAs
<1>7. Errored => Quiet
  BY <1>1, <1>2, UpdateAsked DEF Errored, ErroredAs
<1>6. \A q, t : Return(q, t) /\ SameAsked(object', object) => Quiet
  BY DEF Return, Quiet
<1> QED
  BY <1>2, <1>3, <1>4, <1>5, <1>6, <1>7 DEF Aborted

\* Every step is quiet, or one of the few that change what is asked for.
LEMMA Kinds ==
  ASSUME TypeOK, [Next]_vars
  PROVE  Quiet \/ AddFinalizer \/ RemoveFinalizer \/ DropRetry \/ DropApply \/ Users
<1> USE QuietWrites
<1>o. object \in Objects /\ SameAsked(object, object)
  BY DEF TypeOK, SameAsked
<1>1. CASE FindGone \/ WaitForRetry \/ WaitForRefresh
  BY <1>1 DEF FindGone, WaitForRetry, WaitForRefresh
<1>2. CASE Begin
  BY <1>2, <1>o DEF Begin
<1>3. CASE ClearBackoff \/ ManualRetryFails
  BY <1>3, <1>o, UpdateAsked DEF ClearBackoff, ManualRetryFails, SameAsked
<1>4. CASE HandleRendering
  BY <1>4, <1>o DEF HandleRendering, Render, RenderFails
<1>5. CASE HandleRefreshDependencies
  BY <1>5, <1>o, UpdateAsked DEF HandleRefreshDependencies, SkipInit, InitBegins, InitEnds,
     InitFails, At, DecideDeleting, DecideApply, DecideNothing, DecidePlan, DecideFails
<1>6. CASE HandleDeletionAndFinalizers
  BY <1>6, <1>o, UpdateAsked DEF HandleDeletionAndFinalizers, HasFinalizer, AwaitDestroy,
     AwaitDestroyFails, DestroyBegins, DestroySkipped, DestroyEnds, DestroyFails,
     FinalizerUpdateFails, At
<1>7. CASE HandlePlan
  BY <1>7, <1>o, UpdateAsked DEF HandlePlan, PlanDeferred, PlanBypassed, PlanBypassFails,
     PlanBegins, PlanEnds, PlanFails, RecordPlan, RecordFails, At
<1>8. CASE HandleApply
  BY <1>8, <1>o, UpdateAsked DEF HandleApply, LeaveDeleted, NoApply, AwaitApply,
     AwaitApplyFails, NothingToApply, ApplyBegins, ApplyEnds, ApplyFails, RecordApply, Settle,
     SettleFails, At
<1>9. CASE Observe \/ RescheduleFails
  <2>1. SameAsked([object EXCEPT !.observed = object.generation, !.due = FALSE], object)
    BY <1>o, UpdateAsked
  <2>2. CASE Observe
    BY <2>1, <2>2 DEF Observe, Observed
  <2>3. CASE RescheduleFails
    BY <2>1, <2>3 DEF RescheduleFails, Observed
  <2> QED
    BY <1>9, <2>2, <2>3
<1>10. CASE Backoff \/ Vanished
  <2>1. SameAsked([object EXCEPT !.blocked = TRUE, !.retrying = TRUE], object)
    BY <1>o, UpdateAsked
  <2>2. CASE Backoff
    BY <1>o, <2>1, <2>2 DEF Backoff
  <2>3. CASE Vanished
    BY <1>o, <2>3 DEF Vanished
  <2> QED
    BY <1>10, <2>2, <2>3
<1>11. CASE RetryTime \/ RefreshTime
  BY <1>11, <1>o, UpdateAsked DEF RetryTime, RefreshTime, Quiet
<1>12. CASE Surprise \/ Rest \/ UNCHANGED vars
  BY <1>12 DEF Surprise, Rest, vars, objectVars
<1>13. CASE Crash
  BY <1>13, <1>o DEF Crash, Quiet
<1> QED
  BY <1>1, <1>2, <1>3, <1>4, <1>5, <1>6, <1>7, <1>8, <1>9, <1>10, <1>11, <1>12, <1>13
  DEF Next, Reconcile, HandleManualRetry, HandleReschedule

\* Only destroy and apply touch the infrastructure, apart from what happens outside.
LEMMA Untouched ==
  ASSUME [Next]_vars
  PROVE  \/ UNCHANGED worldVars
         \/ Surprise
         \/ (DestroyEnds \/ DestroyFails \/ ApplyEnds \/ ApplyFails \/ Crash)
              /\ UNCHANGED <<upstream, surprises>>
<1>1. CASE FindGone \/ WaitForRetry \/ WaitForRefresh \/ Begin
  BY <1>1 DEF FindGone, WaitForRetry, WaitForRefresh, Begin, otherVars
<1>2. CASE HandleManualRetry
  BY <1>2 DEF HandleManualRetry, ClearBackoff, DropRetry, ManualRetryFails, otherVars
<1>3. CASE HandleRendering
  BY <1>3 DEF HandleRendering, Render, RenderFails, otherVars
<1>4. CASE HandleRefreshDependencies
  BY <1>4 DEF HandleRefreshDependencies, SkipInit, InitBegins, InitEnds, InitFails,
     DecideDeleting, DecideApply, DecideNothing, DecidePlan, DecideFails, otherVars
<1>5. CASE HandleDeletionAndFinalizers
  BY <1>5 DEF HandleDeletionAndFinalizers, HasFinalizer, AddFinalizer, AwaitDestroy,
     AwaitDestroyFails, DestroyBegins, DestroySkipped, DestroyEnds, DestroyFails,
     RemoveFinalizer, FinalizerUpdateFails, otherVars
<1>6. CASE HandlePlan
  BY <1>6 DEF HandlePlan, PlanDeferred, PlanBypassed, PlanBypassFails, PlanBegins, PlanEnds,
     PlanFails, RecordPlan, RecordFails, otherVars
<1>7. CASE HandleApply
  BY <1>7 DEF HandleApply, LeaveDeleted, NoApply, AwaitApply, AwaitApplyFails, NothingToApply,
     ApplyBegins, ApplyEnds, ApplyFails, RecordApply, Settle, SettleFails, otherVars
<1>8. CASE HandleReschedule
  BY <1>8 DEF HandleReschedule, DropApply, Observe, RescheduleFails, otherVars
<1>9. CASE Backoff \/ Vanished \/ Crash
  BY <1>9 DEF Backoff, Vanished, Crash, otherVars
<1>10. CASE Users \/ RetryTime \/ RefreshTime \/ Surprise \/ Rest \/ UNCHANGED vars
  BY <1>10 DEF Users, Edit, Annotate, Delete, UserWrites, RetryTime, RefreshTime,
     Rest, vars, otherVars
<1> QED
  BY <1>1, <1>2, <1>3, <1>4, <1>5, <1>6, <1>7, <1>8, <1>9, <1>10 DEF Next, Reconcile

\* Requests are made by users, and served when an apply begins; that the plan on
\* record is an old one is noted where plans are put off, made and observed.
LEMMA RequestsKept ==
  ASSUME [Next]_vars
  PROVE  \/ UNCHANGED requestVars
         \/ (ApplyBegins \/ Users) /\ UNCHANGED unplanned
         \/ (PlanDeferred \/ RecordPlan \/ Observe \/ RescheduleFails) /\ UNCHANGED askedVars
<1>1. CASE FindGone \/ WaitForRetry \/ WaitForRefresh \/ Begin
  BY <1>1 DEF FindGone, WaitForRetry, WaitForRefresh, Begin, otherVars
<1>2. CASE HandleManualRetry
  BY <1>2 DEF HandleManualRetry, ClearBackoff, DropRetry, ManualRetryFails, otherVars
<1>3. CASE HandleRendering
  BY <1>3 DEF HandleRendering, Render, RenderFails, otherVars
<1>4. CASE HandleRefreshDependencies
  BY <1>4 DEF HandleRefreshDependencies, SkipInit, InitBegins, InitEnds, InitFails,
     DecideDeleting, DecideApply, DecideNothing, DecidePlan, DecideFails, otherVars
<1>5. CASE HandleDeletionAndFinalizers
  BY <1>5 DEF HandleDeletionAndFinalizers, HasFinalizer, AddFinalizer, AwaitDestroy,
     AwaitDestroyFails, DestroyBegins, DestroySkipped, DestroyEnds, DestroyFails,
     RemoveFinalizer, FinalizerUpdateFails, otherVars
<1>6. CASE HandlePlan
  BY <1>6 DEF HandlePlan, PlanDeferred, PlanBypassed, PlanBypassFails, PlanBegins, PlanEnds,
     PlanFails, RecordPlan, RecordFails, otherVars
<1>7. CASE HandleApply
  BY <1>7 DEF HandleApply, LeaveDeleted, NoApply, AwaitApply, AwaitApplyFails, NothingToApply,
     ApplyBegins, ApplyEnds, ApplyFails, RecordApply, Settle, SettleFails, otherVars
<1>8. CASE HandleReschedule
  BY <1>8 DEF HandleReschedule, DropApply, Observe, RescheduleFails, otherVars
<1>9. CASE Backoff \/ Vanished \/ Crash
  BY <1>9 DEF Backoff, Vanished, Crash, otherVars
<1>10. CASE Users \/ RetryTime \/ RefreshTime \/ Surprise \/ Rest \/ UNCHANGED vars
  BY <1>10 DEF Users, Edit, Annotate, Delete, RetryTime, RefreshTime, Surprise, Rest, vars,
     otherVars, requestVars
<1> QED
  BY <1>1, <1>2, <1>3, <1>4, <1>5, <1>6, <1>7, <1>8, <1>9, <1>10 DEF Next, Reconcile

-----------------------------------------------------------------------------
(* Type correctness, for every reachable state *)

\* Every step keeps the bounds.
LEMMA BoundStep ==
  ASSUME TypeOK, Bounded, [Next]_vars
  PROVE  Bounded'
<1> USE BoundsAssumption
<1>1. upstream' <= 1 + surprises'
  <2>1. upstream \in Nat /\ surprises \in Nat /\ upstream <= 1 + surprises
    BY DEF TypeOK, Bounded
  <2>2. UNCHANGED <<upstream, surprises>> \/ Surprise
    BY Untouched DEF worldVars
  <2> QED
    BY <2>1, <2>2 DEF Surprise
<1>2. ~object'.deleting => object'.generation <= MaxGeneration
  <2>o. object \in Objects
    BY DEF TypeOK
  <2>1. CASE Quiet
    BY <2>1 DEF Quiet, SameAsked, Bounded
  <2>2. CASE AddFinalizer \/ RemoveFinalizer \/ DropRetry \/ DropApply
    BY <2>o, <2>2 DEF AddFinalizer, RemoveFinalizer, DropRetry, DropApply, Write, Bounded, Objects
  <2>3. CASE Users
    <3>1. ASSUME NEW s \in Specs, Edit(s)
          PROVE  object'.generation <= MaxGeneration
      BY <2>o, <3>1 DEF Edit, UserWrites, Objects
    <3>2. ASSUME NEW a \in UserAnnotations, Annotate(a)
          PROVE  object'.generation = object.generation /\ object'.deleting = object.deleting
      BY <2>o, <3>2 DEF Annotate, UserWrites, Objects
    <3>3. Delete => object'.deleting
      BY <2>o DEF Delete, UserWrites, Objects
    <3> QED
      BY <2>3, <3>1, <3>2, <3>3 DEF Users, Bounded
  <2> QED
    BY <2>1, <2>2, <2>3, Kinds
<1> QED
  BY <1>1, <1>2 DEF Bounded

\* Every step keeps main.tf there.
LEMMA RenderedStep ==
  ASSUME TypeOK, Rendered, [Next]_vars
  PROVE  Rendered'
<1>w. WorkerSteps \ (Rendering \cup {"idle", "backoff"}) =
        {"init", "initializing", "decide", "finalizer", "destroying", "cleanup", "plan",
         "planning", "record", "apply", "applying", "applied", "settle", "dropApply", "observe"}
  BY DEF WorkerSteps, Rendering
<1> USE <1>w DEF Rendered
<1>1. CASE FindGone \/ WaitForRetry \/ WaitForRefresh \/ Begin
  BY <1>1 DEF FindGone, WaitForRetry, WaitForRefresh, Begin, Take, localVars
<1>2. CASE HandleManualRetry
  BY <1>2 DEF HandleManualRetry, ClearBackoff, DropRetry, ManualRetryFails, Return, localVars
<1>3. CASE HandleRendering
  <2>1. CASE RenderFails
    BY <2>1 DEF RenderFails, Errored, ErroredAs
  <2>2. CASE Render
    <3>1. ws.spec.config \in Configs
      BY <2>2 DEF Render, At, TypeOK, Objects, Configs
    <3> QED
      BY <2>2, <3>1 DEF Render
  <2> QED
    BY <1>3, <2>1, <2>2 DEF HandleRendering
<1>4. CASE HandleRefreshDependencies
  BY <1>4 DEF HandleRefreshDependencies, SkipInit, InitBegins, InitEnds, InitFails, At,
     DecideDeleting, DecideApply, DecideNothing, DecidePlan, DecideFails, localVars,
     Errored, ErroredAs
<1>5. CASE HandleDeletionAndFinalizers
  BY <1>5 DEF HandleDeletionAndFinalizers, HasFinalizer, AddFinalizer, AwaitDestroy,
     AwaitDestroyFails, DestroyBegins, DestroySkipped, DestroyEnds, DestroyFails,
     RemoveFinalizer, FinalizerUpdateFails, At, localVars, Return, Aborted
<1>6. CASE HandlePlan
  BY <1>6 DEF HandlePlan, PlanDeferred, PlanBypassed, PlanBypassFails, PlanBegins, PlanEnds,
     PlanFails, RecordPlan, RecordFails, At, localVars, Aborted, Errored, ErroredAs
<1>7. CASE HandleApply
  BY <1>7 DEF HandleApply, LeaveDeleted, NoApply, AwaitApply, AwaitApplyFails, NothingToApply,
     ApplyBegins, ApplyEnds, ApplyFails, RecordApply, Settle, SettleFails, At, localVars,
     Return, Aborted, Errored, ErroredAs
<1>8. CASE HandleReschedule
  BY <1>8 DEF HandleReschedule, DropApply, Observe, RescheduleFails, At, localVars, Return,
     Aborted
<1>9. CASE Backoff \/ Vanished \/ Crash
  BY <1>9 DEF Backoff, Vanished, Crash, Return
<1>10. CASE Users \/ RetryTime \/ RefreshTime \/ Surprise \/ Rest \/ UNCHANGED vars
  BY <1>10 DEF Users, Edit, Annotate, Delete, UserWrites, RetryTime, RefreshTime, Surprise,
     Rest, vars, localVars
<1> QED
  BY <1>1, <1>2, <1>3, <1>4, <1>5, <1>6, <1>7, <1>8, <1>9, <1>10 DEF Next, Reconcile

\* Every variable keeps its type, with bounded counters; a worker that is not
\* idle holds a copy of the object.  [Reconcile]
THEOREM TypeInvariant == Spec => []TypeOK
<1>1. Init => TypeOK /\ Bounded /\ Rendered
  <2>1. Init => Rendered
    BY DEF Init, Rendered, Rendering
  <2> QED
    BY <2>1, InitType
<1>2. TypeOK /\ Bounded /\ Rendered /\ [Next]_vars => TypeOK' /\ Bounded' /\ Rendered'
  BY TypeStep, BoundStep, RenderedStep
<1> QED
  BY <1>1, <1>2, PTL DEF Spec

-----------------------------------------------------------------------------
(* Deletion *)

\* A copy with the current resourceVersion says what the object says; any copy
\* is right about a finalizer, and about a deletion, it has seen.
Copy ==
  pc # "idle" =>
    /\ fresh => SameAsked(ws, object)
    /\ ws.finalizer => object.finalizer
    /\ ws.deleting => object.deleting

\* What the worker has found out when it plans, applies, destroys or cleans up,
\* and where infrastructure may be left.
Working ==
  {"plan", "planning", "record", "apply", "applying", "applied", "settle", "dropApply",
   "observe"}
Finalized ==
  /\ object.exists /\ ~object.finalizer => infra = None
  /\ pc \in Working => object.finalizer
  /\ pc = "destroying" => ws.deleting /\ MayDestroy
  /\ pc = "cleanup" => ws.deleting /\ (infra = None \/ ws.spec.destroy = "skip")
  /\ NothingLeftBehind

\* Every step keeps the copy as reliable as that.
LEMMA CopyStep ==
  ASSUME TypeOK, Copy, [Next]_vars
  PROVE  Copy'
<1>o. object \in Objects /\ (pc # "idle" => ws \in Objects)
  BY DEF TypeOK
<1>1. CASE Quiet
  BY <1>1 DEF Quiet, Copy, SameAsked
<1>2. CASE AddFinalizer
  BY <1>o, <1>2 DEF AddFinalizer, At, Write, Copy, SameAsked, Objects
<1>3. CASE RemoveFinalizer
  BY <1>3 DEF RemoveFinalizer, Return, Copy
<1>4. CASE DropRetry \/ DropApply
  BY <1>o, <1>4 DEF DropRetry, DropApply, Write, Copy, SameAsked, Objects
<1>5. CASE Users
  <2>1. UNCHANGED <<ws, pc>> /\ ~fresh'
    BY <1>5 DEF Users, Edit, Annotate, Delete, UserWrites
  <2>2. object'.finalizer = object.finalizer /\ (object.deleting => object'.deleting)
    BY <1>o, <1>5 DEF Users, Edit, Annotate, Delete, UserWrites, Objects
  <2> QED
    BY <2>1, <2>2 DEF Copy
<1> QED
  BY <1>1, <1>2, <1>3, <1>4, <1>5, Kinds

\* How the worker gets to the steps that Finalized speaks of.
LEMMA Paths ==
  ASSUME TypeOK, [Next]_vars
  PROVE  /\ pc' \in Working => pc \in Working \/ HasFinalizer \/ AddFinalizer
         /\ pc' = "destroying" => DestroyBegins \/ (pc = "destroying" /\ UNCHANGED ws)
         /\ pc' = "cleanup" =>
              DestroyEnds \/ DestroySkipped \/ (pc = "cleanup" /\ UNCHANGED ws)
         /\ pc' = "applying" => ApplyBegins \/ pc = "applying"
<1> USE DEF Working
<1>1. CASE FindGone \/ WaitForRetry \/ WaitForRefresh \/ Begin
  BY <1>1 DEF FindGone, WaitForRetry, WaitForRefresh, Begin, Take
<1>2. CASE HandleManualRetry
  BY <1>2 DEF HandleManualRetry, ClearBackoff, DropRetry, ManualRetryFails, Return
<1>3. CASE HandleRendering
  BY <1>3 DEF HandleRendering, Render, RenderFails, Errored, ErroredAs
<1>4. CASE HandleRefreshDependencies
  BY <1>4 DEF HandleRefreshDependencies, SkipInit, InitBegins, InitEnds, InitFails,
     DecideDeleting, DecideApply, DecideNothing, DecidePlan, DecideFails, Errored, ErroredAs
<1>5. CASE HandleDeletionAndFinalizers
  BY <1>5 DEF HandleDeletionAndFinalizers, HasFinalizer, AddFinalizer, AwaitDestroy,
     AwaitDestroyFails, DestroyBegins, DestroySkipped, DestroyEnds, DestroyFails,
     RemoveFinalizer, FinalizerUpdateFails, Return, Aborted
<1>6. CASE HandlePlan
  BY <1>6 DEF HandlePlan, PlanDeferred, PlanBypassed, PlanBypassFails, PlanBegins, PlanEnds,
     PlanFails, RecordPlan, RecordFails, At, Aborted, Errored, ErroredAs
<1>7. CASE HandleApply
  BY <1>7 DEF HandleApply, LeaveDeleted, NoApply, AwaitApply, AwaitApplyFails, NothingToApply,
     ApplyBegins, ApplyEnds, ApplyFails, RecordApply, Settle, SettleFails, At, Return, Aborted,
     Errored, ErroredAs
<1>8. CASE HandleReschedule
  BY <1>8 DEF HandleReschedule, DropApply, Observe, RescheduleFails, At, Return, Aborted
<1>9. CASE Backoff \/ Vanished \/ Crash
  BY <1>9 DEF Backoff, Vanished, Crash, Return
<1>10. CASE Users \/ RetryTime \/ RefreshTime \/ Surprise \/ Rest \/ UNCHANGED vars
  BY <1>10 DEF Users, Edit, Annotate, Delete, UserWrites, RetryTime, RefreshTime, Surprise,
     Rest, vars, objectVars
<1> QED
  BY <1>1, <1>2, <1>3, <1>4, <1>5, <1>6, <1>7, <1>8, <1>9, <1>10 DEF Next, Reconcile

\* A missing object stays missing, and the infrastructure then stays as it is.
LEMMA GoneForGood ==
  ASSUME TypeOK, [Next]_vars
  PROVE  /\ ~object.exists => ~object'.exists /\ object'.spec = object.spec /\ UNCHANGED infra
         /\ object.exists /\ ~object'.exists => RemoveFinalizer \/ (Delete /\ ~object.finalizer)
         /\ object.finalizer /\ ~object'.finalizer => RemoveFinalizer
<1>o. object \in Objects
  BY DEF TypeOK
<1>i. UNCHANGED infra \/ object.exists
  BY Untouched DEF worldVars, Surprise, DestroyEnds, DestroyFails, ApplyEnds, ApplyFails, Crash,
     At
<1>1. CASE Quiet
  BY <1>1, <1>i DEF Quiet, SameAsked
<1>2. CASE AddFinalizer \/ DropRetry \/ DropApply
  BY <1>o, <1>i, <1>2 DEF AddFinalizer, DropRetry, DropApply, At, Write, Objects
<1>3. CASE RemoveFinalizer
  BY <1>3 DEF RemoveFinalizer, At
<1>4. CASE Users
  <2>1. (\E s \in Specs : Edit(s)) \/ (\E a \in UserAnnotations : Annotate(a))
          => object'.exists = object.exists /\ object'.finalizer = object.finalizer
    BY <1>o DEF Edit, Annotate, UserWrites, Objects
  <2>2. Delete => object'.exists = object.finalizer /\ object'.finalizer = object.finalizer
    BY <1>o DEF Delete, UserWrites, Objects
  <2>3. object.exists
    BY <1>4 DEF Users, Edit, Annotate, Delete, UserActs
  <2> QED
    BY <1>4, <2>1, <2>2, <2>3 DEF Users
<1> QED
  BY <1>1, <1>2, <1>3, <1>4, Kinds

\* Every step keeps the finalizer and the infrastructure in order.
LEMMA FinalizedStep ==
  ASSUME TypeOK, Copy, Finalized, [Next]_vars
  PROVE  Finalized'
<1>o. object \in Objects
  BY DEF TypeOK
<1>1. pc' \in Working => object'.finalizer
  <2>1. CASE pc \in Working \/ HasFinalizer
    <3>1. object.finalizer
      BY <2>1 DEF Finalized, HasFinalizer, At, Copy
    <3>2. RemoveFinalizer => pc' = "idle"
      BY DEF RemoveFinalizer, Return
    <3> QED
      BY <3>1, <3>2, GoneForGood DEF Working
  <2>2. CASE AddFinalizer
    BY <1>o, <2>2 DEF AddFinalizer, Write, Objects
  <2> QED
    BY <2>1, <2>2, Paths
<1>2. pc' = "destroying" => ws'.deleting /\ MayDestroy'
  BY Paths DEF Finalized, MayDestroy, DestroyBegins, objectVars
<1>3. pc' = "cleanup" => ws'.deleting /\ (infra' = None \/ ws'.spec.destroy = "skip")
  <2>1. CASE DestroyEnds
    BY <2>1 DEF DestroyEnds, At, Finalized, objectVars
  <2>2. CASE DestroySkipped
    BY <2>2 DEF DestroySkipped, objectVars
  <2>3. CASE pc = "cleanup" /\ pc' = "cleanup" /\ UNCHANGED ws
    <3>1. infra = None => infra' = None
      BY <2>3, Untouched, NoneAssumption DEF worldVars, Surprise, DestroyEnds, DestroyFails,
         ApplyEnds, ApplyFails, Crash, At
    <3> QED
      BY <2>3, <3>1 DEF Finalized
  <2> QED
    BY <2>1, <2>2, <2>3, Paths
<1>4. ASSUME object'.exists, ~object'.finalizer
      PROVE  infra' = None
  <2>1. object.exists /\ ~object.finalizer
    <3>1. RemoveFinalizer => ~object'.exists
      BY <1>o DEF RemoveFinalizer, Objects
    <3> QED
      BY <1>4, <3>1, GoneForGood
  <2>2. infra = None /\ pc # "applying"
    BY <2>1 DEF Finalized, Working
  <2> QED
    BY <2>2, Untouched, NoneAssumption DEF worldVars, Surprise, DestroyEnds, DestroyFails,
       ApplyEnds, ApplyFails, Crash, At
<1>5. NothingLeftBehind'
  <2>1. CASE ~object.exists
    BY <2>1, GoneForGood DEF Finalized, NothingLeftBehind
  <2>2. CASE RemoveFinalizer
    <3>1. infra = None \/ object.spec.destroy = "skip"
      BY <2>2 DEF RemoveFinalizer, At, Finalized, Copy, SameAsked
    <3>2. object'.spec = object.spec /\ UNCHANGED infra
      BY <1>o, <2>2 DEF RemoveFinalizer, Objects, worldVars
    <3> QED
      BY <3>1, <3>2 DEF NothingLeftBehind
  <2>3. CASE Delete /\ object.exists /\ ~object.finalizer
    BY <2>3 DEF Delete, UserWrites, worldVars, Finalized, NothingLeftBehind
  <2>4. CASE object'.exists
    BY <2>4 DEF NothingLeftBehind
  <2> QED
    BY <2>1, <2>2, <2>3, <2>4, GoneForGood
<1> QED
  BY <1>1, <1>2, <1>3, <1>4, <1>5 DEF Finalized

\* What the theorems below rest on.
SafeInv == TypeOK /\ Bounded /\ Rendered /\ Copy /\ Finalized

\* They hold in every reachable state.
LEMMA Safe ==
  /\ Init => SafeInv
  /\ SafeInv /\ [Next]_vars => SafeInv'
<1>1. Init => SafeInv
  <2>1. Init => Rendered /\ Copy /\ Finalized
    BY DEF Init, Created, Rendered, Rendering, Copy, Finalized, Working, NothingLeftBehind
  <2> QED
    BY <2>1, InitType DEF SafeInv
<1>2. SafeInv /\ [Next]_vars => SafeInv'
  BY TypeStep, BoundStep, RenderedStep, CopyStep, FinalizedStep DEF SafeInv
<1> QED
  BY <1>1, <1>2

\* An object does not go away before its infrastructure, or its policy says so,
\* for every set of specs and whatever interrupts or fails: the finalizer is there
\* before a plan, and is removed under the resourceVersion that was decided on.
\* [handleDeletionAndFinalizers]
THEOREM NothingIsLeftBehind == Spec => []NothingLeftBehind
<1>1. SafeInv => NothingLeftBehind
  BY DEF SafeInv, Finalized
<1> QED
  BY <1>1, Safe, PTL DEF Spec

\* Infrastructure is torn down only for a deletion that the policy or the
\* annotation lets through.  [handleDeletionAndFinalizers]
THEOREM DestroysWhatIsDeleted == Spec => DestroysOnRequest
<1> DEFINE Asked ==
      infra # None /\ infra' = None =>
        /\ object.deleting
        /\ \/ ~fresh
           \/ object.spec.destroy = "auto"
           \/ object.spec.destroy = "manual" /\ "destroy" \in object.annotations
<1>1. SafeInv /\ [Next]_vars => Asked
  <2> SUFFICES ASSUME SafeInv, [Next]_vars, infra # None, infra' = None
               PROVE  Asked
    OBVIOUS
  <2>1. pc = "destroying"
    <3>1. pc = "applying" => Target \in Targets
      BY TargetType DEF SafeInv, WorkerSteps, Rendering
    <3> QED
      BY <3>1, Untouched, NoneAssumption DEF worldVars, Surprise, DestroyEnds, DestroyFails,
         ApplyEnds, ApplyFails, Unfinished, Crash, At
  <2>2. ws.deleting /\ MayDestroy
    BY <2>1 DEF SafeInv, Finalized
  <2>3. object.deleting
    BY <2>1, <2>2 DEF SafeInv, Copy
  <2>4. fresh => ws.spec = object.spec /\ ws.annotations = object.annotations
    BY <2>1 DEF SafeInv, Copy, SameAsked
  <2>5. \/ ~fresh
        \/ object.spec.destroy = "auto"
        \/ object.spec.destroy = "manual" /\ "destroy" \in object.annotations
    BY <2>2, <2>4 DEF MayDestroy
  <2> QED
    BY <2>3, <2>5
<1>2. Spec => [][Asked]_vars
  <2>1. SafeInv /\ [Next]_vars => [Asked]_vars
    BY <1>1
  <2> QED
    BY <2>1, Safe, PTL DEF Spec
<1> QED
  BY <1>2 DEF DestroysOnRequest

-----------------------------------------------------------------------------
(* The plan on record *)

\* What of the status a plan is about; and o has no changes that q has not.
SamePlan(o, q) ==
  /\ o.observed = q.observed /\ o.plan = q.plan /\ o.newPlan = q.newPlan
  /\ o.hasChanges => q.hasChanges

\* The updates of the status change nothing of it, but for those of decidePlanAfterInit,
\* createPlanRecord and handleReschedule.
LEMMA UpdatePlan ==
  ASSUME NEW o \in Objects, NEW b, NEW c
  PROVE  /\ SamePlan(o, o)
         /\ SamePlan([o EXCEPT !.completed = b], o)
         /\ SamePlan([[o EXCEPT !.valid = b] EXCEPT !.completed = c], o)
         /\ SamePlan([o EXCEPT !.valid = b], o)
         /\ SamePlan([o EXCEPT !.blocked = b], o)
         /\ SamePlan([o EXCEPT !.due = b], o)
         /\ SamePlan([o EXCEPT !.newApply = b], o)
         /\ SamePlan([o EXCEPT !.finalizer = b], o)
         /\ SamePlan([o EXCEPT !.blocked = b, !.retrying = c], o)
         /\ SamePlan([o EXCEPT !.blocked = FALSE, !.retrying = FALSE, !.due = TRUE], o)
         /\ SamePlan([o EXCEPT !.completed = TRUE, !.retrying = FALSE], o)
         /\ SamePlan([o EXCEPT !.completed = TRUE, !.newApply = FALSE, !.retrying = FALSE], o)
         /\ SamePlan([o EXCEPT !.newApply = FALSE, !.completed = TRUE, !.retrying = FALSE], o)
         /\ SamePlan([o EXCEPT !.hasChanges = FALSE, !.completed = TRUE, !.retrying = FALSE], o)
         /\ SamePlan([o EXCEPT !.annotations = b], o)
BY DEF Objects, SamePlan

\* The steps that are not the worker's, and leave it alone.
Outside == Users \/ RetryTime \/ RefreshTime \/ Surprise \/ Rest \/ UNCHANGED vars

\* They leave the worker, and the status but for two timestamps.
LEMMA OutsideKeeps ==
  ASSUME TypeOK, Outside
  PROVE  /\ UNCHANGED <<ws, pc, localVars, diskVars>>
         /\ object'.plan = object.plan /\ object'.newPlan = object.newPlan
         /\ object'.observed = object.observed /\ object'.hasChanges = object.hasChanges
         /\ object.annotations \subseteq object'.annotations
<1>o. object \in Objects
  BY DEF TypeOK
<1>1. CASE Users
  BY <1>o, <1>1 DEF Users, Edit, Annotate, Delete, UserWrites, Objects
<1>2. CASE RetryTime \/ RefreshTime
  BY <1>o, <1>2 DEF RetryTime, RefreshTime, otherVars, Objects
<1>3. CASE Surprise \/ Rest \/ UNCHANGED vars
  BY <1>3 DEF Surprise, Rest, vars, objectVars, otherVars
<1> QED
  BY <1>1, <1>2, <1>3 DEF Outside

\* Four steps change what a plan is about; all others write other fields.
LEMMA PlanWrites ==
  ASSUME TypeOK
  PROVE  /\ \A o : Write(o) /\ SamePlan(o, object) => SamePlan(object', object)
         /\ \A o : TryWrite(o) /\ SamePlan(o, object) => SamePlan(object', object)
         /\ \A v \in BOOLEAN : ErroredAs([object EXCEPT !.valid = v]) => SamePlan(object', object)
         /\ Errored => SamePlan(object', object)
         /\ UNCHANGED object => SamePlan(object', object)
         /\ UNCHANGED objectVars => SamePlan(object', object)
<1>o. object \in Objects
  BY DEF TypeOK
<1>1. UNCHANGED object => SamePlan(object', object)
  BY DEF SamePlan
<1>2. \A o : Write(o) /\ SamePlan(o, object) => SamePlan(object', object)
  BY DEF Write
<1>3. \A o : TryWrite(o) /\ SamePlan(o, object) => SamePlan(object', object)
  BY <1>1, <1>2 DEF TryWrite, objectVars
<1>4. \A v \in BOOLEAN : ErroredAs([object EXCEPT !.valid = v]) => SamePlan(object', object)
  BY <1>o, <1>2, UpdatePlan DEF ErroredAs
<1>5. Errored => SamePlan(object', object)
  BY <1>o, <1>2, UpdatePlan DEF Errored, ErroredAs
<1> QED
  BY <1>1, <1>2, <1>3, <1>4, <1>5 DEF objectVars

\* So all but those four keep it.
LEMMA PlanKept ==
  ASSUME TypeOK, [Next]_vars
  PROVE  SamePlan(object', object) \/ DecidePlan \/ RecordPlan \/ Observe \/ RescheduleFails
<1> USE PlanWrites
<1>o. object \in Objects /\ SamePlan(object, object)
  BY DEF TypeOK, SamePlan
<1>1. CASE FindGone \/ WaitForRetry \/ WaitForRefresh \/ Begin
  BY <1>1, <1>o DEF FindGone, WaitForRetry, WaitForRefresh, Begin
<1>2. CASE HandleManualRetry \/ HandleRendering
  BY <1>2, <1>o, UpdatePlan DEF HandleManualRetry, ClearBackoff, DropRetry, ManualRetryFails,
     HandleRendering, Render, RenderFails
<1>3. CASE HandleRefreshDependencies
  BY <1>3, <1>o, UpdatePlan DEF HandleRefreshDependencies, SkipInit, InitBegins, InitEnds,
     InitFails, DecideDeleting, DecideApply, DecideNothing, DecideFails
<1>4. CASE AddFinalizer \/ RemoveFinalizer
  <2>1. \A b : SamePlan([object EXCEPT !.finalizer = b], object)
    BY <1>o, UpdatePlan
  <2>2. SamePlan([object EXCEPT !.finalizer = FALSE, !.exists = FALSE], object)
    BY <1>o DEF SamePlan, Objects
  <2> QED
    BY <1>4, <2>1, <2>2 DEF AddFinalizer, RemoveFinalizer
<1>5. CASE HandleDeletionAndFinalizers /\ ~AddFinalizer /\ ~RemoveFinalizer
  BY <1>5, <1>o, UpdatePlan DEF HandleDeletionAndFinalizers, HasFinalizer, AwaitDestroy,
     AwaitDestroyFails, DestroyBegins, DestroySkipped, DestroyEnds, DestroyFails,
     FinalizerUpdateFails, Aborted
<1>6. CASE HandlePlan
  BY <1>6, <1>o, UpdatePlan DEF HandlePlan, PlanDeferred, PlanBypassed, PlanBypassFails,
     PlanBegins, PlanEnds, PlanFails, RecordFails, Aborted
<1>7. CASE HandleApply
  BY <1>7, <1>o, UpdatePlan DEF HandleApply, LeaveDeleted, NoApply, AwaitApply,
     AwaitApplyFails, NothingToApply, ApplyBegins, ApplyEnds, ApplyFails, RecordApply, Settle,
     SettleFails, Aborted
<1>8. CASE DropApply
  BY <1>8, <1>o, UpdatePlan DEF DropApply
<1>9. CASE Backoff \/ Vanished \/ Crash
  <2>1. SamePlan([object EXCEPT !.blocked = TRUE, !.retrying = TRUE], object)
    BY <1>o, UpdatePlan
  <2> QED
    BY <1>9, <2>1 DEF Backoff, Vanished, Crash
<1>10. CASE Outside
  BY <1>10, OutsideKeeps DEF SamePlan
<1> QED
  BY <1>1, <1>2, <1>3, <1>4, <1>5, <1>6, <1>7, <1>8, <1>9, <1>10
  DEF Next, Reconcile, HandleReschedule, Outside

\* Generations only grow, and grow with the spec; while a reconcile runs, neither
\* does.
LEMMA GenerationsGrow ==
  ASSUME TypeOK, [Next]_vars
  PROVE  /\ object.deleting => object'.deleting
         /\ object.exists \/ ~object'.exists
         /\ \/ object'.generation = object.generation /\ object'.spec = object.spec
            \/ object'.generation = object.generation + 1 /\ Users
<1>o. object \in Objects
  BY DEF TypeOK
<1>1. CASE Quiet
  BY <1>1 DEF Quiet, SameAsked
<1>2. CASE AddFinalizer \/ DropRetry \/ DropApply
  BY <1>o, <1>2 DEF AddFinalizer, DropRetry, DropApply, At, Write, Objects
<1>3. CASE RemoveFinalizer
  BY <1>o, <1>3 DEF RemoveFinalizer, Objects
<1>4. CASE Users
  <2>1. ASSUME NEW s \in Specs, Edit(s)
        PROVE  object'.generation = object.generation + 1 /\ object'.deleting = object.deleting
    BY <1>o, <2>1 DEF Edit, UserWrites, Objects
  <2>2. ASSUME NEW a \in UserAnnotations, Annotate(a)
        PROVE  object'.generation = object.generation /\ object'.deleting = object.deleting
               /\ object'.spec = object.spec
    BY <1>o, <2>2 DEF Annotate, UserWrites, Objects
  <2>3. Delete => object'.generation = object.generation + 1 /\ object'.deleting
    BY <1>o DEF Delete, UserWrites, Objects
  <2>4. object.exists
    BY <1>4 DEF Users, Edit, Annotate, Delete, UserActs
  <2> QED
    BY <1>4, <2>1, <2>2, <2>3, <2>4 DEF Users
<1> QED
  BY <1>1, <1>2, <1>3, <1>4, Kinds

\* So a new plan comes from createPlanRecord, is asked for by decidePlanAfterInit, and
\* a generation is recorded at the end, when it is noted whether it was rendered.
LEMMA PlanSteps ==
  ASSUME TypeOK, [Next]_vars
  PROVE  /\ \/ object'.observed = object.observed
            \/ /\ pc = "observe" /\ object' = Observed /\ NotesUnplanned
               /\ pc' = "idle" \/ (pc' = "backoff" /\ ws' = object')
         /\ RecordPlan \/ object'.plan = object.plan
         /\ RecordPlan \/ (object'.hasChanges => object.hasChanges)
         /\ RecordPlan \/ (unplanned => unplanned')
         /\ RecordPlan =>
              /\ object'.plan = Target /\ ~unplanned' /\ ws' = object' /\ pc' = "apply"
              /\ object'.observed = object.observed
<1>o. object \in Objects
  BY DEF TypeOK
<1>1. RecordPlan \/ (unplanned => unplanned')
  BY RequestsKept DEF requestVars, PlanDeferred, Observe, RescheduleFails, NotesUnplanned
<1>2. CASE SamePlan(object', object) /\ ~RecordPlan
  BY <1>1, <1>2 DEF SamePlan
<1>3. CASE DecidePlan
  <2>1. ~RecordPlan
    BY <1>3 DEF DecidePlan, RecordPlan, At
  <2> QED
    BY <1>o, <1>1, <1>3, <2>1 DEF DecidePlan, Write, Objects
<1>4. CASE RecordPlan
  BY <1>o, <1>4 DEF RecordPlan, Write, Objects
<1>5. CASE Observe \/ RescheduleFails
  <2>0. ~RecordPlan
    BY <1>5 DEF Observe, RescheduleFails, RecordPlan, At
  <2>1. Observed.plan = object.plan /\ Observed.hasChanges = object.hasChanges
    BY <1>o DEF Observed, Objects
  <2>2. CASE Observe
    BY <1>1, <2>0, <2>1, <2>2 DEF Observe, At, Return
  <2>3. CASE RescheduleFails
    BY <1>1, <2>0, <2>1, <2>3 DEF RescheduleFails, Aborted, objectVars, Write
  <2> QED
    BY <1>5, <2>2, <2>3
<1> QED
  BY <1>2, <1>3, <1>4, <1>5, PlanKept

\* The steps from rendering on, and those after a plan.
Onwards == WorkerSteps \ (Rendering \cup {"idle", "backoff"})
Settling == {"apply", "applying", "applied", "settle", "dropApply", "observe"}

\* How the worker gets to the steps around a plan.
LEMMA PlanPaths ==
  ASSUME TypeOK, [Next]_vars
  PROVE  /\ pc' \in Onwards => Render \/ (pc \in Onwards /\ UNCHANGED rendered)
         /\ pc' = "finalizer" =>
              \/ DecideDeleting \/ DecideApply \/ DecideNothing \/ DecidePlan
              \/ pc = "finalizer" /\ UNCHANGED <<ws, localVars, diskVars>>
         /\ pc' = "plan" =>
              HasFinalizer \/ AddFinalizer \/ (pc = "plan" /\ UNCHANGED <<ws, localVars, diskVars>>)
         /\ pc' \in Settling => PlanDeferred \/ PlanBypassed \/ RecordPlan \/ pc \in Settling
         /\ pc' = "apply" =>
              \/ PlanDeferred \/ PlanBypassed \/ RecordPlan
              \/ pc = "apply" /\ UNCHANGED <<ws, localVars, diskVars>>
         /\ pc' = "applying" =>
              ApplyBegins \/ (pc = "applying" /\ UNCHANGED <<ws, localVars, diskVars>>)
<1>w. Onwards =
        {"init", "initializing", "decide", "finalizer", "destroying", "cleanup", "plan",
         "planning", "record", "apply", "applying", "applied", "settle", "dropApply", "observe"}
  BY DEF Onwards, WorkerSteps, Rendering
<1> USE <1>w DEF Settling, localVars
<1>1. CASE FindGone \/ WaitForRetry \/ WaitForRefresh \/ Begin
  BY <1>1 DEF FindGone, WaitForRetry, WaitForRefresh, Begin, Take
<1>2. CASE HandleManualRetry
  BY <1>2 DEF HandleManualRetry, ClearBackoff, DropRetry, ManualRetryFails, Return
<1>3. CASE HandleRendering
  BY <1>3 DEF HandleRendering, Render, RenderFails, Errored, ErroredAs
<1>4. CASE HandleRefreshDependencies
  BY <1>4 DEF HandleRefreshDependencies, At, SkipInit, InitBegins, InitEnds, InitFails,
     DecideDeleting, DecideApply, DecideNothing, DecidePlan, DecideFails, Errored, ErroredAs
<1>5. CASE HandleDeletionAndFinalizers
  BY <1>5 DEF HandleDeletionAndFinalizers, At, HasFinalizer, AddFinalizer, AwaitDestroy,
     AwaitDestroyFails, DestroyBegins, DestroySkipped, DestroyEnds, DestroyFails,
     RemoveFinalizer, FinalizerUpdateFails, Return, Aborted
<1>6. CASE HandlePlan
  BY <1>6 DEF HandlePlan, PlanDeferred, PlanBypassed, PlanBypassFails, PlanBegins, PlanEnds,
     PlanFails, RecordPlan, RecordFails, At, Aborted, Errored, ErroredAs
<1>7. CASE HandleApply
  BY <1>7 DEF HandleApply, LeaveDeleted, NoApply, AwaitApply, AwaitApplyFails, NothingToApply,
     ApplyBegins, ApplyEnds, ApplyFails, RecordApply, Settle, SettleFails, At, Return, Aborted,
     Errored, ErroredAs
<1>8. CASE HandleReschedule
  BY <1>8 DEF HandleReschedule, DropApply, Observe, RescheduleFails, At, Return, Aborted
<1>9. CASE Backoff \/ Vanished \/ Crash
  BY <1>9 DEF Backoff, Vanished, Crash, At, Return
<1>10. CASE Outside
  BY <1>10, OutsideKeeps
<1> QED
  BY <1>1, <1>2, <1>3, <1>4, <1>5, <1>6, <1>7, <1>8, <1>9, <1>10 DEF Next, Reconcile, Outside

\* The worker's copy is right about plans, and about an apply that it asks for.
Tracked ==
  pc # "idle" =>
    SamePlan(ws, object) /\ ("apply" \in ws.annotations => "apply" \in object.annotations)

\* Calls keep it so.
LEMMA TrackedWrites ==
  ASSUME TypeOK, Tracked
  PROVE  /\ \A o : Write(o) => Tracked'
         /\ \A o : /\ TryWrite(o) /\ SameAsked(o, object) /\ SamePlan(o, object) /\ pc # "idle"
                   => Tracked'
         /\ \A o : ErroredAs(o) => Tracked'
         /\ Errored => Tracked'
         /\ Aborted /\ pc # "idle" => Tracked'
         /\ UNCHANGED objectVars /\ pc # "idle" => Tracked'
         /\ pc' = "idle" => Tracked'
<1>1. \A o : Write(o) => Tracked'
  BY DEF Write, Tracked, SamePlan
<1>2. UNCHANGED objectVars /\ pc # "idle" => Tracked'
  BY DEF objectVars, Tracked, SamePlan
<1>3. \A o : TryWrite(o) /\ SameAsked(o, object) /\ SamePlan(o, object) /\ pc # "idle"
               => Tracked'
  BY <1>1, <1>2 DEF TryWrite, Tracked, SameAsked, SamePlan
<1>4. pc' = "idle" => Tracked'
  BY DEF Tracked
<1> QED
  BY <1>1, <1>2, <1>3, <1>4 DEF Errored, ErroredAs, Aborted

\* Every step keeps it so.
LEMMA TrackedStep ==
  ASSUME TypeOK, Tracked, [Next]_vars
  PROVE  Tracked'
<1> USE TrackedWrites
<1>o. object \in Objects
  BY DEF TypeOK
<1>c. /\ SameAsked([object EXCEPT !.completed = FALSE], object)
      /\ SamePlan([object EXCEPT !.completed = FALSE], object)
      /\ SameAsked([object EXCEPT !.completed = TRUE], object)
      /\ SamePlan([object EXCEPT !.completed = TRUE], object)
      /\ SameAsked([object EXCEPT !.completed = TRUE, !.retrying = FALSE], object)
      /\ SamePlan([object EXCEPT !.completed = TRUE, !.retrying = FALSE], object)
  BY <1>o, UpdateAsked, UpdatePlan
<1>1. CASE FindGone \/ WaitForRetry \/ WaitForRefresh \/ Begin
  BY <1>1 DEF FindGone, WaitForRetry, WaitForRefresh, Begin, Take
<1>2. CASE HandleManualRetry \/ HandleRendering
  BY <1>2 DEF HandleManualRetry, ClearBackoff, DropRetry, ManualRetryFails, Return,
     HandleRendering, Render, RenderFails
<1>3. CASE HandleRefreshDependencies
  BY <1>3, <1>c DEF HandleRefreshDependencies, SkipInit, InitBegins, InitEnds, InitFails, At,
     DecideDeleting, DecideApply, DecideNothing, DecidePlan, DecideFails
<1>4. CASE HandleDeletionAndFinalizers
  BY <1>4 DEF HandleDeletionAndFinalizers, HasFinalizer, AddFinalizer, AwaitDestroy, At,
     AwaitDestroyFails, DestroyBegins, DestroySkipped, DestroyEnds, DestroyFails,
     RemoveFinalizer, FinalizerUpdateFails, Return
<1>5. CASE HandlePlan
  BY <1>5, <1>c DEF HandlePlan, PlanDeferred, PlanBypassed, PlanBypassFails, PlanBegins,
     PlanEnds, PlanFails, RecordPlan, RecordFails, At
<1>6. CASE HandleApply
  BY <1>6, <1>c DEF HandleApply, LeaveDeleted, NoApply, AwaitApply, AwaitApplyFails,
     NothingToApply, ApplyBegins, ApplyEnds, ApplyFails, RecordApply, Settle, SettleFails, At,
     Return
<1>7. CASE HandleReschedule \/ Backoff \/ Vanished \/ Crash
  BY <1>7 DEF HandleReschedule, DropApply, Observe, RescheduleFails, At, Return, Backoff,
     Vanished, Crash
<1>8. CASE Outside
  BY <1>8, OutsideKeeps DEF Tracked, SamePlan
<1> QED
  BY <1>1, <1>2, <1>3, <1>4, <1>5, <1>6, <1>7, <1>8 DEF Next, Reconcile, Outside

-----------------------------------------------------------------------------
(* What is applied *)

\* Nobody asks for an apply with the annotation.
NoRequests == "apply" \notin UserAnnotations

Unrequested ==
  "apply" \notin object.annotations /\ (pc # "idle" => "apply" \notin ws.annotations)

\* Annotations come from users.
LEMMA UnrequestedStep ==
  ASSUME NoRequests, TypeOK, Unrequested, [Next]_vars
  PROVE  Unrequested'
<1>o. object \in Objects /\ (pc # "idle" => ws \in Objects)
  BY DEF TypeOK
<1>1. CASE Quiet
  BY <1>1 DEF Quiet, Unrequested, SameAsked
<1>2. CASE AddFinalizer
  BY <1>o, <1>2 DEF AddFinalizer, At, Write, Unrequested, Objects
<1>3. CASE RemoveFinalizer
  BY <1>o, <1>3 DEF RemoveFinalizer, Return, Unrequested, Objects
<1>4. CASE DropRetry \/ DropApply
  BY <1>o, <1>4 DEF DropRetry, DropApply, Write, Unrequested, Objects
<1>5. CASE Users
  <2>1. UNCHANGED <<ws, pc>>
    BY <1>5 DEF Users, Edit, Annotate, Delete, UserWrites
  <2>2. "apply" \notin object'.annotations
    <3>1. (\E s \in Specs : Edit(s)) \/ Delete => object'.annotations = object.annotations
      BY <1>o DEF Edit, Delete, UserWrites, Objects
    <3>2. ASSUME NEW a \in UserAnnotations, Annotate(a)
          PROVE  object'.annotations = object.annotations \cup {a}
      BY <1>o, <3>2 DEF Annotate, UserWrites, Objects
    <3> QED
      BY <1>5, <3>1, <3>2 DEF Users, NoRequests, Unrequested
  <2> QED
    BY <2>1, <2>2 DEF Unrequested
<1> QED
  BY <1>1, <1>2, <1>3, <1>4, <1>5, Kinds

\* The next plan is put off for an apply on request.
PutOff == unplanned /\ "apply" \in ws.annotations

\* What has changes was planned; and in this reconcile, from the main.tf and the
\* modules that are still there, unless that was put off.
Planned ==
  /\ object.hasChanges => object.plan # None
  /\ pc = "apply" /\ ws.hasChanges => PutOff \/ object.plan = Target
  /\ pc = "applying" => object.plan # None /\ (PutOff \/ object.plan = Target)

\* Every step keeps what has changes planned.
LEMMA PlannedStep ==
  ASSUME TypeOK, Rendered, Tracked, Planned, [Next]_vars
  PROVE  Planned'
<1>o. object \in Objects
  BY DEF TypeOK
<1>r. RecordPlan => object'.plan = Target' /\ object'.plan # None
  <2> SUFFICES ASSUME RecordPlan
               PROVE  object'.plan = Target' /\ object'.plan # None
    OBVIOUS
  <2>1. Target \in Targets
    BY TargetType DEF RecordPlan, At, WorkerSteps, Rendering
  <2>2. Target' = Target
    BY DEF RecordPlan, Target, localVars, diskVars
  <2> QED
    BY <2>1, <2>2, PlanSteps, NoneAssumption
<1>1. object'.hasChanges => object'.plan # None
  BY <1>r, PlanSteps DEF Planned
<1>2. ASSUME UNCHANGED <<ws, localVars, diskVars>>, ~RecordPlan
      PROVE  (PutOff \/ object.plan = Target) => (PutOff' \/ object'.plan = Target')
  BY <1>2, PlanSteps DEF PutOff, Target, localVars, diskVars
<1>3. pc' = "apply" /\ ws'.hasChanges => PutOff' \/ object'.plan = Target'
  <2>1. CASE PlanDeferred
    BY <2>1 DEF PlanDeferred, PutOff, objectVars
  <2>2. CASE PlanBypassed
    BY <1>o, <2>2 DEF PlanBypassed, Write, Objects
  <2>3. CASE RecordPlan
    BY <1>r, <2>3
  <2>4. CASE pc = "apply" /\ UNCHANGED <<ws, localVars, diskVars>>
    <3>1. ~RecordPlan
      BY <2>4 DEF RecordPlan, At
    <3> QED
      BY <1>2, <2>4, <3>1 DEF Planned
  <2> QED
    BY <2>1, <2>2, <2>3, <2>4, PlanPaths
<1>4. pc' = "applying" => object'.plan # None /\ (PutOff' \/ object'.plan = Target')
  <2>1. CASE ApplyBegins
    <3>1. /\ pc = "apply" /\ ws.hasChanges /\ object'.plan = object.plan /\ Target' = Target
          /\ UNCHANGED unplanned
      BY <1>o, <2>1, PlanSteps DEF ApplyBegins, At, Target, localVars, diskVars, RecordPlan
    <3>2. object.hasChanges
      BY <3>1 DEF Tracked, SamePlan
    <3>3. "apply" \in ws.annotations => "apply" \in ws'.annotations
      BY <1>o, <2>1, <3>1 DEF ApplyBegins, TryWrite, Write, objectVars, Objects, Tracked
    <3> QED
      BY <3>1, <3>2, <3>3 DEF Planned, PutOff
  <2>2. CASE pc = "applying" /\ UNCHANGED <<ws, localVars, diskVars>>
    <3>1. ~RecordPlan
      BY <2>2 DEF RecordPlan, At
    <3> QED
      BY <1>2, <2>2, <3>1, PlanSteps DEF Planned
  <2> QED
    BY <2>1, <2>2, PlanPaths
<1> QED
  BY <1>1, <1>3, <1>4 DEF Planned

\* What the theorems on plans rest on.
PlanInv == SafeInv /\ Tracked /\ Planned

\* It holds in every reachable state.
LEMMA PlansKept ==
  /\ Init => PlanInv
  /\ PlanInv /\ [Next]_vars => PlanInv'
<1>1. Init => Tracked /\ Planned
  BY DEF Init, Created, Tracked, Planned
<1>2. PlanInv /\ [Next]_vars => Tracked' /\ Planned'
  BY TrackedStep, PlannedStep DEF PlanInv, SafeInv
<1> QED
  BY <1>1, <1>2, Safe DEF PlanInv

\* No apply runs without a plan on record, and none that was not asked for does
\* anything but what that plan says: whatever is edited, annotated, released, gone or
\* failed between.  [handlePlan, handleApply]
THEOREM AppliesWhatWasPlanned == Spec => []AppliesThePlan
<1>1. PlanInv => AppliesThePlan
  BY DEF PlanInv, Planned, PutOff, AppliesThePlan
<1> QED
  BY <1>1, PlansKept, PTL DEF Spec

-----------------------------------------------------------------------------
(* How often is applied *)

\* No call, tool run or pod fails.
NothingFails == MaxFaults = 0

\* A request that was served is the worker's to remove; a deleted object's stays.
Once ==
  object.exists /\ "apply" \in object.annotations /\ ~unserved =>
    \/ object.deleting
    \/ /\ pc \in {"applying", "applied", "settle", "dropApply"}
       /\ "apply" \in ws.annotations

\* Every step leaves served requests to the worker.
LEMMA OnceStep ==
  ASSUME NothingFails, TypeOK, Copy, Once, [Next]_vars
  PROVE  Once'
<1>o. object \in Objects /\ (pc # "idle" => ws \in Objects)
  BY DEF TypeOK
<1>f. ~Fail
  BY DEF NothingFails, TypeOK, Fail
<1> USE DEF Once
<1>1. CASE RetryTime \/ RefreshTime
  BY <1>o, <1>1 DEF RetryTime, RefreshTime, Objects, otherVars, requestVars, askedVars
<1>2. CASE Surprise \/ Rest \/ UNCHANGED vars
  BY <1>2 DEF Surprise, Rest, vars, objectVars, otherVars, requestVars, askedVars
<1>3. CASE Users
  <2>1. ASSUME NEW s \in Specs, Edit(s)
        PROVE  Once'
    BY <1>o, <2>1 DEF Edit, UserWrites, Objects, requestVars, askedVars
  <2>2. ASSUME NEW a \in UserAnnotations, Annotate(a)
        PROVE  Once'
    BY <1>o, <2>2 DEF Annotate, UserWrites, Objects
  <2>3. CASE Delete
    BY <1>o, <2>3 DEF Delete, UserWrites, Objects
  <2> QED
    BY <1>3, <2>1, <2>2, <2>3 DEF Users
<1>4. CASE ApplyBegins
  <2>1. object' = ws' /\ pc' = "applying"
    BY <1>4, <1>f DEF ApplyBegins, TryWrite, Write
  <2> QED
    BY <2>1
<1>5. CASE DropApply
  <2>1. UNCHANGED unserved /\ ~ws.deleting /\ pc = "dropApply"
    BY <1>5 DEF DropApply, At, otherVars, requestVars, askedVars
  <2>2. object' = [object EXCEPT !.annotations = @ \ ({"apply"} \cap ws.annotations)]
    BY <1>5 DEF DropApply, Write
  <2> QED
    BY <1>o, <2>1, <2>2 DEF Objects
<1>6. CASE Reconcile /\ ~ApplyBegins /\ ~DropApply /\ ~Users
  <2>1. UNCHANGED unserved
    BY <1>6, RequestsKept DEF requestVars, askedVars
  <2>2. \/ SameAsked(object', object)
        \/ /\ object'.deleting = object.deleting
           /\ "apply" \in object'.annotations => "apply" \in object.annotations
           /\ object'.exists = object.exists
           /\ pc \notin {"applying", "applied", "settle", "dropApply"}
        \/ ~object'.exists
    <3>1. CASE Quiet
      BY <3>1 DEF Quiet
    <3>2. CASE AddFinalizer \/ DropRetry
      BY <1>o, <3>2 DEF AddFinalizer, DropRetry, At, Write, Objects
    <3>3. CASE RemoveFinalizer
      BY <1>o, <3>3 DEF RemoveFinalizer, Objects
    <3> QED
      BY <1>6, <3>1, <3>2, <3>3, Kinds
  <2>3. CASE pc \in {"applying", "applied", "settle", "dropApply"} /\ object.exists
    <3>1. ApplyEnds \/ RecordApply \/ Settle \/ LeaveDeleted
      <4>1. ~(FindGone \/ WaitForRetry \/ WaitForRefresh \/ Begin \/ Backoff \/ Vanished)
        BY <2>3 DEF FindGone, WaitForRetry, WaitForRefresh, Begin, Take, Backoff, At, Vanished
      <4>2. ~HandleManualRetry /\ ~HandleRendering
        BY <2>3 DEF HandleManualRetry, ClearBackoff, DropRetry, ManualRetryFails, At,
           HandleRendering, Render, RenderFails
      <4>3. ~HandleRefreshDependencies
        BY <2>3 DEF HandleRefreshDependencies, SkipInit, InitBegins, InitEnds, InitFails, At,
           DecideDeleting, DecideApply, DecideNothing, DecidePlan, DecideFails
      <4>4. ~HandleDeletionAndFinalizers
        BY <2>3 DEF HandleDeletionAndFinalizers, HasFinalizer, AddFinalizer, AwaitDestroy,
           AwaitDestroyFails, DestroyBegins, DestroySkipped, DestroyEnds, DestroyFails, At,
           RemoveFinalizer, FinalizerUpdateFails
      <4>5. ~HandlePlan
        BY <1>f, <2>3 DEF HandlePlan, PlanDeferred, PlanBypassed, PlanBypassFails, PlanBegins,
           PlanEnds, PlanFails, RecordPlan, RecordFails, At
      <4>6. ~HandleReschedule
        BY <1>6, <1>f, <2>3 DEF HandleReschedule, DropApply, Observe, RescheduleFails, At
      <4> QED
        BY <1>6, <1>f, <2>3, <4>1, <4>2, <4>3, <4>4, <4>5, <4>6
        DEF Reconcile, HandleApply, NoApply, AwaitApply, AwaitApplyFails, NothingToApply,
            ApplyFails, SettleFails, At
    <3>2. CASE ApplyEnds
      BY <2>1, <3>2 DEF ApplyEnds, At, objectVars
    <3>3. CASE RecordApply
      <4>1. ws' = object' /\ pc' = "settle"
        BY <1>f, <3>3 DEF RecordApply, TryWrite, Write
      <4> QED
        BY <4>1
    <3>4. CASE Settle
      BY <3>4 DEF Settle, Write
    <3>5. CASE LeaveDeleted
      BY <3>5 DEF LeaveDeleted, Copy
    <3> QED
      BY <3>1, <3>2, <3>3, <3>4, <3>5
  <2>4. ~object.exists => ~object'.exists
    BY GoneForGood
  <2> QED
    BY <2>1, <2>2, <2>3, <2>4 DEF SameAsked
<1>7. ~Crash
  BY <1>f DEF Crash
<1> QED
  BY <1>1, <1>2, <1>3, <1>4, <1>5, <1>6, <1>7 DEF Next

\* Without autoApply there is one apply for each request, if nothing fails: the
\* annotation that was served is the one that is removed, however requests, edits
\* and deletions come in between.  [handleApply, handleReschedule]
THEOREM AppliesOncePerRequest ==
  ASSUME NothingFails
  PROVE  Spec => OneApplyPerRequest
<1> DEFINE Served ==
      pc = "apply" /\ pc' = "applying" => unserved \/ object.spec.autoApply \/ ~fresh
<1>1. Init => Once
  BY DEF Init, Created, Once
<1>2. SafeInv /\ Once /\ [Next]_vars => Once'
  BY NothingFails, OnceStep DEF SafeInv
<1>3. SafeInv /\ Once /\ [Next]_vars => Served
  <2> SUFFICES ASSUME SafeInv, Once, [Next]_vars, pc = "apply", pc' = "applying", fresh
               PROVE  unserved \/ object.spec.autoApply
    OBVIOUS
  <2>1. ApplyBegins
    BY Paths DEF SafeInv
  <2>2. ws.spec = object.spec /\ ws.annotations = object.annotations /\ ~object.deleting
        /\ object.exists
    BY <2>1 DEF ApplyBegins, At, SafeInv, Copy, SameAsked
  <2> QED
    BY <2>1, <2>2 DEF ApplyBegins, Approved, Once
<1>4. Spec => [][Served]_vars
  <2>1. SafeInv /\ Once /\ [Next]_vars => [Served]_vars
    BY <1>3
  <2> QED
    BY <1>1, <1>2, <2>1, Safe, PTL DEF Spec
<1> QED
  BY <1>4 DEF OneApplyPerRequest

-----------------------------------------------------------------------------
(* What is observed *)

\* A status that is up to date was up to date when the worker read it; so main.tf is
\* then made from the spec that the worker, and the object, have.
Current ==
  /\ object.observed <= object.generation
  /\ pc # "idle" /\ object.observed = object.generation =>
       ws.generation = object.generation /\ ws.spec = object.spec
  /\ pc \in Onwards /\ ws.observed = ws.generation => rendered = ws.spec.config

\* The worker keeps its copy, or takes the object as it is.
LEMMA Reads ==
  ASSUME TypeOK, [Next]_vars
  PROVE  \/ pc' = "idle"
         \/ pc # "idle" /\ UNCHANGED ws
         \/ ws'.generation = object'.generation /\ ws'.spec = object'.spec
<1>1. CASE Quiet
  BY <1>1 DEF Quiet, SameAsked
<1>2. CASE AddFinalizer \/ DropRetry \/ DropApply
  BY <1>2 DEF AddFinalizer, DropRetry, DropApply, Write
<1>3. CASE RemoveFinalizer
  BY <1>3 DEF RemoveFinalizer, Return
<1>4. CASE Users
  BY <1>4 DEF Users, Edit, Annotate, Delete, UserWrites
<1> QED
  BY <1>1, <1>2, <1>3, <1>4, Kinds

\* Generations are numbers.
LEMMA GenerationType ==
  ASSUME TypeOK
  PROVE  object.observed \in Nat /\ object.generation \in Nat
<1>1. object \in Objects
  BY DEF TypeOK
<1> QED
  BY <1>1, BoundsAssumption DEF Objects

\* A generation that is up to date after a step, but was not recorded by it, was so
\* before.
LEMMA StaysCurrent ==
  ASSUME TypeOK, Current, [Next]_vars,
         object'.observed = object.observed, object'.observed = object'.generation
  PROVE  /\ object.observed = object.generation
         /\ object'.generation = object.generation /\ object'.spec = object.spec
<1>1. object.observed \in Nat /\ object.generation \in Nat
  BY GenerationType
<1>2. object.observed <= object.generation
  BY DEF Current
<1> QED
  BY <1>1, <1>2, GenerationsGrow

\* Every step keeps main.tf current.
LEMMA CurrentStep ==
  ASSUME TypeOK, Tracked, Current, [Next]_vars
  PROVE  Current'
<1>o. object \in Objects
  BY DEF TypeOK
<1>n. object.observed \in Nat /\ object.generation \in Nat
  BY GenerationType
<1>t. Tracked'
  BY TrackedStep
<1>d. Observed.observed = object.generation /\ Observed.generation = object.generation
  BY <1>o DEF Observed, Objects
<1>w. "observe" \in Onwards /\ "idle" \notin Onwards /\ "backoff" \notin Onwards
  BY DEF Onwards, WorkerSteps, Rendering
<1>1. object'.observed <= object'.generation
  BY <1>n, <1>d, GenerationsGrow, PlanSteps DEF Current
<1>2. ASSUME pc' # "idle", object'.observed = object'.generation
      PROVE  ws'.generation = object'.generation /\ ws'.spec = object'.spec
  <2>1. CASE object'.observed = object.observed
    BY <1>2, <2>1, StaysCurrent, Reads DEF Current
  <2>2. CASE ws' = object'
    BY <2>2
  <2> QED
    BY <1>2, <2>1, <2>2, PlanSteps
<1>3. ASSUME pc' \in Onwards, ws'.observed = ws'.generation
      PROVE  rendered' = ws'.spec.config
  <2>1. CASE Render
    <3>1. pc # "idle" /\ object.exists /\ rendered' = ws.spec.config /\ ws' = object
      BY <2>1 DEF Render, At, Write
    <3> QED
      BY <1>3, <3>1 DEF Current
  <2>2. CASE pc \in Onwards /\ UNCHANGED rendered
    <3>1. CASE UNCHANGED ws
      BY <1>3, <2>2, <3>1 DEF Current
    <3>2. CASE ws'.generation = object'.generation /\ ws'.spec = object'.spec
      <4>1. object'.observed = object'.generation
        BY <1>3, <1>t, <1>w, <3>2 DEF Tracked, SamePlan
      <4>2. object'.observed = object.observed
        BY <1>3, <1>w, PlanSteps
      <4>3. object.observed = object.generation /\ object'.spec = object.spec
        BY <4>1, <4>2, StaysCurrent
      <4>4. ws.generation = object.generation /\ ws.spec = object.spec /\ pc # "idle"
        BY <1>w, <2>2, <4>3 DEF Current
      <4>5. ws.observed = object.observed
        BY <4>4 DEF Tracked, SamePlan
      <4> QED
        BY <2>2, <3>2, <4>3, <4>4, <4>5 DEF Current
    <3> QED
      BY <1>3, <1>w, <3>1, <3>2, Reads
  <2> QED
    BY <1>3, <2>1, <2>2, PlanPaths
<1> QED
  BY <1>1, <1>2, <1>3 DEF Current

\* The plan that o refers to is one of its spec; the one on record is of main.tf.
Ready(o) == o.plan # None /\ o.plan.config = o.spec.config
Made == object.plan # None /\ object.plan.config = rendered

\* A plan is made, was made or is put off before the generation is recorded.
PlanComes ==
  /\ object.observed = object.generation => unplanned \/ Ready(object)
  /\ pc # "idle" /\ ws.observed = ws.generation => unplanned \/ Ready(ws)
  /\ pc = "finalizer" =>
       ws.deleting \/ ws.newPlan \/ "apply" \in ws.annotations \/ unplanned \/ Made
  /\ pc = "plan" => ws.newPlan \/ "apply" \in ws.annotations \/ unplanned \/ Made
  /\ pc \in Settling => unplanned \/ Made

\* A plan that is recorded is one of main.tf.
LEMMA RecordsRendered ==
  ASSUME TypeOK, Rendered, RecordPlan, [Next]_vars
  PROVE  Made'
<1>1. Target \in Targets
  BY TargetType DEF RecordPlan, At, WorkerSteps, Rendering
<1>2. object'.plan = Target /\ rendered' = rendered
  BY PlanSteps DEF RecordPlan, localVars
<1> QED
  BY <1>1, <1>2, NoneAssumption DEF Made, Target

\* Every step keeps generations unrecorded until then.
LEMMA PlanComesStep ==
  ASSUME TypeOK, Rendered, Copy, Tracked, Current, PlanComes, [Next]_vars
  PROVE  PlanComes'
<1>o. object \in Objects
  BY DEF TypeOK
<1>t. Tracked'
  BY TrackedStep
<1>m. ASSUME ~RecordPlan, UNCHANGED rendered
      PROVE  unplanned \/ Made => unplanned' \/ Made'
  BY <1>m, PlanSteps DEF Made
<1>w. "observe" \in Settling /\ "record" \in Onwards /\ "record" \notin Settling
      /\ "idle" \notin Settling /\ Settling \subseteq Onwards
  BY DEF Onwards, Settling, WorkerSteps, Rendering
<1>1. ASSUME object'.observed = object'.generation
      PROVE  unplanned' \/ Ready(object')
  <2>1. CASE object'.observed = object.observed
    <3>1. /\ object.observed = object.generation
          /\ object'.generation = object.generation /\ object'.spec = object.spec
      BY <1>1, <2>1, StaysCurrent
    <3>2. CASE RecordPlan
      <4>1. pc = "record"
        BY <3>2 DEF RecordPlan, At
      <4>2. ws.generation = object.generation /\ ws.spec = object.spec
            /\ ws.observed = object.observed
        BY <3>1, <4>1 DEF Current, Tracked, SamePlan
      <4>3. rendered = object.spec.config
        BY <1>w, <3>1, <4>1, <4>2 DEF Current
      <4>4. rendered' = rendered
        BY <3>2 DEF RecordPlan, localVars
      <4> QED
        BY <3>1, <3>2, <4>3, <4>4, RecordsRendered DEF Made, Ready
    <3>3. CASE ~RecordPlan
      BY <3>1, <3>3, PlanSteps DEF PlanComes, Ready
    <3> QED
      BY <3>2, <3>3
  <2>2. CASE pc = "observe" /\ object' = Observed /\ NotesUnplanned
    <3>1. object'.plan = object.plan /\ object'.spec = object.spec
      BY <1>o, <2>2 DEF Observed, Objects
    <3> QED
      BY <1>w, <2>2, <3>1 DEF PlanComes, NotesUnplanned, Made, Ready
  <2> QED
    BY <2>1, <2>2, PlanSteps
<1>2. ASSUME pc' # "idle", ws'.observed = ws'.generation
      PROVE  unplanned' \/ Ready(ws')
  <2>1. CASE ws'.generation = object'.generation /\ ws'.spec = object'.spec
    <3>1. ws'.observed = object'.observed /\ ws'.plan = object'.plan
      BY <1>2, <1>t DEF Tracked, SamePlan
    <3> QED
      BY <1>1, <1>2, <2>1, <3>1 DEF Ready
  <2>2. CASE pc # "idle" /\ UNCHANGED ws /\ ~RecordPlan
    BY <1>2, <2>2, PlanSteps DEF PlanComes, Ready
  <2>3. RecordPlan => ws' = object'
    BY PlanSteps
  <2> QED
    BY <1>2, <2>1, <2>2, <2>3, Reads
<1>3. pc' = "finalizer" =>
        ws'.deleting \/ ws'.newPlan \/ "apply" \in ws'.annotations \/ unplanned' \/ Made'
  <2>1. CASE DecideDeleting
    <3>1. ws.deleting /\ object.deleting
      BY <2>1 DEF DecideDeleting, At, Copy
    <3>2. ws'.deleting
      BY <1>o, <2>1, <3>1 DEF DecideDeleting, TryWrite, Write, objectVars, Objects
    <3> QED
      BY <3>2
  <2>2. CASE DecideApply
    <3>1. "apply" \in object.annotations
      BY <2>2 DEF DecideApply, At, ApplyOfPlanRequested, Tracked
    <3> QED
      BY <1>o, <2>2, <3>1 DEF DecideApply, Write, Objects
  <2>3. CASE DecideNothing
    <3>1. /\ pc = "decide" /\ ws.observed = ws.generation /\ UNCHANGED <<object, rendered>>
          /\ UNCHANGED unplanned
      BY <2>3 DEF DecideNothing, At, NothingChanged, objectVars, localVars, otherVars, requestVars
    <3>2. pc \in Onwards
      BY <3>1 DEF Onwards, WorkerSteps, Rendering
    <3>3. rendered = ws.spec.config /\ ws.plan = object.plan /\ (unplanned \/ Ready(ws))
      BY <3>1, <3>2 DEF Current, Tracked, SamePlan, PlanComes
    <3> QED
      BY <3>1, <3>3 DEF Made, Ready
  <2>4. CASE DecidePlan
    BY <1>o, <2>4 DEF DecidePlan, Write, Objects
  <2>5. CASE pc = "finalizer" /\ UNCHANGED <<ws, localVars, diskVars>>
    <3>1. ~RecordPlan /\ UNCHANGED rendered
      BY <2>5 DEF RecordPlan, At, localVars
    <3> QED
      BY <1>m, <2>5, <3>1 DEF PlanComes
  <2> QED
    BY <2>1, <2>2, <2>3, <2>4, <2>5, PlanPaths
<1>4. pc' = "plan" => ws'.newPlan \/ "apply" \in ws'.annotations \/ unplanned' \/ Made'
  <2>1. CASE HasFinalizer \/ AddFinalizer
    <3>1. pc = "finalizer" /\ ~ws.deleting /\ UNCHANGED rendered /\ ~RecordPlan
      BY <2>1 DEF HasFinalizer, AddFinalizer, At, localVars, RecordPlan
    <3>2. /\ ws.newPlan => ws'.newPlan
          /\ "apply" \in ws.annotations => "apply" \in ws'.annotations
      <4>1. CASE HasFinalizer
        BY <4>1 DEF HasFinalizer, objectVars
      <4>2. CASE AddFinalizer
        <5>1. ws.newPlan = object.newPlan
              /\ ("apply" \in ws.annotations => "apply" \in object.annotations)
          BY <3>1 DEF Tracked, SamePlan
        <5> QED
          BY <1>o, <4>2, <5>1 DEF AddFinalizer, Write, Objects
      <4> QED
        BY <2>1, <4>1, <4>2
    <3> QED
      BY <1>m, <3>1, <3>2 DEF PlanComes
  <2>2. CASE pc = "plan" /\ UNCHANGED <<ws, localVars, diskVars>>
    <3>1. ~RecordPlan /\ UNCHANGED rendered
      BY <2>2 DEF RecordPlan, At, localVars
    <3> QED
      BY <1>m, <2>2, <3>1 DEF PlanComes
  <2> QED
    BY <2>1, <2>2, PlanPaths
<1>5. pc' \in Settling => unplanned' \/ Made'
  <2>1. CASE PlanDeferred
    BY <2>1 DEF PlanDeferred
  <2>2. CASE PlanBypassed
    <3>1. /\ pc = "plan" /\ ~ws.newPlan /\ "apply" \notin ws.annotations
          /\ UNCHANGED rendered /\ ~RecordPlan
      BY <2>2 DEF PlanBypassed, At, localVars, RecordPlan
    <3> QED
      BY <1>m, <3>1 DEF PlanComes
  <2>3. CASE RecordPlan
    BY <2>3, RecordsRendered
  <2>4. CASE pc \in Settling /\ pc' \in Settling
    <3>1. UNCHANGED rendered
      <4>1. ~Render
        BY <2>4 DEF Render, At, Settling
      <4> QED
        BY <1>w, <2>4, <4>1, PlanPaths
    <3>2. ~RecordPlan
      BY <1>w, <2>4 DEF RecordPlan, At
    <3> QED
      BY <1>m, <2>4, <3>1, <3>2 DEF PlanComes
  <2> QED
    BY <2>1, <2>2, <2>3, <2>4, PlanPaths
<1> QED
  BY <1>1, <1>2, <1>3, <1>4, <1>5 DEF PlanComes

\* A generation that the status calls observed was planned, or is one that was not
\* rendered or was put off: whatever is edited meanwhile, no failure, at whatever
\* step, no retry and no skipped init makes the controller rest on a spec it has not
\* planned.  [handleReschedule, decidePlanAfterInit]
THEOREM ObservesWhatItPlanned == Spec => []ObservedIsPlanned
<1>1. Init => Current /\ PlanComes
  BY DEF Init, Created, Current, PlanComes, Onwards, Settling, Rendering
<1>2. PlanInv /\ Current /\ PlanComes /\ [Next]_vars => Current' /\ PlanComes'
  BY CurrentStep, PlanComesStep DEF PlanInv, SafeInv
<1>3. PlanComes => ObservedIsPlanned
  BY DEF PlanComes, ObservedIsPlanned, Ready
<1> QED
  BY <1>1, <1>2, <1>3, PlansKept, PTL DEF Spec

===============================================================================
