------------------------- MODULE WorkspaceReconcile -------------------------
(***************************************************************************)
(* WorkspaceReconciler.Reconcile of internal/controller/workspace.go: how  *)
(* one Workspace is rendered, initialised, planned, applied and destroyed  *)
(* while users edit, annotate and delete it.                               *)
(*                                                                         *)
(* The lease of WorkspaceLease is taken as exclusive: one worker at a time *)
(* reconciles the workspace.  Each call on the API server and each run of  *)
(* the IaC tool ends in a step of its own, so users, the clock and crashes *)
(* come in between.  The worker decides on ws, the copy of the object that *)
(* its last call returned; what it computes between two calls belongs to   *)
(* the step of the earlier one.  A helper that gets and patches the object *)
(* under RetryOnConflict is one step: the patch holds only the fields the  *)
(* worker sets, and has no resourceVersion to conflict on.                 *)
(* The init is one step with the validation and the two writes that record *)
(* its result; InitSkip takes them apart.                                  *)
(***************************************************************************)
EXTENDS Naturals

CONSTANTS
  Specs,        \* spec values users choose from
  None,         \* nothing there
  Partial,      \* infrastructure that corresponds to no configuration
  UserAnnotations, \* annotations users set
  Interrupts,   \* TRUE: users also act while a reconcile runs
  Pinned,       \* TRUE: the module and its nested modules are pinned
  Surprises,    \* what happens outside: "release" of a dependency, "drift" of the
                \* infrastructure, "outage" for good of where modules come from
  MaxGeneration, MaxRequests, MaxSurprises, MaxFaults    \* bounds

Annotations == {"apply", "retry", "destroy"}
Policies == {"auto", "manual", "skip"}   \* spec.destroy; "" is auto or skip

ASSUME SpecsAssumption ==
  \A s \in Specs : s.autoApply \in BOOLEAN /\ s.destroy \in Policies
ASSUME EnvironmentAssumption ==
  /\ UserAnnotations \subseteq Annotations
  /\ Interrupts \in BOOLEAN /\ Pinned \in BOOLEAN
  /\ Surprises \subseteq {"release", "drift", "outage"}
ASSUME BoundsAssumption ==
  /\ MaxGeneration \in Nat \ {0} /\ MaxRequests \in Nat
  /\ MaxSurprises \in Nat /\ MaxFaults \in Nat

VARIABLES
  object,     \* the Workspace object on the API server
  queued,     \* the controller's work queue holds the workspace
  timers,     \* the reasons for which a later reconcile is scheduled
  pc,         \* where the worker is
  ws,         \* its copy of the object
  fresh,      \* whether the resourceVersion of ws is still the current one
  force,      \* forceInit: a manual retry was requested
  rendered,   \* the configuration in main.tf
  sum,        \* what decidePlanAfterInit is given: a checksum, 0 if init was skipped
  changed,    \* whether the plan just made has changes
  modules,    \* version of the dependencies installed in .terraform
  marker,     \* init marker: generation and configuration of the last full init
  infra,      \* what the infrastructure was made from
  upstream,   \* version of the dependencies init would fetch, 0 if it cannot
  surprises, requests, faults,  \* how many so far
  unserved,   \* observation: an apply was requested and none has run since
  unplanned   \* observation: the plan on record is an old one, as an apply on request
              \* put the next one off, or as a spec was observed that was not rendered

objectVars == <<object, ws, fresh>>
queueVars == <<queued, timers>>
localVars == <<force, rendered, sum, changed>>
diskVars == <<modules, marker>>
worldVars == <<infra, upstream, surprises>>
askedVars == <<requests, unserved>>
requestVars == <<askedVars, unplanned>>
otherVars == <<diskVars, worldVars, requestVars>>
vars == <<objectVars, queueVars, pc, localVars, otherVars, faults>>

-----------------------------------------------------------------------------
(* The object and the worker's dealings with it *)

\* What a plan or an apply is made from: a configuration, and dependencies.
Configs == {s.config : s \in Specs}
Targets == [config : Configs, modules : 1 .. (1 + MaxSurprises)]

Objects ==
  [exists : BOOLEAN, generation : 1 .. (MaxGeneration + 1), spec : Specs,
   deleting : BOOLEAN, finalizer : BOOLEAN, annotations : SUBSET Annotations,
   observed : 0 .. (MaxGeneration + 1),
   due : BOOLEAN,          \* NextRefreshTimestamp is past
   blocked : BOOLEAN,      \* Backoff.NextRetryTime is to come
   retrying : BOOLEAN,     \* Backoff.RetryCount > 0
   completed : BOOLEAN,    \* TerraformPhase = Completed
   valid : BOOLEAN,        \* ValidRender
   hash : 0 .. (1 + MaxSurprises),   \* CurrentContentHash; 0 is ""
   newPlan : BOOLEAN, newApply : BOOLEAN, hasChanges : BOOLEAN,
   plan : Targets \cup {None}]       \* CurrentPlan, and what it was made from

ASSUME NoneAssumption ==
  None \notin Objects \cup Targets \cup Configs \cup {Partial}

Created(s) ==
  [exists |-> TRUE, generation |-> 1, spec |-> s, deleting |-> FALSE,
   finalizer |-> FALSE, annotations |-> {}, observed |-> 0, due |-> TRUE,
   blocked |-> FALSE, retrying |-> FALSE, completed |-> FALSE, valid |-> FALSE,
   hash |-> 0, newPlan |-> FALSE, newApply |-> FALSE, hasChanges |-> FALSE,
   plan |-> None]

WorkerSteps ==
  {"idle", "clearBackoff", "dropRetry", "render", "init", "initializing", "decide",
   "finalizer", "destroying", "cleanup", "plan", "planning", "record", "apply",
   "applying", "applied", "settle", "dropApply", "observe", "backoff"}

Init ==
  /\ object \in {Created(s) : s \in Specs}
  /\ queued = TRUE /\ timers = {}
  /\ pc = "idle" /\ ws = None /\ fresh = FALSE
  /\ force = FALSE /\ rendered = None /\ sum = 0 /\ changed = FALSE
  /\ modules = 1 /\ marker = None
  /\ infra = None /\ upstream = 1
  /\ surprises = 0 /\ requests = 0 /\ faults = 0
  /\ unserved = FALSE /\ unplanned = FALSE

Fail == faults < MaxFaults /\ faults' = faults + 1

\* A call by the worker that leaves o on the server, and returns it.
Write(o) == object' = o /\ ws' = o /\ fresh' = TRUE

\* The same, when the handler drops the error: of the Get, or of the Patch after
\* ws was changed.
TryWrite(o) ==
  \/ Write(o) /\ UNCHANGED faults
  \/ Fail /\ UNCHANGED objectVars
  \/ Fail /\ UNCHANGED object /\ ws' = o /\ fresh' = TRUE

\* Reconcile returns: q puts the workspace back into the queue, t sets timers.
Return(q, t) ==
  /\ pc' = "idle" /\ ws' = None /\ fresh' = FALSE
  /\ force' = FALSE /\ rendered' = None /\ sum' = 0 /\ changed' = FALSE
  /\ queued' = (queued \/ q) /\ timers' = timers \cup t

\* The worker is at step s, and the object is there to be read and patched.
At(s) == pc = s /\ object.exists

\* An error that the handler records as the Errored phase of the object, which is o
\* by then; what fails of that is dropped.  And an error that it does not record.
ErroredAs(o) ==
  /\ Write([o EXCEPT !.completed = FALSE]) \/ Write(o)
  /\ pc' = "backoff"
Errored == ErroredAs(object)
Aborted == UNCHANGED objectVars /\ pc' = "backoff"

-----------------------------------------------------------------------------
(* Reconcile: Get, and the gates before any work *)

Take == queued /\ pc = "idle" /\ queued' = FALSE

Blocked == object.blocked /\ "retry" \notin object.annotations
UpToDate ==
  /\ object.observed = object.generation /\ ~object.due
  /\ {"retry", "apply"} \cap object.annotations = {}

FindGone ==
  /\ Take /\ ~object.exists
  /\ UNCHANGED <<objectVars, timers, pc, localVars, otherVars, faults>>

WaitForRetry ==
  /\ Take /\ object.exists /\ Blocked
  /\ timers' = timers \cup {"retry"}
  /\ UNCHANGED <<objectVars, pc, localVars, otherVars, faults>>

WaitForRefresh ==
  /\ Take /\ object.exists /\ ~Blocked /\ UpToDate
  /\ timers' = timers \cup {"refresh"}
  /\ UNCHANGED <<objectVars, pc, localVars, otherVars, faults>>

\* Faulty variant: the object the reconcile works on was not read.
BeginUnread ==
  /\ Take /\ object.exists /\ ~Blocked /\ ~UpToDate
  /\ force' = ("retry" \in object.annotations)
  /\ pc' = IF force' THEN "clearBackoff" ELSE "render"
  /\ UNCHANGED <<objectVars, timers, rendered, sum, changed, otherVars, faults>>

Begin ==
  /\ Take /\ object.exists /\ ~Blocked /\ ~UpToDate
  /\ Write(object)
  /\ force' = ("retry" \in object.annotations)
  /\ pc' = IF force' THEN "clearBackoff" ELSE "render"
  /\ UNCHANGED <<timers, rendered, sum, changed, otherVars, faults>>

\* handleManualRetry: the status first, then the annotation.
ClearBackoff ==
  /\ At("clearBackoff")
  /\ Write([object EXCEPT !.blocked = FALSE, !.retrying = FALSE, !.due = TRUE])
  /\ pc' = "dropRetry"
  /\ UNCHANGED <<queueVars, localVars, otherVars, faults>>

\* The annotation's removal is an event like any other change of annotations.
DropRetry ==
  /\ At("dropRetry")
  /\ Write([object EXCEPT !.annotations = @ \ ({"retry"} \cap ws.annotations)])
  /\ queued' = (queued \/ object'.annotations # object.annotations)
  /\ pc' = "render"
  /\ UNCHANGED <<timers, localVars, otherVars, faults>>

\* Its errors return without a backoff of the workspace.
ManualRetryFails ==
  /\ pc \in {"clearBackoff", "dropRetry"}
  /\ Fail
  /\ Return(TRUE, {})
  /\ UNCHANGED <<object, otherVars>>

-----------------------------------------------------------------------------
(* setupTerraformForWorkspace and handleRendering *)

\* main.tf is written from ws; then CurrentRender is patched into the status.
Render ==
  /\ At("render")
  /\ rendered' = ws.spec.config
  /\ Write(object)
  /\ pc' = "init"
  /\ UNCHANGED <<queueVars, force, sum, changed, otherVars, faults>>

RenderFails ==
  /\ At("render")
  /\ Fail
  /\ Errored
  /\ UNCHANGED <<queueVars, localVars, otherVars>>

-----------------------------------------------------------------------------
(* handleRefreshDependencies *)

\* What WriteInitMarker writes: the fingerprint covers main.tf as it was rendered,
\* the generation is that of the object as it is now.
Marker == [generation |-> object.generation, config |-> rendered]

\* initSkipDecision, against the marker.
InitSkippable ==
  /\ ~force /\ ~ws.deleting
  /\ ws.observed = ws.generation
  /\ ws.completed /\ ~ws.retrying /\ ws.valid
  /\ Pinned
  /\ marker = [generation |-> ws.generation, config |-> rendered]

SkipInit ==
  /\ At("init")
  /\ InitSkippable
  /\ TryWrite([object EXCEPT !.completed = FALSE])
  /\ sum' = 0
  /\ pc' = "decide"
  /\ UNCHANGED <<queueVars, force, rendered, changed, otherVars>>

\* A full init, also once the last one is older than ForceInitInterval.
InitBegins ==
  /\ At("init")
  /\ TryWrite([object EXCEPT !.completed = FALSE])
  /\ marker' = None
  /\ pc' = "initializing"
  /\ UNCHANGED <<queueVars, localVars, modules, worldVars, requestVars>>

\* init -upgrade and validate succeed; ValidRender and the marker are written.
\* What fails of the marker (recordSuccessfulInit) is only logged.
InitEnds ==
  /\ At("initializing")
  /\ upstream # 0
  /\ Write([object EXCEPT !.valid = TRUE])
  /\ modules' = upstream
  /\ \/ marker' = Marker /\ UNCHANGED faults
     \/ Fail /\ UNCHANGED marker
  /\ sum' = upstream
  /\ pc' = "decide"
  /\ UNCHANGED <<queueVars, force, rendered, changed, worldVars, requestVars>>

\* The tool fails; or the update of the status does, the configuration is found
\* invalid, or .terraform cannot be summed up: all after init has upgraded.
InitFails ==
  /\ At("initializing")
  /\ \/ /\ Fail \/ (upstream = 0 /\ UNCHANGED faults)
        /\ Errored
        /\ UNCHANGED diskVars
     \/ /\ Fail /\ upstream # 0 /\ modules' = upstream
        /\ \/ Errored /\ UNCHANGED marker
           \/ ErroredAs([object EXCEPT !.valid = FALSE]) /\ UNCHANGED marker
           \/ ErroredAs([object EXCEPT !.valid = TRUE]) /\ marker' = Marker
  /\ UNCHANGED <<queueVars, localVars, worldVars, requestVars>>

\* decidePlanAfterInit
DecideDeleting ==
  /\ At("decide") /\ ws.deleting
  /\ TryWrite([object EXCEPT !.completed = TRUE])
  /\ pc' = "finalizer"
  /\ UNCHANGED <<queueVars, localVars, otherVars>>

ApplyOfPlanRequested == "apply" \in ws.annotations /\ ws.plan # None

DecideApply ==
  /\ At("decide") /\ ~ws.deleting /\ ApplyOfPlanRequested
  /\ Write([object EXCEPT !.newApply = TRUE])
  /\ pc' = "finalizer"
  /\ UNCHANGED <<queueVars, localVars, otherVars, faults>>

\* Faulty variant: the generation is not compared.
SameModules ==
  /\ sum # 0 /\ ws.hash = sum
  /\ ws.plan # None

NothingChanged ==
  /\ ws.observed = ws.generation
  /\ sum # 0 /\ ws.hash = sum
  /\ ws.plan # None

DecideNothing ==
  /\ At("decide") /\ ~ws.deleting /\ ~ApplyOfPlanRequested /\ NothingChanged
  /\ pc' = "finalizer"
  /\ UNCHANGED <<objectVars, queueVars, localVars, otherVars, faults>>

DecidePlan ==
  /\ At("decide") /\ ~ws.deleting /\ ~ApplyOfPlanRequested /\ ~NothingChanged
  /\ Write([object EXCEPT !.newPlan = TRUE, !.hash = IF sum = 0 THEN @ ELSE sum])
  /\ pc' = "finalizer"
  /\ UNCHANGED <<queueVars, localVars, otherVars, faults>>

DecideFails ==
  /\ At("decide") /\ ~ws.deleting /\ ~(~ApplyOfPlanRequested /\ NothingChanged)
  /\ Fail
  /\ Errored
  /\ UNCHANGED <<queueVars, localVars, otherVars>>

-----------------------------------------------------------------------------
(* handleDeletionAndFinalizers *)

\* Faulty variant: whoever has the finalizer goes on to plan.
HasFinalizerAnyway ==
  /\ At("finalizer") /\ ws.finalizer
  /\ pc' = "plan"
  /\ UNCHANGED <<objectVars, queueVars, localVars, otherVars, faults>>

HasFinalizer ==
  /\ At("finalizer") /\ ~ws.deleting /\ ws.finalizer
  /\ pc' = "plan"
  /\ UNCHANGED <<objectVars, queueVars, localVars, otherVars, faults>>

\* Update of the whole object, under its resourceVersion.
AddFinalizer ==
  /\ At("finalizer") /\ ~ws.deleting /\ ~ws.finalizer
  /\ fresh
  /\ Write([object EXCEPT !.finalizer = TRUE])
  /\ pc' = "plan"
  /\ UNCHANGED <<queueVars, localVars, otherVars, faults>>

\* destroy: manual, and no annotation: nothing but the status.
AwaitDestroy ==
  /\ At("finalizer") /\ ws.deleting
  /\ ws.spec.destroy = "manual" /\ "destroy" \notin ws.annotations
  /\ object' = [object EXCEPT !.completed = TRUE, !.newApply = FALSE, !.retrying = FALSE]
  /\ Return(FALSE, IF object.due THEN {} ELSE {"refresh"})
  /\ UNCHANGED <<otherVars, faults>>

MayDestroy ==
  \/ ws.spec.destroy = "auto"
  \/ ws.spec.destroy = "manual" /\ "destroy" \in ws.annotations

AwaitDestroyFails ==
  /\ At("finalizer") /\ ws.deleting
  /\ ws.spec.destroy = "manual" /\ "destroy" \notin ws.annotations
  /\ Fail
  /\ Aborted
  /\ UNCHANGED <<queueVars, localVars, otherVars>>

\* Faulty variant: only the policy "skip" keeps the tool from destroying.
DestroyUnlessSkipped ==
  /\ At("finalizer") /\ ws.deleting
  /\ ws.spec.destroy # "skip"
  /\ pc' = "destroying"
  /\ UNCHANGED <<objectVars, queueVars, localVars, otherVars, faults>>

DestroyBegins ==
  /\ At("finalizer") /\ ws.deleting
  /\ MayDestroy
  /\ pc' = "destroying"
  /\ UNCHANGED <<objectVars, queueVars, localVars, otherVars, faults>>

DestroySkipped ==
  /\ At("finalizer") /\ ws.deleting
  /\ ws.spec.destroy = "skip"
  /\ pc' = "cleanup"
  /\ UNCHANGED <<objectVars, queueVars, localVars, otherVars, faults>>

DestroyEnds ==
  /\ At("destroying")
  /\ infra' = None
  /\ pc' = "cleanup"
  /\ UNCHANGED <<objectVars, queueVars, localVars, diskVars, upstream, surprises,
                 requestVars, faults>>

\* What the tool had done when it failed, or was killed.
Unfinished(target) == {infra, Partial, target}

DestroyFails ==
  /\ At("destroying")
  /\ Fail
  /\ infra' \in IF infra = None THEN {None} ELSE {infra, Partial}
  /\ Aborted
  /\ UNCHANGED <<queueVars, localVars, diskVars, upstream, surprises, requestVars>>

\* Faulty variant: a patch, which asks for no resourceVersion.
PatchFinalizerAway ==
  /\ At("cleanup")
  /\ object' = [object EXCEPT !.finalizer = FALSE, !.exists = FALSE]
  /\ Return(FALSE, IF object.due THEN {} ELSE {"refresh"})
  /\ marker' = None
  /\ UNCHANGED <<modules, worldVars, requestVars, faults>>

\* The workspace's directory is removed; then the finalizer, and so the object.
RemoveFinalizer ==
  /\ At("cleanup")
  /\ fresh
  /\ object' = [object EXCEPT !.finalizer = FALSE, !.exists = FALSE]
  /\ Return(FALSE, IF object.due THEN {} ELSE {"refresh"})
  /\ marker' = None
  /\ UNCHANGED <<modules, worldVars, requestVars, faults>>

\* A conflict with a change made since ws was read, or a failed call.
FinalizerUpdateFails ==
  /\ At("cleanup") \/ (At("finalizer") /\ ~ws.deleting /\ ~ws.finalizer)
  /\ (~fresh /\ UNCHANGED faults) \/ Fail
  /\ Aborted
  /\ marker' = IF pc = "cleanup" THEN None ELSE marker
  /\ UNCHANGED <<queueVars, localVars, modules, worldVars, requestVars>>

-----------------------------------------------------------------------------
(* handlePlan *)

Target == [config |-> rendered, modules |-> modules]

\* "manual apply requested, proceeding with existing plan"
PlanDeferred ==
  /\ At("plan") /\ "apply" \in ws.annotations
  /\ unplanned' = TRUE
  /\ pc' = "apply"
  /\ UNCHANGED <<objectVars, queueVars, localVars, diskVars, worldVars, askedVars, faults>>

\* Faulty variant: the phase is left as it was.
BypassKeepsPhase ==
  /\ At("plan") /\ "apply" \notin ws.annotations /\ ~ws.newPlan
  /\ Write([object EXCEPT !.hasChanges = FALSE, !.retrying = FALSE])
  /\ pc' = "apply"
  /\ UNCHANGED <<queueVars, localVars, otherVars, faults>>

PlanBypassed ==
  /\ At("plan") /\ "apply" \notin ws.annotations /\ ~ws.newPlan
  /\ Write([object EXCEPT !.hasChanges = FALSE, !.completed = TRUE, !.retrying = FALSE])
  /\ pc' = "apply"
  /\ UNCHANGED <<queueVars, localVars, otherVars, faults>>

PlanBypassFails ==
  /\ At("plan") /\ "apply" \notin ws.annotations /\ ~ws.newPlan
  /\ Fail
  /\ Aborted
  /\ UNCHANGED <<queueVars, localVars, otherVars>>

PlanBegins ==
  /\ At("plan") /\ "apply" \notin ws.annotations /\ ws.newPlan
  /\ TryWrite([object EXCEPT !.completed = FALSE])
  /\ pc' = "planning"
  /\ UNCHANGED <<queueVars, localVars, otherVars>>

PlanEnds ==
  /\ At("planning")
  /\ changed' = (infra # Target)
  /\ IF changed'
     THEN UNCHANGED objectVars
     ELSE Write([object EXCEPT !.hasChanges = FALSE, !.completed = TRUE,
                               !.retrying = FALSE])
  /\ pc' = "record"
  /\ UNCHANGED <<queueVars, force, rendered, sum, otherVars, faults>>

\* The tool fails, or (no changes, and the update of the status fails).
PlanFails ==
  /\ At("planning")
  /\ Fail
  /\ Errored \/ (infra = Target /\ Aborted)
  /\ UNCHANGED <<queueVars, localVars, otherVars>>

\* Faulty variant: the reference is set once only.
RecordFirstPlan ==
  /\ At("record")
  /\ Write([object EXCEPT !.hasChanges = changed, !.newPlan = FALSE,
                          !.newApply = TRUE, !.completed = TRUE,
                          !.plan = IF @ = None THEN Target ELSE @])
  /\ unplanned' = FALSE
  /\ pc' = "apply"
  /\ UNCHANGED <<queueVars, localVars, diskVars, worldVars, askedVars, faults>>

\* createPlanRecord, and the reference to the record it made.
RecordPlan ==
  /\ At("record")
  /\ Write([object EXCEPT !.hasChanges = changed, !.newPlan = FALSE,
                          !.newApply = TRUE, !.completed = TRUE, !.plan = Target])
  /\ unplanned' = FALSE
  /\ pc' = "apply"
  /\ UNCHANGED <<queueVars, localVars, diskVars, worldVars, askedVars, faults>>

RecordFails ==
  /\ pc \in {"record", "applied"} /\ object.exists
  /\ Fail
  /\ Aborted
  /\ UNCHANGED <<queueVars, localVars, otherVars>>

-----------------------------------------------------------------------------
(* handleApply *)

\* handleApply and handleReschedule leave alone what is being deleted.
LeaveDeleted ==
  /\ pc \in {"apply", "dropApply"} /\ object.exists /\ ws.deleting
  /\ UNCHANGED object
  /\ Return(FALSE, IF object.due THEN {} ELSE {"refresh"})
  /\ UNCHANGED <<otherVars, faults>>

ApplyNeeded == ws.newApply \/ "apply" \in ws.annotations

Approved == ws.spec.autoApply \/ "apply" \in ws.annotations

NoApply ==
  /\ At("apply") /\ ~ws.deleting /\ ~ApplyNeeded
  /\ pc' = "dropApply"
  /\ UNCHANGED <<objectVars, queueVars, localVars, otherVars, faults>>

\* "Apply skipped, no Auto-apply enabled"
AwaitApply ==
  /\ At("apply") /\ ~ws.deleting /\ ApplyNeeded /\ ~Approved
  /\ Write([object EXCEPT !.newApply = FALSE, !.completed = TRUE, !.retrying = FALSE])
  /\ pc' = "dropApply"
  /\ UNCHANGED <<queueVars, localVars, otherVars, faults>>

AwaitApplyFails ==
  /\ At("apply") /\ ~ws.deleting /\ ApplyNeeded /\ ~Approved
  /\ Fail
  /\ Aborted
  /\ UNCHANGED <<queueVars, localVars, otherVars>>

NothingToApply ==
  /\ At("apply") /\ ~ws.deleting /\ ApplyNeeded /\ Approved /\ ~ws.hasChanges
  /\ pc' = "settle"
  /\ UNCHANGED <<objectVars, queueVars, localVars, otherVars, faults>>

ApplyBegins ==
  /\ At("apply") /\ ~ws.deleting /\ ApplyNeeded /\ Approved /\ ws.hasChanges
  /\ TryWrite([object EXCEPT !.completed = FALSE])
  /\ unserved' = FALSE
  /\ pc' = "applying"
  /\ UNCHANGED <<queueVars, localVars, diskVars, worldVars, requests, unplanned>>

\* tool.Apply works from main.tf, not from the plan's file.
ApplyEnds ==
  /\ At("applying")
  /\ infra' = Target
  /\ pc' = "applied"
  /\ UNCHANGED <<objectVars, queueVars, localVars, diskVars, upstream, surprises,
                 requestVars, faults>>

ApplyFails ==
  /\ At("applying")
  /\ Fail
  /\ infra' \in Unfinished(Target)
  /\ Errored
  /\ UNCHANGED <<queueVars, localVars, diskVars, upstream, surprises, requestVars>>

RecordApply ==
  /\ At("applied")
  /\ TryWrite([object EXCEPT !.completed = TRUE, !.retrying = FALSE])
  /\ pc' = "settle"
  /\ UNCHANGED <<queueVars, localVars, otherVars>>

Settle ==
  /\ At("settle")
  /\ Write([object EXCEPT !.newApply = FALSE])
  /\ pc' = "dropApply"
  /\ UNCHANGED <<queueVars, localVars, otherVars, faults>>

SettleFails ==
  /\ At("settle")
  /\ Fail
  /\ Aborted
  /\ UNCHANGED <<queueVars, localVars, otherVars>>

-----------------------------------------------------------------------------
(* handleReschedule, backoff *)

\* Faulty variant: the annotation stays.
KeepApply ==
  /\ At("dropApply") /\ ~ws.deleting
  /\ Write(object)
  /\ pc' = "observe"
  /\ UNCHANGED <<queueVars, localVars, otherVars, faults>>

DropApply ==
  /\ At("dropApply") /\ ~ws.deleting
  /\ Write([object EXCEPT !.annotations = @ \ ({"apply"} \cap ws.annotations)])
  /\ queued' = (queued \/ object'.annotations # object.annotations)
  /\ pc' = "observe"
  /\ UNCHANGED <<timers, localVars, otherVars, faults>>

\* The generation of the object as it is now, whichever was rendered; old plans
\* are then cleaned up.
Observed == [object EXCEPT !.observed = object.generation, !.due = FALSE]
NotesUnplanned == unplanned' = (unplanned \/ object.spec.config # rendered)

Observe ==
  /\ At("observe")
  /\ object' = Observed /\ NotesUnplanned
  /\ Return(FALSE, {"refresh"})
  /\ UNCHANGED <<diskVars, worldVars, askedVars, faults>>

RescheduleFails ==
  /\ object.exists
  /\ Fail
  /\ \/ /\ pc = "observe" \/ (pc = "dropApply" /\ ~ws.deleting)
        /\ Aborted /\ UNCHANGED unplanned
     \/ pc = "observe" /\ Write(Observed) /\ NotesUnplanned /\ pc' = "backoff"
  /\ UNCHANGED <<queueVars, localVars, diskVars, worldVars, askedVars>>

\* Faulty variant: the error is not returned to the controller.
BackoffForgets ==
  /\ At("backoff")
  /\ object' = [object EXCEPT !.blocked = TRUE, !.retrying = TRUE]
  /\ Return(FALSE, {})
  /\ UNCHANGED <<otherVars, faults>>

\* backoff patches the status; the error brings the workspace back.
Backoff ==
  /\ At("backoff")
  /\ \/ object' = [object EXCEPT !.blocked = TRUE, !.retrying = TRUE] /\ UNCHANGED faults
     \/ Fail /\ UNCHANGED object
  /\ Return(TRUE, {})
  /\ UNCHANGED otherVars

\* The object went away before it had the finalizer: every call fails from now on.
Vanished ==
  /\ pc # "idle" /\ ~object.exists
  /\ Return(TRUE, {})
  /\ UNCHANGED <<object, otherVars, faults>>

-----------------------------------------------------------------------------
(* Users, time, the outside, and the process *)

UserActs == object.exists /\ (Interrupts \/ pc = "idle")

\* Events of the object's changes reach the work queue.
UserWrites(o) ==
  /\ object' = o /\ fresh' = FALSE
  /\ queued' = TRUE
  /\ UNCHANGED <<ws, timers, pc, localVars, diskVars, worldVars, faults>>

Edit(s) ==
  /\ UserActs /\ s # object.spec /\ object.generation < MaxGeneration
  /\ UserWrites([object EXCEPT !.spec = s, !.generation = @ + 1])
  /\ UNCHANGED requestVars

Annotate(a) ==
  /\ UserActs /\ a \notin object.annotations /\ requests < MaxRequests
  /\ UserWrites([object EXCEPT !.annotations = @ \cup {a}])
  /\ requests' = requests + 1
  /\ unserved' = (unserved \/ a = "apply") /\ UNCHANGED unplanned

\* A deletion counts as a generation.
Delete ==
  /\ UserActs /\ ~object.deleting
  /\ UserWrites([object EXCEPT !.deleting = TRUE, !.generation = @ + 1,
                               !.exists = object.finalizer])
  /\ UNCHANGED requestVars

\* The retry time, or the refresh time, is reached.
RetryTime ==
  /\ object.blocked
  /\ object' = [object EXCEPT !.blocked = FALSE]
  /\ queued' = (queued \/ "retry" \in timers) /\ timers' = timers \ {"retry"}
  /\ UNCHANGED <<ws, fresh, pc, localVars, otherVars, faults>>

RefreshTime ==
  /\ object.exists /\ ~object.due
  /\ object' = [object EXCEPT !.due = TRUE]
  /\ queued' = (queued \/ "refresh" \in timers) /\ timers' = timers \ {"refresh"}
  /\ UNCHANGED <<ws, fresh, pc, localVars, otherVars, faults>>

Surprise ==
  /\ object.exists /\ surprises < MaxSurprises /\ surprises' = surprises + 1
  /\ \/ /\ "release" \in Surprises /\ upstream # 0
        /\ upstream' = upstream + 1 /\ UNCHANGED infra
     \/ /\ "drift" \in Surprises /\ infra \in Targets
        /\ infra' = Partial /\ UNCHANGED upstream
     \/ /\ "outage" \in Surprises
        /\ upstream' = 0 /\ UNCHANGED infra
  /\ UNCHANGED <<objectVars, queueVars, pc, localVars, diskVars, requestVars, faults>>

\* The process ends, with its tool if one runs, and starts again: the first
\* listing of the objects queues the workspace; markers have another BootID.
Crash ==
  /\ object.exists
  /\ Fail
  /\ infra' \in CASE pc = "applying" -> Unfinished(Target)
                  [] pc = "destroying" /\ infra # None -> Unfinished(None)
                  [] OTHER -> {infra}
  /\ pc' = "idle" /\ ws' = None /\ fresh' = FALSE
  /\ force' = FALSE /\ rendered' = None /\ sum' = 0 /\ changed' = FALSE
  /\ queued' = TRUE /\ timers' = {}
  /\ marker' = None
  /\ UNCHANGED <<object, modules, upstream, surprises, requestVars>>

\* Where the controller may rest for good: the object is gone, or waits for the
\* user's leave to be destroyed.
Rest ==
  /\ pc = "idle" /\ ~queued
  /\ \/ ~object.exists
     \/ /\ object.deleting /\ object.spec.destroy = "manual"
        /\ "destroy" \notin object.annotations
  /\ UNCHANGED vars

-----------------------------------------------------------------------------

HandleManualRetry == ClearBackoff \/ DropRetry \/ ManualRetryFails
HandleRendering == Render \/ RenderFails
HandleRefreshDependencies ==
  \/ SkipInit \/ InitBegins \/ InitEnds \/ InitFails
  \/ DecideDeleting \/ DecideApply \/ DecideNothing \/ DecidePlan \/ DecideFails
HandleDeletionAndFinalizers ==
  \/ HasFinalizer \/ AddFinalizer \/ AwaitDestroy \/ AwaitDestroyFails
  \/ DestroyBegins \/ DestroySkipped \/ DestroyEnds \/ DestroyFails
  \/ RemoveFinalizer \/ FinalizerUpdateFails
HandlePlan ==
  \/ PlanDeferred \/ PlanBypassed \/ PlanBypassFails \/ PlanBegins \/ PlanEnds
  \/ PlanFails \/ RecordPlan \/ RecordFails
HandleApply ==
  \/ LeaveDeleted \/ NoApply \/ AwaitApply \/ AwaitApplyFails \/ NothingToApply
  \/ ApplyBegins \/ ApplyEnds \/ ApplyFails \/ RecordApply \/ Settle \/ SettleFails
HandleReschedule == DropApply \/ Observe \/ RescheduleFails

Reconcile ==
  \/ FindGone \/ WaitForRetry \/ WaitForRefresh \/ Begin
  \/ HandleManualRetry \/ HandleRendering \/ HandleRefreshDependencies
  \/ HandleDeletionAndFinalizers \/ HandlePlan \/ HandleApply \/ HandleReschedule
  \/ Backoff \/ Vanished

Users ==
  \/ \E s \in Specs : Edit(s)
  \/ \E a \in UserAnnotations : Annotate(a)
  \/ Delete

Next == Reconcile \/ Users \/ RetryTime \/ RefreshTime \/ Surprise \/ Crash \/ Rest

Spec == Init /\ [][Next]_vars

\* The controller's worker goes on whenever it can, and time passes.  A full
\* init is forced once a day at most, a refresh comes every half hour: some
\* refresh finds the init skippable, if refreshes keep finding it so.
Fairness ==
  /\ WF_vars(Reconcile) /\ WF_vars(RetryTime) /\ WF_vars(RefreshTime)
  /\ SF_vars(SkipInit)

LiveSpec == Spec /\ Fairness

-----------------------------------------------------------------------------
(* Properties *)

TypeOK ==
  /\ object \in Objects /\ ws \in Objects \cup {None}
  /\ queued \in BOOLEAN /\ timers \subseteq {"retry", "refresh"}
  /\ pc \in WorkerSteps /\ (pc # "idle" => ws \in Objects)
  /\ fresh \in BOOLEAN /\ force \in BOOLEAN /\ changed \in BOOLEAN
  /\ rendered \in Configs \cup {None}
  /\ sum \in 0 .. (1 + MaxSurprises) /\ modules \in 1 .. (1 + MaxSurprises)
  /\ marker \in [generation : 1 .. (MaxGeneration + 1), config : Configs] \cup {None}
  /\ infra \in Targets \cup {None, Partial} /\ upstream \in 0 .. (1 + MaxSurprises)
  /\ surprises \in 0 .. MaxSurprises /\ requests \in 0 .. MaxRequests
  /\ faults \in 0 .. MaxFaults /\ unserved \in BOOLEAN /\ unplanned \in BOOLEAN

\* The object does not go away while infrastructure made from it is left,
\* unless its policy says so: whatever users change, and whichever call or tool
\* run fails, while the finalizer is being worked off.
\* [handleDeletionAndFinalizers; docs/manual-approvals: "will block deletion
\* until a terraform destroy has successfully run"]
NothingLeftBehind ==
  ~object.exists => infra = None \/ object.spec.destroy = "skip"

\* Infrastructure is torn down only for an object under deletion whose policy
\* or annotations ask for it, unless they changed while the worker went by the
\* ones it had read.  [handleDeletionAndFinalizers]
DestroysOnRequest ==
  [][infra # None /\ infra' = None =>
       /\ object.deleting
       /\ \/ ~fresh
          \/ object.spec.destroy = "auto"
          \/ object.spec.destroy = "manual" /\ "destroy" \in object.annotations]_vars

\* Without autoApply an apply runs at the user's request, and once for each,
\* unless the spec changed while the worker went by the one it had read.
\* [handleApply and handleReschedule; docs/manual-approvals: "to make sure it
\* only triggers a single apply"]
OneApplyPerRequest ==
  [][pc = "apply" /\ pc' = "applying" =>
       unserved \/ object.spec.autoApply \/ ~fresh]_vars

\* A generation that the status calls observed has been planned, whatever failed or
\* was skipped on the way, unless it was not rendered (it came while a reconcile
\* ran) or an apply on request put its plan off.
\* [handleReschedule against decidePlanAfterInit; README: "automatically
\* reconciles your infrastructure based on these resources"]
ObservedIsPlanned ==
  object.exists /\ ~object.deleting /\ object.observed = object.generation =>
    unplanned \/ (object.plan # None /\ object.plan.config = object.spec.config)

\* There is no apply without a plan on record, asked for or not; and an apply does
\* what that plan says, unless it was asked for: then handlePlan makes no new plan,
\* though the spec or the modules may have changed since the old one.
\* [handlePlan: "manual apply requested, proceeding with existing plan"]
AppliesThePlan ==
  pc = "applying" => object.plan # None /\ (unplanned \/ object.plan = Target)

\* The annotation for an apply is removed after an apply, or when there is
\* nothing to apply, and not otherwise.
\* [handleReschedule; docs/manual-approvals: "After a terraform apply action has
\* successfully run, the annotation will be removed"]
RequestsAreServed ==
  [][ "apply" \in object.annotations /\ "apply" \notin object'.annotations =>
       ~unserved \/ infra = Target]_vars

\* Nothing that was left to do is forgotten: a workspace that no worker has, and
\* that is not queued, waits for a time that is to come, or for its user's leave
\* to be destroyed.  [Reconcile: what it returns, on every path; backoff]
NeverForgotten ==
  object.exists /\ pc = "idle" /\ ~queued =>
    \/ "retry" \in timers /\ object.blocked
    \/ "refresh" \in timers /\ ~object.due
    \/ object.deleting /\ object.spec.destroy = "manual"
         /\ "destroy" \notin object.annotations

\* Where a deletion is noticed: by the worker as it reads the object, or once its
\* apply is over.
Leaving ==
  /\ object.deleting
  /\ \/ pc \in {"idle", "backoff", "applied", "settle", "dropApply", "observe"}
     \/ ws.deleting /\ pc \notin {"plan", "planning", "record", "apply", "applying"}

Stage == IF ~object.exists THEN "gone" ELSE IF Leaving THEN "leaving" ELSE "managed"

\* Infrastructure comes from recorded plans until a deletion is noticed, is only
\* taken down from then on, and stays as it is once the object is gone.
\* [Reconcile; docs/manual-approvals]
Managed ==
  INSTANCE ManagedInfrastructure
    WITH stage <- Stage, asked <- object.deleting, policy <- object.spec.destroy,
         plan <- object.plan

ImplementsLifecycle == Managed!Spec

\* The infrastructure is what the spec and the dependencies call for.
InSync ==
  infra = [config |-> object.spec.config, modules |-> upstream]

\* With autoApply, what users wrote last is what the infrastructure becomes and
\* stays, whatever fails meanwhile.  [docs/manual-approvals: "whenever a
\* difference between desired and actual state is detected, a terraform apply
\* is automatically run"]
SyncedInTheEnd ==
  <>[](object.exists /\ ~object.deleting /\ object.spec.autoApply => InSync)

\* A deletion the policy lets through ends: the object goes away.
\* [handleDeletionAndFinalizers with the backoff of Reconcile]
Removable ==
  object.deleting /\ (object.spec.destroy = "manual" => "destroy" \in object.annotations)
DeletionEnds == []<>(~Removable \/ ~object.exists)

=============================================================================
