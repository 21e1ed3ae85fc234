---------------------- MODULE WorkspaceLifecycleProofs ----------------------
(***************************************************************************)
(* Theorems about whole lives of a workspace in WorkspaceReconcile, from   *)
(* the invariants and the sorting of steps of WorkspaceReconcileProofs:    *)
(*   NothingIsForgotten    no path through Reconcile loses what is left    *)
(*                         to do;                                          *)
(*   LifecycleImplemented  the loop implements ManagedInfrastructure.      *)
(***************************************************************************)
EXTENDS WorkspaceReconcileProofs

-----------------------------------------------------------------------------
(* No wake-up is lost *)

\* What the worker has not heard of is queued behind it: the last return of the
\* reconcile then need not set a timer for it.
Heard == pc # "idle" /\ object.exists /\ ~SameAsked(ws, object) => queued
HeardOfDeletion == pc \in Working /\ object.deleting => queued

\* The queue loses the workspace to a worker that takes it, and to nobody else.
LEMMA QueueKept ==
  ASSUME [Next]_vars, queued
  PROVE  queued' \/ FindGone \/ WaitForRetry \/ WaitForRefresh \/ Begin
<1>1. CASE HandleManualRetry \/ HandleRendering
  BY <1>1 DEF HandleManualRetry, ClearBackoff, DropRetry, ManualRetryFails, Return,
     HandleRendering, Render, RenderFails, queueVars
<1>2. CASE HandleRefreshDependencies
  BY <1>2 DEF HandleRefreshDependencies, SkipInit, InitBegins, InitEnds, InitFails,
     DecideDeleting, DecideApply, DecideNothing, DecidePlan, DecideFails, queueVars
<1>3. CASE HandleDeletionAndFinalizers
  BY <1>3 DEF HandleDeletionAndFinalizers, HasFinalizer, AddFinalizer, AwaitDestroy,
     AwaitDestroyFails, DestroyBegins, DestroySkipped, DestroyEnds, DestroyFails,
     RemoveFinalizer, FinalizerUpdateFails, Return, queueVars
<1>4. CASE HandlePlan
  BY <1>4 DEF HandlePlan, PlanDeferred, PlanBypassed, PlanBypassFails, PlanBegins, PlanEnds,
     PlanFails, RecordPlan, RecordFails, queueVars
<1>5. CASE HandleApply
  BY <1>5 DEF HandleApply, LeaveDeleted, NoApply, AwaitApply, AwaitApplyFails, NothingToApply,
     ApplyBegins, ApplyEnds, ApplyFails, RecordApply, Settle, SettleFails, Return, queueVars
<1>6. CASE HandleReschedule
  BY <1>6 DEF HandleReschedule, DropApply, Observe, RescheduleFails, Return, queueVars
<1>7. CASE Backoff \/ Vanished \/ Crash
  BY <1>7 DEF Backoff, Vanished, Crash, Return
<1>8. CASE Outside
  BY <1>8 DEF Outside, Users, Edit, Annotate, Delete, UserWrites, RetryTime, RefreshTime,
     Surprise, Rest, vars, queueVars
<1> QED
  BY <1>1, <1>2, <1>3, <1>4, <1>5, <1>6, <1>7, <1>8 DEF Next, Reconcile, Outside

\* How the worker comes to be idle, or stays so.
LEMMA WaysToIdle ==
  ASSUME [Next]_vars, pc' = "idle"
  PROVE  \/ FindGone \/ WaitForRetry \/ WaitForRefresh \/ (Outside /\ pc = "idle")
         \/ ManualRetryFails \/ AwaitDestroy \/ RemoveFinalizer \/ LeaveDeleted \/ Observe
         \/ Backoff \/ Vanished \/ Crash
<1>1. CASE Begin
  BY <1>1 DEF Begin
<1>2. CASE HandleManualRetry \/ HandleRendering
  BY <1>2 DEF HandleManualRetry, ClearBackoff, DropRetry, HandleRendering, Render, RenderFails,
     Errored, ErroredAs
<1>3. CASE HandleRefreshDependencies
  BY <1>3 DEF HandleRefreshDependencies, SkipInit, InitBegins, InitEnds, InitFails,
     DecideDeleting, DecideApply, DecideNothing, DecidePlan, DecideFails, Errored, ErroredAs
<1>4. CASE HandleDeletionAndFinalizers
  BY <1>4 DEF HandleDeletionAndFinalizers, HasFinalizer, AddFinalizer,
     AwaitDestroyFails, DestroyBegins, DestroySkipped, DestroyEnds, DestroyFails,
     FinalizerUpdateFails, Aborted
<1>5. CASE HandlePlan
  BY <1>5 DEF HandlePlan, PlanDeferred, PlanBypassed, PlanBypassFails, PlanBegins, PlanEnds,
     PlanFails, RecordPlan, RecordFails, Aborted, Errored, ErroredAs
<1>6. CASE HandleApply
  BY <1>6 DEF HandleApply, NoApply, AwaitApply, AwaitApplyFails, NothingToApply,
     ApplyBegins, ApplyEnds, ApplyFails, RecordApply, Settle, SettleFails, Aborted, Errored,
     ErroredAs
<1>7. CASE HandleReschedule
  BY <1>7 DEF HandleReschedule, DropApply, RescheduleFails, Aborted
<1>8. CASE Outside
  BY <1>8 DEF Outside, Users, Edit, Annotate, Delete, UserWrites, RetryTime, RefreshTime,
     Surprise, Rest, vars
<1> QED
  BY <1>1, <1>2, <1>3, <1>4, <1>5, <1>6, <1>7, <1>8 DEF Next, Reconcile, Outside

\* Users are heard of, or queued.
LEMMA HeardStep ==
  ASSUME TypeOK, Heard, [Next]_vars
  PROVE  Heard'
<1>o. object \in Objects
  BY DEF TypeOK
<1>q. pc # "idle" /\ queued => queued'
  BY QueueKept DEF FindGone, WaitForRetry, WaitForRefresh, Begin, Take
<1>1. CASE Quiet
  BY <1>1, <1>q DEF Quiet, Heard, SameAsked
<1>2. CASE AddFinalizer \/ DropRetry \/ DropApply
  BY <1>2 DEF AddFinalizer, DropRetry, DropApply, Write, Heard, SameAsked
<1>3. CASE RemoveFinalizer
  BY <1>3 DEF RemoveFinalizer, Return, Heard
<1>4. CASE Users
  BY <1>4 DEF Users, Edit, Annotate, Delete, UserWrites, Heard
<1> QED
  BY <1>1, <1>2, <1>3, <1>4, Kinds

\* A deletion that comes after the finalizer was seen to is queued.
LEMMA HeardOfDeletionStep ==
  ASSUME TypeOK, Heard, HeardOfDeletion, [Next]_vars
  PROVE  HeardOfDeletion'
<1> SUFFICES ASSUME pc' \in Working, object'.deleting, ~Users
             PROVE  queued'
  BY DEF HeardOfDeletion, Users, Edit, Annotate, Delete, UserWrites
<1>o. object \in Objects
  BY DEF TypeOK
<1>d. object.deleting
  <2>1. CASE Quiet
    BY <2>1 DEF Quiet, SameAsked
  <2>2. CASE AddFinalizer \/ DropRetry \/ DropApply \/ RemoveFinalizer
    BY <1>o, <2>2 DEF AddFinalizer, DropRetry, DropApply, RemoveFinalizer, Write, Objects
  <2> QED
    BY <2>1, <2>2, Kinds
<1>q. pc # "idle" /\ queued => queued'
  BY QueueKept DEF FindGone, WaitForRetry, WaitForRefresh, Begin, Take
<1>1. CASE pc \in Working
  BY <1>1, <1>d, <1>q DEF HeardOfDeletion, Working
<1>2. CASE HasFinalizer \/ AddFinalizer
  <2>1. pc = "finalizer" /\ object.exists /\ ~ws.deleting
    BY <1>2 DEF HasFinalizer, AddFinalizer, At
  <2> QED
    BY <1>d, <1>q, <2>1 DEF Heard, SameAsked
<1> QED
  BY <1>1, <1>2, Paths

\* Every return of Reconcile, and every time that comes, leaves a wake-up.
LEMMA NeverForgottenStep ==
  ASSUME TypeOK, Copy, Heard, HeardOfDeletion, NeverForgotten, [Next]_vars
  PROVE  NeverForgotten'
<1> SUFFICES ASSUME object'.exists, pc' = "idle", ~queued'
             PROVE  NeverForgotten'
  BY DEF NeverForgotten
<1>o. object \in Objects
  BY DEF TypeOK
<1>1. CASE FindGone
  BY <1>1 DEF FindGone, objectVars
<1>2. CASE WaitForRetry \/ WaitForRefresh
  BY <1>2 DEF WaitForRetry, WaitForRefresh, Blocked, UpToDate, objectVars, NeverForgotten
<1>3. CASE ManualRetryFails \/ Backoff \/ Vanished \/ Crash
  BY <1>3 DEF ManualRetryFails, Backoff, Vanished, Crash, Return
<1>4. CASE AwaitDestroy
  <2>1. pc = "finalizer" /\ object.exists /\ ~queued /\ timers' = timers \cup
          (IF object.due THEN {} ELSE {"refresh"})
    BY <1>4 DEF AwaitDestroy, At, Return
  <2>2. SameAsked(ws, object)
    BY <2>1 DEF Heard
  <2>3. object.deleting /\ object.spec.destroy = "manual" /\ "destroy" \notin object.annotations
    BY <1>4, <2>2 DEF AwaitDestroy, SameAsked
  <2>4. object'.deleting = object.deleting /\ object'.spec = object.spec
        /\ object'.annotations = object.annotations
    BY <1>o, <1>4 DEF AwaitDestroy, Objects
  <2> QED
    BY <2>3, <2>4 DEF NeverForgotten
<1>5. CASE RemoveFinalizer
  BY <1>o, <1>5 DEF RemoveFinalizer, Objects
<1>6. CASE LeaveDeleted
  <2>1. queued
    BY <1>6 DEF LeaveDeleted, HeardOfDeletion, Working, Copy
  <2> QED
    BY <1>6, <2>1 DEF LeaveDeleted, Return
<1>7. CASE Observe
  <2>1. "refresh" \in timers' /\ ~object'.due
    BY <1>o, <1>7 DEF Observe, Observed, Return, Objects
  <2> QED
    BY <2>1 DEF NeverForgotten
<1>8. CASE Outside /\ pc = "idle"
  <2>1. CASE Users
    BY <2>1 DEF Users, Edit, Annotate, Delete, UserWrites
  <2>2. CASE RetryTime
    <3>1. ~queued /\ "retry" \notin timers /\ timers' = timers
      BY <2>2 DEF RetryTime
    <3>2. SameAsked(object', object) /\ object'.due = object.due
      BY <1>o, <2>2 DEF RetryTime, Objects, SameAsked
    <3> QED
      BY <1>8, <3>1, <3>2 DEF NeverForgotten, SameAsked
  <2>3. CASE RefreshTime
    <3>1. ~queued /\ "refresh" \notin timers /\ timers' = timers
      BY <2>3 DEF RefreshTime
    <3>2. SameAsked(object', object) /\ object'.blocked = object.blocked
      BY <1>o, <2>3 DEF RefreshTime, Objects, SameAsked
    <3> QED
      BY <1>8, <3>1, <3>2 DEF NeverForgotten, SameAsked
  <2>4. CASE Surprise \/ Rest \/ UNCHANGED vars
    BY <1>8, <2>4 DEF Surprise, Rest, vars, objectVars, queueVars, NeverForgotten
  <2> QED
    BY <1>8, <2>1, <2>2, <2>3, <2>4 DEF Outside
<1> QED
  BY <1>1, <1>2, <1>3, <1>4, <1>5, <1>6, <1>7, <1>8, WaysToIdle

\* No wake-up is lost, on any path through Reconcile, whichever call fails and
\* whatever users do meanwhile: what does not requeue sets a timer that is still
\* to come, or leaves a change behind that is queued.  [Reconcile; backoff]
THEOREM NothingIsForgotten == Spec => []NeverForgotten
<1> DEFINE Attentive == Heard /\ HeardOfDeletion /\ NeverForgotten
<1>1. Init => Attentive
  BY DEF Init, Heard, HeardOfDeletion, Working, NeverForgotten
<1>2. SafeInv /\ Attentive /\ [Next]_vars => Attentive'
  BY HeardStep, HeardOfDeletionStep, NeverForgottenStep DEF SafeInv
<1>3. Attentive => NeverForgotten
  OBVIOUS
<1> QED
  BY <1>1, <1>2, <1>3, Safe, PTL DEF Spec

-----------------------------------------------------------------------------
(* The refinement of ManagedInfrastructure *)

\* Once it has applied, or given up, the worker makes for the end.
Late == {"applied", "settle", "dropApply", "observe", "backoff"}

LEMMA LateSteps ==
  ASSUME [Next]_vars
  PROVE  /\ pc \in Late => pc' \in Late \cup {"idle"}
         /\ pc = "idle" => pc' = "idle" \/ Begin
<1> USE DEF Late
<1>1. CASE FindGone \/ WaitForRetry \/ WaitForRefresh \/ Begin
  BY <1>1 DEF FindGone, WaitForRetry, WaitForRefresh, Begin, Take
<1>2. CASE HandleManualRetry \/ HandleRendering
  BY <1>2 DEF HandleManualRetry, ClearBackoff, DropRetry, ManualRetryFails, HandleRendering,
     Render, RenderFails, At
<1>3. CASE HandleRefreshDependencies
  BY <1>3 DEF HandleRefreshDependencies, SkipInit, InitBegins, InitEnds, InitFails,
     DecideDeleting, DecideApply, DecideNothing, DecidePlan, DecideFails, At
<1>4. CASE HandleDeletionAndFinalizers
  BY <1>4 DEF HandleDeletionAndFinalizers, HasFinalizer, AddFinalizer, AwaitDestroy,
     AwaitDestroyFails, DestroyBegins, DestroySkipped, DestroyEnds, DestroyFails,
     RemoveFinalizer, FinalizerUpdateFails, At
<1>5. CASE HandlePlan
  BY <1>5 DEF HandlePlan, PlanDeferred, PlanBypassed, PlanBypassFails, PlanBegins, PlanEnds,
     PlanFails, RecordPlan, RecordFails, At, Aborted
<1>6. CASE HandleApply
  BY <1>6 DEF HandleApply, LeaveDeleted, NoApply, AwaitApply, AwaitApplyFails, NothingToApply,
     ApplyBegins, ApplyEnds, ApplyFails, RecordApply, Settle, SettleFails, At, Return, Aborted
<1>7. CASE HandleReschedule
  BY <1>7 DEF HandleReschedule, DropApply, Observe, RescheduleFails, At, Return, Aborted
<1>8. CASE Backoff \/ Vanished \/ Crash
  BY <1>8 DEF Backoff, Vanished, Crash, Return
<1>9. CASE Outside
  BY <1>9 DEF Outside, Users, Edit, Annotate, Delete, UserWrites, RetryTime, RefreshTime,
     Surprise, Rest, vars
<1> QED
  BY <1>1, <1>2, <1>3, <1>4, <1>5, <1>6, <1>7, <1>8, <1>9 DEF Next, Reconcile, Outside

\* A deletion that was noticed stays noticed: a worker that has seen it does not
\* go on to plan, and the next worker sees it.
LEMMA LeavingStep ==
  ASSUME SafeInv, Leaving, [Next]_vars
  PROVE  Leaving'
<1>o. object \in Objects /\ TypeOK
  BY DEF SafeInv, TypeOK
<1>d. object'.deleting
  BY <1>o, GenerationsGrow DEF Leaving
<1>1. CASE pc \in Late
  BY <1>1, <1>d, LateSteps DEF Leaving, Late
<1>2. CASE pc = "idle"
  <2>1. CASE Begin
    <3>1. ws' = object /\ pc' \in {"clearBackoff", "render"}
      BY <2>1 DEF Begin, Write
    <3> QED
      BY <1>d, <3>1 DEF Leaving
  <2> QED
    BY <1>2, <1>d, <2>1, LateSteps DEF Leaving
<1>3. CASE pc \notin Late \cup {"idle"}
  <2>1. ws.deleting /\ pc \notin Working
    BY <1>3 DEF Leaving, Working, Late
  <2>2. ~HasFinalizer /\ ~AddFinalizer
    BY <2>1 DEF HasFinalizer, AddFinalizer
  <2>3. pc' \notin Working
    BY <1>o, <2>1, <2>2, Paths
  <2>4. pc' = "idle" \/ ws'.deleting
    <3>1. CASE Quiet
      BY <2>1, <3>1 DEF Quiet, SameAsked, Leaving
    <3>2. CASE DropRetry \/ DropApply
      BY <1>d, <3>2 DEF DropRetry, DropApply, Write
    <3>3. CASE RemoveFinalizer
      BY <3>3 DEF RemoveFinalizer, Return
    <3>4. CASE Users
      BY <2>1, <3>4 DEF Users, Edit, Annotate, Delete, UserWrites
    <3> QED
      BY <1>o, <2>2, <3>1, <3>2, <3>3, <3>4, Kinds
  <2> QED
    BY <1>d, <2>3, <2>4 DEF Leaving, Working
<1> QED
  BY <1>1, <1>2, <1>3

\* The plan on record is replaced by the record of another, and by nothing else.
LEMMA PlanStays ==
  ASSUME TypeOK, [Next]_vars
  PROVE  object'.plan = object.plan \/ RecordPlan
<1>o. object \in Objects
  BY DEF TypeOK
<1>1. CASE SamePlan(object', object)
  BY <1>1 DEF SamePlan
<1>2. CASE DecidePlan \/ Observe
  BY <1>o, <1>2 DEF DecidePlan, Observe, Observed, Write, Objects
<1>3. CASE RescheduleFails
  BY <1>o, <1>3 DEF RescheduleFails, Observed, Aborted, Write, objectVars, Objects
<1> QED
  BY <1>1, <1>2, <1>3, PlanKept

\* What ManagedInfrastructure sees of a step, if it is no more than that the
\* deletion is noticed.
LEMMA NoticeOrStutter ==
  ASSUME SafeInv, [Next]_vars, object'.exists = object.exists,
         object'.deleting = object.deleting, object'.spec.destroy = object.spec.destroy,
         object'.plan = object.plan, infra' = infra
  PROVE  Managed!Notice \/ UNCHANGED Managed!vars
<1>1. Leaving => Leaving'
  BY LeavingStep
<1>2. Leaving' => object'.deleting
  BY DEF Leaving
<1>3. Stage' = Stage \/ (Stage = "managed" /\ Stage' = "leaving" /\ object.deleting)
  BY <1>1, <1>2 DEF Stage
<1> QED
  BY <1>3 DEF Managed!Notice, Managed!vars

\* What is left of a workspace that is gone stays as it is.
LEMMA GoneStutters ==
  ASSUME SafeInv, [Next]_vars, ~object.exists
  PROVE  UNCHANGED Managed!vars
<1>o. object \in Objects /\ TypeOK
  BY DEF SafeInv, TypeOK
<1>1. ~object'.exists /\ object'.spec = object.spec /\ UNCHANGED infra
  BY <1>o, GoneForGood
<1>2. object'.plan = object.plan
  BY <1>o, PlanStays DEF RecordPlan, At
<1>3. object'.deleting = object.deleting
  <2>1. ~Users /\ ~AddFinalizer /\ ~RemoveFinalizer /\ ~DropRetry /\ ~DropApply
    BY DEF Users, Edit, Annotate, Delete, UserActs, AddFinalizer, RemoveFinalizer, DropRetry,
       DropApply, At
  <2> QED
    BY <1>o, <2>1, Kinds DEF Quiet, SameAsked
<1> QED
  BY <1>1, <1>2, <1>3 DEF Managed!vars, Stage

\* What users do is to ask, to change the policy, or nothing.
LEMMA UsersAsk ==
  ASSUME SafeInv, Users
  PROVE  Managed!Next \/ UNCHANGED Managed!vars
<1>o. object \in Objects /\ object.exists
  BY DEF SafeInv, TypeOK, Users, Edit, Annotate, Delete, UserActs
<1>u. UNCHANGED <<ws, pc, infra>>
  BY DEF Users, Edit, Annotate, Delete, UserWrites, worldVars
<1>1. ASSUME NEW s \in Specs, Edit(s)
      PROVE  Managed!Next
  <2>1. /\ object'.exists = object.exists /\ object'.deleting = object.deleting
        /\ object'.plan = object.plan /\ object'.spec = s
    BY <1>o, <1>1 DEF Edit, UserWrites, Objects
  <2>2. Stage' = Stage /\ Stage # "gone"
    BY <1>o, <1>u, <2>1 DEF Stage, Leaving
  <2>3. Managed!SetPolicy(s.destroy)
    BY <1>u, <2>1, <2>2 DEF Managed!SetPolicy
  <2>4. s.destroy \in Policies
    BY SpecsAssumption
  <2> QED
    BY <2>3, <2>4 DEF Managed!Next
<1>2. ASSUME NEW a \in UserAnnotations, Annotate(a)
      PROVE  UNCHANGED Managed!vars
  <2>1. /\ object'.exists = object.exists /\ object'.deleting = object.deleting
        /\ object'.plan = object.plan /\ object'.spec = object.spec
    BY <1>o, <1>2 DEF Annotate, UserWrites, Objects
  <2> QED
    BY <1>u, <2>1 DEF Managed!vars, Stage, Leaving
<1>3. ASSUME Delete
      PROVE  Managed!Next
  <2>1. /\ ~object.deleting /\ object'.exists = object.finalizer /\ object'.deleting
        /\ object'.plan = object.plan /\ object'.spec = object.spec
    BY <1>o, <1>3 DEF Delete, UserWrites, Objects
  <2>2. Stage = "managed"
    BY <1>o, <2>1 DEF Stage, Leaving
  <2>3. Stage' = "gone" => infra = None
    BY <1>o, <2>1 DEF Stage, SafeInv, Finalized
  <2>4. Stage' \in {"managed", "leaving", "gone"}
    BY DEF Stage
  <2>5. Managed!Ask
    BY <1>u, <2>1, <2>2, <2>3, <2>4 DEF Managed!Ask
  <2> QED
    BY <2>5 DEF Managed!Next
<1> QED
  BY <1>1, <1>2, <1>3 DEF Users

\* What a worker does to the infrastructure is to apply the plan on record, or to
\* destroy what is leaving.
LEMMA WorkerApplies ==
  ASSUME SafeInv, Unrequested, Planned, pc = "applying", object.exists,
         pc' \in {"applied", "backoff", "idle"}, infra' \in {infra, Partial, Target},
         object'.exists, object'.deleting = object.deleting, object'.spec = object.spec,
         object'.plan = object.plan
  PROVE  Managed!Next
<1>1. object.plan = Target /\ Target \in Targets
  BY TargetType DEF SafeInv, Unrequested, Planned, PutOff, WorkerSteps, Rendering
<1>2. object.plan # None
  BY <1>1, NoneAssumption
<1>3. Stage = "managed" /\ Stage' = IF object.deleting THEN "leaving" ELSE "managed"
  BY DEF Stage, Leaving
<1>4. Managed!Apply
  BY <1>1, <1>2, <1>3 DEF Managed!Apply
<1> QED
  BY <1>4 DEF Managed!Next

LEMMA WorkerDestroys ==
  ASSUME SafeInv, pc = "destroying", object.exists, infra # None,
         pc' \in {"backoff", "idle"} \/ (pc' = "cleanup" /\ UNCHANGED ws),
         infra' \in {infra, Partial, None},
         object'.exists, object'.deleting = object.deleting, object'.spec = object.spec,
         object'.plan = object.plan
  PROVE  Managed!Next \/ UNCHANGED Managed!vars
<1>1. ws.deleting /\ object.deleting
  BY DEF SafeInv, Finalized, Copy
<1>2. Stage = "leaving" /\ Stage' = "leaving"
  BY <1>1 DEF Stage, Leaving
<1>3. CASE infra' = infra
  BY <1>2, <1>3 DEF Managed!vars
<1>4. CASE infra' # infra
  <2>1. Managed!Destroy
    BY <1>2, <1>4 DEF Managed!Destroy
  <2> QED
    BY <2>1 DEF Managed!Next
<1> QED
  BY <1>3, <1>4

\* Every step of the loop is a step of ManagedInfrastructure or a stutter.
LEMMA LifecycleStep ==
  ASSUME SafeInv, Unrequested, Planned, [Next]_vars
  PROVE  Managed!Next \/ UNCHANGED Managed!vars
<1>o. object \in Objects /\ TypeOK
  BY DEF SafeInv, TypeOK
<1>1. CASE ~object.exists
  BY <1>1, GoneStutters
<1>2. CASE Users
  BY <1>2, UsersAsk
<1>3. CASE RemoveFinalizer
  <2>1. pc = "cleanup" /\ fresh /\ object.exists /\ ws.deleting
        /\ (infra = None \/ ws.spec.destroy = "skip")
    BY <1>3 DEF RemoveFinalizer, At, SafeInv, Finalized
  <2>2. object.deleting /\ (infra = None \/ object.spec.destroy = "skip")
    BY <2>1 DEF SafeInv, Copy, SameAsked
  <2>3. /\ ~object'.exists /\ object'.deleting = object.deleting /\ object'.spec = object.spec
        /\ object'.plan = object.plan /\ infra' = infra
    BY <1>o, <1>3 DEF RemoveFinalizer, worldVars, Objects
  <2>4. Stage = "leaving" /\ Stage' = "gone"
    BY <2>1, <2>2, <2>3 DEF Stage, Leaving
  <2>5. Managed!Forget
    BY <2>2, <2>3, <2>4 DEF Managed!Forget
  <2> QED
    BY <2>5 DEF Managed!Next
<1>4. CASE object.exists /\ ~Users /\ ~RemoveFinalizer
  <2>1. /\ object'.exists /\ object'.deleting = object.deleting
        /\ object'.spec = object.spec
    <3>1. CASE Quiet
      BY <1>4, <3>1 DEF Quiet, SameAsked
    <3>2. CASE AddFinalizer \/ DropRetry \/ DropApply
      BY <1>o, <1>4, <3>2 DEF AddFinalizer, DropRetry, DropApply, Write, Objects
    <3> QED
      BY <1>o, <1>4, <3>1, <3>2, Kinds
  <2>2. CASE RecordPlan
    <3>1. pc = "record" /\ pc' = "apply" /\ object'.plan = Target
      BY <1>o, <2>2 DEF RecordPlan, At, Write, Objects
    <3>2. Target \in Targets
      BY <3>1, TargetType DEF SafeInv, WorkerSteps, Rendering
    <3>3. Stage = "managed" /\ Stage' = "managed"
      BY <1>4, <2>1, <3>1 DEF Stage, Leaving
    <3>4. infra' = infra
      BY <2>2 DEF RecordPlan, worldVars
    <3>5. Managed!Plan(Target)
      BY <2>1, <3>1, <3>3, <3>4 DEF Managed!Plan
    <3> QED
      BY <3>2, <3>5 DEF Managed!Next
  <2>3. CASE object'.plan = object.plan
    <3>1. CASE infra' = infra
      BY <1>4, <2>1, <2>3, <3>1, NoticeOrStutter DEF Managed!Next
    <3>2. CASE Surprise
      <4>1. (infra \in Targets /\ infra' = Partial) \/ infra' = infra
        BY <3>2 DEF Surprise
      <4>2. Stage' = Stage /\ Stage # "gone"
        BY <1>4, <2>1, <3>2 DEF Surprise, objectVars, Stage, Leaving
      <4>3. infra' # infra => Managed!Drift
        BY <2>1, <2>3, <4>1, <4>2 DEF Managed!Drift
      <4> QED
        BY <3>1, <4>3 DEF Managed!Next
    <3>3. CASE ApplyEnds \/ ApplyFails \/ (Crash /\ pc = "applying")
      <4>1. /\ pc = "applying" /\ pc' \in {"applied", "backoff", "idle"}
            /\ infra' \in {infra, Partial, Target}
        BY <3>3 DEF ApplyEnds, ApplyFails, Crash, Unfinished, Errored, ErroredAs, At
      <4> QED
        BY <1>4, <2>1, <2>3, <4>1, WorkerApplies
    <3>4. CASE (DestroyEnds \/ DestroyFails \/ (Crash /\ pc = "destroying")) /\ infra # None
      <4>1. /\ pc = "destroying" /\ infra' \in {infra, Partial, None}
            /\ pc' \in {"backoff", "idle"} \/ (pc' = "cleanup" /\ UNCHANGED ws)
        BY <3>4 DEF DestroyEnds, DestroyFails, Crash, Unfinished, Aborted, At, objectVars
      <4> QED
        BY <1>4, <2>1, <2>3, <3>4, <4>1, WorkerDestroys
    <3>5. CASE (DestroyEnds \/ DestroyFails \/ (Crash /\ pc = "destroying")) /\ infra = None
      <4>1. infra' = infra
        BY <3>5 DEF DestroyEnds, DestroyFails, Crash
      <4> QED
        BY <3>1, <4>1
    <3>6. Crash /\ pc \notin {"applying", "destroying"} => infra' = infra
      BY DEF Crash
    <3> QED
      BY <3>1, <3>2, <3>3, <3>4, <3>5, <3>6, Untouched DEF worldVars
  <2> QED
    BY <1>o, <2>2, <2>3, PlanStays
<1> QED
  BY <1>1, <1>2, <1>3, <1>4

\* The reconcile loop implements what it promises the owner of a workspace, for
\* every set of specs and whatever fails, if applies are not asked for with the
\* annotation: what is applied is the plan on record, after a deletion was noticed
\* nothing is planned or applied any more, by no later worker either, and what
\* the object leaves behind stays.  [Reconcile]
THEOREM LifecycleImplemented ==
  ASSUME NoRequests
  PROVE  Spec => ImplementsLifecycle
<1>1. Init => Unrequested
  BY DEF Init, Created, Unrequested
<1>2. PlanInv /\ Unrequested /\ [Next]_vars => Unrequested'
  BY NoRequests, UnrequestedStep DEF PlanInv, SafeInv
<1>3. Init => Managed!Init
  <2> SUFFICES ASSUME Init PROVE Managed!Init
    OBVIOUS
  <2>1. PICK s \in Specs : object = Created(s)
    BY DEF Init
  <2>2. object.exists /\ ~object.deleting /\ object.spec = s /\ object.plan = None
    BY <2>1 DEF Created
  <2>3. s.destroy \in Policies
    BY SpecsAssumption
  <2> QED
    BY <2>2, <2>3 DEF Init, Managed!Init, Stage, Leaving
<1>4. PlanInv /\ Unrequested /\ [Next]_vars => [Managed!Next]_(Managed!vars)
  BY LifecycleStep DEF PlanInv
<1> QED
  BY <1>1, <1>2, <1>3, <1>4, PlansKept, PTL DEF Spec, ImplementsLifecycle, Managed!Spec

=============================================================================
