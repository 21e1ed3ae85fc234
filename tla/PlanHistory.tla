----------------------------- MODULE PlanHistory -----------------------------
(***************************************************************************)
(* The Plan objects of a workspace: createPlanRecord makes one after a plan *)
(* and one after an apply, under a name that holds the generation, and     *)
(* cleanupOldPlans deletes the oldest of them when a reconcile ends        *)
(* (internal/controller/workspace.go).                                     *)
(*                                                                         *)
(* One worker reconciles the workspace.  A plan is identified with the     *)
(* generation in its name; one created twice is one.  Generations only     *)
(* grow and a plan takes longer than the second to which creation times    *)
(* are kept, so the order of creation is the order of generations.         *)
(***************************************************************************)
EXTENDS Naturals, FiniteSets, FiniteSetsExt

CONSTANTS
  Limits,         \* values of spec.planHistoryLimit
  MaxGeneration   \* bound on the edits

\* The CRD asks for at least 1 and fills in 3: the zero for which the code has
\* a default of its own is never stored.
ASSUME LimitsAssumption == Limits \subseteq Nat \ {0}
ASSUME GenerationAssumption == MaxGeneration \in Nat \ {0}

VARIABLES
  generation,   \* of the workspace
  limit,        \* its spec.planHistoryLimit
  plans,        \* the Plan objects there are
  current,      \* the one status.currentPlan refers to, 0 if none
  newPlan,      \* status.newPlanNeeded still says so although the plan was made
  pc,           \* where the worker is
  recorded,     \* the record made last
  toDelete,     \* the plans cleanupOldPlans has yet to delete
  keep,         \* the limit it read
  deferred      \* observation: an apply was requested instead of a plan since current

specVars == <<generation, limit>>
statusVars == <<current, newPlan>>
cleanupVars == <<toDelete, keep>>
vars == <<specVars, plans, statusVars, pc, recorded, cleanupVars, deferred>>

WorkerSteps ==
  {"idle", "planning", "recorded", "decided", "applying", "cleanup", "deleting"}

Init ==
  /\ generation = 1 /\ limit \in Limits
  /\ plans = {} /\ current = 0 /\ newPlan = FALSE
  /\ pc = "idle" /\ recorded = 0
  /\ toDelete = {} /\ keep = 1
  /\ deferred = FALSE

\* The spec changes, the limit with it or not, also while a reconcile runs.
Edit(l) ==
  /\ generation < MaxGeneration
  /\ generation' = generation + 1 /\ limit' = l
  /\ UNCHANGED <<plans, statusVars, pc, recorded, cleanupVars, deferred>>

\* NewPlanNeeded is set, and the tool plans the spec as it is now.
PlanBegins ==
  /\ pc = "idle"
  /\ newPlan' = TRUE
  /\ pc' = "planning"
  /\ UNCHANGED <<specVars, plans, current, recorded, cleanupVars, deferred>>

\* Faulty variant: the generation is off by one.
CreateNext ==
  /\ pc = "planning"
  /\ plans' = plans \cup {generation + 1} /\ recorded' = generation
  /\ pc' = "recorded"
  /\ UNCHANGED <<specVars, statusVars, cleanupVars, deferred>>

\* createPlanRecord: creates the record, or finds the one of this generation.
\* The workspace was read again since, when output was streamed.
CreateRecord ==
  /\ pc = "planning"
  /\ plans' = plans \cup {generation} /\ recorded' = generation
  /\ pc' = "recorded"
  /\ UNCHANGED <<specVars, statusVars, cleanupVars, deferred>>

ReferToRecord ==
  /\ pc = "recorded"
  /\ current' = recorded /\ newPlan' = FALSE
  /\ deferred' = FALSE
  /\ pc' = "decided"
  /\ UNCHANGED <<specVars, plans, recorded, cleanupVars>>

\* A reconcile that makes no plan and no apply: NewPlanNeeded is not set, and
\* HasChanges is reset.
Bypass ==
  /\ pc = "idle" /\ ~newPlan
  /\ pc' = "cleanup"
  /\ UNCHANGED <<specVars, plans, statusVars, recorded, cleanupVars, deferred>>

\* The annotation for an apply comes before NewPlanNeeded, which may be set: the
\* plan there is will do, and without one there is nothing to apply.
DeferToRequest ==
  /\ pc = "idle"
  /\ newPlan' \in {newPlan \/ current = 0, TRUE}
  /\ deferred' = (current # 0)
  /\ pc' = IF current = 0 THEN "cleanup" ELSE "decided"
  /\ UNCHANGED <<specVars, plans, current, recorded, cleanupVars>>

\* HasChanges, and autoApply or the annotation, or not.
ApplyOrNot ==
  /\ pc = "decided"
  /\ pc' \in {"applying", "cleanup"}
  /\ UNCHANGED <<specVars, plans, statusVars, recorded, cleanupVars, deferred>>

\* The record of the apply: that of the plan, made again if need be, unless the
\* generation is another by now.
RecordApply ==
  /\ pc = "applying"
  /\ plans' = plans \cup {generation} /\ recorded' = generation
  /\ pc' = "cleanup"
  /\ UNCHANGED <<specVars, statusVars, cleanupVars, deferred>>

\* The n oldest of the plans.
Oldest(n) == {p \in plans : Cardinality({q \in plans : q < p}) < n}

ListWithin ==
  /\ pc = "cleanup" /\ Cardinality(plans) <= limit
  /\ pc' = "idle"
  /\ UNCHANGED <<specVars, plans, statusVars, recorded, cleanupVars, deferred>>

\* Faulty variant: one too many.
ListOneMore ==
  /\ pc = "cleanup" /\ Cardinality(plans) > limit
  /\ toDelete' = Oldest(Cardinality(plans) - limit + 1)
  /\ keep' = limit
  /\ pc' = "deleting"
  /\ UNCHANGED <<specVars, plans, statusVars, recorded, deferred>>

\* Faulty variant: sorted the other way round.
ListNewest ==
  /\ pc = "cleanup" /\ Cardinality(plans) > limit
  /\ toDelete' = plans \ Oldest(limit)
  /\ keep' = limit
  /\ pc' = "deleting"
  /\ UNCHANGED <<specVars, plans, statusVars, recorded, deferred>>

\* plans[:len(plans)-int(ws.Spec.PlanHistoryLimit)]
ListBeyond ==
  /\ pc = "cleanup" /\ Cardinality(plans) > limit
  /\ toDelete' = Oldest(Cardinality(plans) - limit)
  /\ keep' = limit
  /\ pc' = "deleting"
  /\ UNCHANGED <<specVars, plans, statusVars, recorded, deferred>>

DeletePlan ==
  /\ pc = "deleting" /\ toDelete # {}
  /\ plans' = plans \ {Min(toDelete)}
  /\ toDelete' = toDelete \ {Min(toDelete)}
  /\ UNCHANGED <<specVars, statusVars, pc, recorded, keep, deferred>>

CleanupEnds ==
  /\ pc = "deleting" /\ toDelete = {}
  /\ pc' = "idle"
  /\ UNCHANGED <<specVars, plans, statusVars, recorded, cleanupVars, deferred>>

\* A call or the tool fails, or the process ends: the reconcile starts over.
Interrupted ==
  /\ pc # "idle"
  /\ pc' = "idle" /\ toDelete' = {}
  /\ UNCHANGED <<specVars, plans, statusVars, recorded, keep, deferred>>

Next ==
  \/ \E l \in Limits : Edit(l)
  \/ PlanBegins \/ CreateRecord \/ ReferToRecord
  \/ Bypass \/ DeferToRequest \/ ApplyOrNot \/ RecordApply
  \/ ListWithin \/ ListBeyond \/ DeletePlan \/ CleanupEnds \/ Interrupted

Spec == Init /\ [][Next]_vars

-----------------------------------------------------------------------------
(* Properties *)

TypeOK ==
  /\ generation \in 1 .. MaxGeneration /\ limit \in Limits
  /\ plans \subseteq 1 .. generation
  /\ current \in 0 .. generation /\ newPlan \in BOOLEAN
  /\ pc \in WorkerSteps
  /\ recorded \in 0 .. generation
  /\ toDelete \subseteq plans /\ keep \in Limits \cup {1}
  /\ deferred \in BOOLEAN

\* The plan that the status refers to is deleted only if a single plan is to be
\* kept, or after an apply on request that no plan came before: however limits
\* change, and wherever earlier reconciles were interrupted.  (In those cases the
\* record of an apply, of a later generation, takes its place in the history.)
\* [cleanupOldPlans; the API: "CurrentPlan is a reference to the current Plan
\* resource"]
CurrentKept ==
  [][(current \in plans \ plans') => keep = 1 \/ deferred]_vars

\* A cleanup leaves as many plans as the limit it read asks for, the newest, also
\* when it takes up what an earlier one left.  [cleanupOldPlans; the API:
\* "PlanHistoryLimit is the number of plans to keep for the workspace"]
KeepsTheLimit ==
  [][\A p \in plans \ plans' :
       Cardinality({q \in plans' : q > p}) >= keep]_vars

\* Plans are deleted oldest first and one at a time, exactly those that were too
\* many when the cleanup listed them, and none is made meanwhile.
\* [cleanupOldPlans, createPlanRecord]
Retained ==
  INSTANCE RetainedPlans
    WITH Generations <- 1 .. MaxGeneration, surplus <- Cardinality(toDelete)

ImplementsRetention == Retained!Spec

=============================================================================
