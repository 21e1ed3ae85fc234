----------------------- MODULE ManagedInfrastructure -----------------------
(***************************************************************************)
(* What the reconcile loop promises the owner of a workspace, without      *)
(* workers, copies and calls: infrastructure is made from recorded plans   *)
(* only, until a deletion is noticed; then it is only taken down; and once *)
(* the workspace is gone it is left as it is, which is nothing unless the  *)
(* policy says so.  At most one apply ends after the deletion was asked    *)
(* for: the one that had begun, or was about to.  WorkspaceReconcile       *)
(* implements this.                                                        *)
(***************************************************************************)

CONSTANTS
  Targets,         \* what plans are made from, and infrastructure comes from
  Policies,        \* spec.destroy
  None, Partial    \* no infrastructure, and some that is from no one target

VARIABLES
  stage,    \* "managed", "leaving" or "gone"
  asked,    \* the deletion was asked for
  policy,   \* what is to become of the infrastructure then
  plan,     \* the plan that is on record
  infra     \* what the infrastructure was made from

vars == <<stage, asked, policy, plan, infra>>

Init ==
  /\ stage = "managed" /\ ~asked
  /\ policy \in Policies
  /\ plan = None /\ infra = None

\* A workspace that has nothing is gone at once.
Ask ==
  /\ stage = "managed" /\ ~asked /\ asked'
  /\ stage' \in {"managed", "leaving"} \cup (IF infra = None THEN {"gone"} ELSE {})
  /\ UNCHANGED <<policy, plan, infra>>

SetPolicy(p) ==
  /\ stage # "gone"
  /\ policy' = p
  /\ UNCHANGED <<stage, asked, plan, infra>>

Plan(t) ==
  /\ stage = "managed"
  /\ plan' = t
  /\ UNCHANGED <<stage, asked, policy, infra>>

\* An apply ends, done or not.  It is the last one if the deletion was asked for.
Apply ==
  /\ stage = "managed" /\ plan # None
  /\ infra' \in {plan, Partial, infra}
  /\ stage' = IF asked THEN "leaving" ELSE "managed"
  /\ UNCHANGED <<asked, policy, plan>>

Notice ==
  /\ stage = "managed" /\ asked
  /\ stage' = "leaving"
  /\ UNCHANGED <<asked, policy, plan, infra>>

Destroy ==
  /\ stage = "leaving" /\ infra # None
  /\ infra' \in {Partial, None}
  /\ UNCHANGED <<stage, asked, policy, plan>>

\* Somebody else changes the infrastructure.
Drift ==
  /\ stage # "gone" /\ infra \in Targets
  /\ infra' = Partial
  /\ UNCHANGED <<stage, asked, policy, plan>>

Forget ==
  /\ stage = "leaving" /\ (infra = None \/ policy = "skip")
  /\ stage' = "gone"
  /\ UNCHANGED <<asked, policy, plan, infra>>

Next ==
  \/ Ask \/ (\E p \in Policies : SetPolicy(p)) \/ (\E t \in Targets : Plan(t))
  \/ Apply \/ Notice \/ Destroy \/ Drift \/ Forget

Spec == Init /\ [][Next]_vars

=============================================================================
