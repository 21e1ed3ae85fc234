---------------------------- MODULE RetainedPlans ----------------------------
(***************************************************************************)
(* What the history of a workspace's plans promises: plans come in the     *)
(* order of their generations, and go oldest first, one by one, as many at *)
(* most as there were too many when a cleanup looked, and none while       *)
(* another comes.  A cleanup that is not interrupted leaves exactly the    *)
(* limit that it read.  PlanHistory implements this.                       *)
(***************************************************************************)
EXTENDS Naturals, FiniteSets

CONSTANTS
  Generations,   \* that plans are made of
  Limits         \* on the length of the history

VARIABLES
  plans,     \* the generations there are plans of
  limit,     \* how many are to be kept
  surplus    \* how many the running cleanup has yet to delete, 0 if none runs

vars == <<plans, limit, surplus>>

Init == plans = {} /\ limit \in Limits /\ surplus = 0

SetLimit(l) ==
  /\ limit' = l
  /\ UNCHANGED <<plans, surplus>>

Add(g) ==
  /\ surplus = 0 /\ \A q \in plans : q <= g
  /\ plans' = plans \cup {g}
  /\ UNCHANGED <<limit, surplus>>

Start ==
  /\ surplus = 0 /\ Cardinality(plans) > limit
  /\ surplus' = Cardinality(plans) - limit
  /\ UNCHANGED <<plans, limit>>

Drop(g) ==
  /\ surplus > 0 /\ \A q \in plans : g <= q
  /\ plans' = plans \ {g} /\ surplus' = surplus - 1
  /\ UNCHANGED limit

Interrupt ==
  /\ surplus' = 0
  /\ UNCHANGED <<plans, limit>>

Next ==
  \/ \E l \in Limits : SetLimit(l)
  \/ \E g \in Generations : Add(g)
  \/ \E g \in plans : Drop(g)
  \/ Start \/ Interrupt

Spec == Init /\ [][Next]_vars

=============================================================================
