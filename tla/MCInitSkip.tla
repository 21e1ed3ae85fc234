----------------------------- MODULE MCInitSkip -----------------------------
(* Instances of InitSkip for TLC. *)
EXTENDS InitSkip

CONSTANTS p1, p2, c1, s1, s2, e1, e2

FirstSpec == [main |-> c1, settings |-> s1]

\* Edits are of settings: for the fingerprint, main.tf is like the environment,
\* which changes without a new generation besides.
TwoSpecs == {FirstSpec, [FirstSpec EXCEPT !.settings = s2]}

\* Settings and environments are alike: one pair to start from is enough.
OneStart == {[spec |-> FirstSpec, env |-> e1]}
=============================================================================
