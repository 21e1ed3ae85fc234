-------------------------- MODULE MCWorkspaceLease --------------------------
(* Instances of WorkspaceLease for TLC. *)
EXTENDS WorkspaceLease, TLC

CONSTANTS p1, p2, p3, w1, w2, n1

OneWorkspace == {w1}
TwoWorkspaces == {w1, w2}
OneName == {n1}

\* Workspaces of the same name in two namespaces.
SameName == (w1 :> n1) @@ (w2 :> n1)
OnlyName == (w1 :> n1)

PodSymmetry == Permutations(Pods)

\* Workspaces are alike where they have one lease name.
AllSymmetry == Permutations(Pods) \cup Permutations(Workspaces)
=============================================================================
