------------------------ MODULE MCWorkspaceReconcile ------------------------
(* Instances of WorkspaceReconcile for TLC. *)
EXTENDS WorkspaceReconcile

CONSTANTS c1, c2

Settings(config, autoApply, destroy) ==
  [config |-> config, autoApply |-> autoApply, destroy |-> destroy]

\* Every destroy policy, with and without autoApply.
Varied ==
  {Settings(c1, TRUE, "auto"), Settings(c1, FALSE, "manual"), Settings(c2, TRUE, "skip")}

\* Every destroy policy, applied without being asked for.
Automatic ==
  {Settings(c1, TRUE, "auto"), Settings(c2, TRUE, "manual"), Settings(c2, TRUE, "skip")}

\* Two configurations that need approval, and one of them applied by itself.
Approvable == {Settings(c, FALSE, "auto") : c \in {c1, c2}}
SometimesApproved == Approvable \cup {Settings(c1, TRUE, "auto")}
=============================================================================
