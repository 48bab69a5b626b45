------------------------ MODULE MCDeploymentSwitch -------------------------
(***************************************************************************)
(* DeploymentSwitch on small instances.                                    *)
(***************************************************************************)
EXTENDS DeploymentSwitch

CONSTANTS d1, d2, p1, p2, w1, w2, uat, prod

\* Every operation in one workspace and one Environment.
AllIn(w) == [d \in Deploys |-> w]
OneWorkspace == AllIn(w1)
OneEnvironment == AllIn(prod)

\* Two workspaces deploy to the same Environment.
TwoWorkspaces == [d \in Deploys |-> IF d = d1 THEN w1 ELSE w2]
=============================================================================
