----------------------------- MODULE GatewayMC -----------------------------
(***************************************************************************)
(* Workspaces for Gateway: one that all runs share, as the runs started    *)
(* with the same workspace path do, or one of each caller's own.           *)
(***************************************************************************)
EXTENDS Gateway

OneWorkspace == [c \in Callers |-> "shared"]
OwnWorkspaces == [c \in Callers |-> c]
=============================================================================
