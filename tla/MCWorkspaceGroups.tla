--------------------------- MODULE MCWorkspaceGroups ---------------------------
(* Instances of WorkspaceGroups for TLC; the .cfg files give the constants.  *)
EXTENDS WorkspaceGroups
NoAgents == {}
OneAgent == {"explorer"}
=============================================================================
