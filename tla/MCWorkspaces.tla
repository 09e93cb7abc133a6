--------------------------- MODULE MCWorkspaces ---------------------------
(* Workspaces for TLC: three workspace names.                              *)
EXTENDS Workspaces

MCNames == 1..3
=============================================================================
