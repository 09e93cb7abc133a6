----------------------------- MODULE MCTopBar -----------------------------
(* TopBar for TLC.                                                         *)
EXTENDS TopBar

(* A local clock that is ahead.                                            *)
MCSkew == -1
=============================================================================
