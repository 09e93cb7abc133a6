---------------------------- MODULE MCBottomBar ----------------------------
(* BottomBar for TLC.                                                      *)
EXTENDS BottomBar
=============================================================================
