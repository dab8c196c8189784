---------------------------- MODULE MCPvdServer ----------------------------
(* The instance of PvdServer for TLC.                                      *)
EXTENDS PvdServer
=============================================================================
