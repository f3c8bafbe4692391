---------------------------- MODULE MCAgvConnection ----------------------------
(***************************************************************************)
(* AgvConnection with every call of the application, or with those two.    *)
(***************************************************************************)
EXTENDS AgvConnection

MCCalls == {"stop", "restart", "pause", "resume"}
MCPauses == {"pause", "resume"}

=============================================================================
