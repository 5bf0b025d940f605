---------------------------- MODULE MCDevServer -----------------------------
(***************************************************************************)
(* Model-checking instance of DevServer.                                   *)
(***************************************************************************)
EXTENDS DevServer
=============================================================================
