------------------------------ MODULE MCWriter ------------------------------
(***************************************************************************)
(* Model-checking instance of Writer.                                      *)
(***************************************************************************)
EXTENDS Writer
=============================================================================
