----------------------------- MODULE MCKeyValue -----------------------------
(***************************************************************************)
(* Instances of KeyValue for TLC.                                          *)
(***************************************************************************)
EXTENDS KeyValue
=============================================================================
