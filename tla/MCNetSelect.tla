---------------------------- MODULE MCNetSelect -----------------------------
(***************************************************************************)
(* Instances of NetSelect for TLC.                                         *)
(***************************************************************************)
EXTENDS NetSelect, TLC

CONSTANTS a, b, w1, w2

\* The peer a sends twice; b connects and is never heard of.
TwoAndNone == (a :> 2) @@ (b :> 0)
=============================================================================
