------------------------------- MODULE MCN2NP -------------------------------
(***************************************************************************)
(* Instances of N2NP for TLC.                                              *)
(***************************************************************************)
EXTENDS N2NP, TLC

CONSTANTS c1, c2, c3, r1, r2, u1, u2

OneAbroad == (c1 :> r1) @@ (c2 :> r1) @@ (c3 :> r2)

OneWithout == [c \in Clients |-> IF c = c3 THEN {} ELSE Methods]

OneDirect == [c \in Clients |-> IF c = c1 THEN {RelayId(r2)} ELSE {}]

\* The users of a node are interchangeable; the run checks no liveness.
UserSymmetry == Permutations(Users)
=============================================================================
