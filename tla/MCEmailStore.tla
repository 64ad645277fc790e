---------------------------- MODULE MCEmailStore ----------------------------
(***************************************************************************)
(* Instances of EmailStore for TLC.                                        *)
(***************************************************************************)
EXTENDS EmailStore, TLC

CONSTANTS c1, c2, c3, m1, m2, m3

MCSize == [m \in Msgs |-> CASE m = m1 -> 1 [] m = m2 -> 2 [] OTHER -> 0]
CallSymmetry == Permutations(Calls)
=============================================================================
