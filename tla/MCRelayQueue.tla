---------------------------- MODULE MCRelayQueue ----------------------------
(***************************************************************************)
(* Instances of RelayQueue for TLC: an email to two remote domains and a   *)
(* local one.                                                              *)
(***************************************************************************)
EXTENDS RelayQueue

CONSTANTS g1, g2, g3, e1

MCEntity == [g \in Groups |-> e1]
=============================================================================
