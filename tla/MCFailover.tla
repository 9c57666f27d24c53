------------------------------ MODULE MCFailover ------------------------------
(***************************************************************************)
(* Instances of Failover for TLC.                                          *)
(***************************************************************************)
EXTENDS Failover, TLC

CallSymmetry == Permutations(Calls)
=============================================================================
