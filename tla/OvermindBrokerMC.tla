-------------------------- MODULE OvermindBrokerMC --------------------------
(***************************************************************************)
(* Instances of OvermindBroker for TLC.  All jobs are in one group, so     *)
(* that stop and forget can take the group as their target.                *)
(***************************************************************************)
EXTENDS OvermindBroker, TLC

CONSTANT g

MCGroupOf == [j \in Jobs |-> g]

JobSymmetry == Permutations(Jobs)

=============================================================================
