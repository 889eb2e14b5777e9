------------------------------ MODULE MCBootstrap ------------------------------
(* Configurations of up to three nodes for TLC. *)
EXTENDS Bootstrap, SequencesExt

MCConfigs == BoundedSeq(NodeIds, 3)
=============================================================================
