--------------------------- MODULE MCOrderlyCluster --------------------------
(* The small clusters of MCRaftCluster, with the history of OrderlyCluster. *)
EXTENDS MCRaftCluster, OrderlyCluster
=============================================================================
