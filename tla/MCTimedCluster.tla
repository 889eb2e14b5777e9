---------------------------- MODULE MCTimedCluster ----------------------------
(* A small cluster with clocks for TLC. *)
EXTENDS TimedCluster, TLC

CONSTANTS n1, n2, n3

MCVoters == {n1, n2, n3}

\* build_config gives every node a timeout of its own, several heartbeats
\* long.
MCTimeouts == n1 :> 3 @@ n2 :> 4 @@ n3 :> 5

\* Either all nodes start together, and an outage may follow, or they start
\* one after the other such that their first deadlines coincide.
MCStarts ==
    {[election |-> MCTimeouts, cuts |-> 0],
     [election |-> [i \in MCVoters |-> 3], cuts |-> MaxCuts]}
=============================================================================
