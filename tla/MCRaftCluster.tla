---------------------------- MODULE MCRaftCluster ----------------------------
(* Small clusters for TLC. *)
EXTENDS RaftCluster, TLC

CONSTANTS n1, n2, n3

MC1Voter == {n1}
MC2Voters == {n1, n2}
MC3Voters == {n1, n2, n3}

\* Every election timer may start every term.
MCAnyone == [t \in 1 .. MaxTerm |-> Voters]

\* n1 and n2 take turns.  With four terms this is the shape of figure 8 of
\* the Raft paper, which maybe_commit cites.
MCTakingTurns == [t \in 1 .. MaxTerm |-> IF t % 2 = 0 THEN {n2} ELSE {n1}]

\* The same after a first term in which both may stand.
MCRivals == [MCTakingTurns EXCEPT ![1] = {n1, n2}]

MCAllLinks == Voters \X Voters

\* Each node reaches one other.  n1 leads with the vote of n2, is deposed by
\* n3, leads again, and is followed by n2 with the vote of n3.
MCRing == {<<n1, n2>>, <<n2, n3>>, <<n3, n1>>}
MCReturning == <<{n1, n3}, {n3}, {n1}, {n2}>>

\* n2 never reaches n1: both rivals can win n3 and overwrite its log, and n1
\* can overwrite n2's.
MCNoReturn == {<<n1, n2>>, <<n1, n3>>, <<n2, n3>>}

\* Nodes are interchangeable: no action or property compares their ids.
VoterSymmetry == Permutations(Voters)
=============================================================================
