------------------------------ MODULE MCRpcLayer ------------------------------
(* Small networks for TLC. *)
EXTENDS RpcLayer, TLC

CONSTANTS n1, n2, n3, c1, c2

MCPair == {n1, n2}
MCTrio == {n1, n2, n3}

\* Both nodes dialled: two connections between the same two nodes.
MCTwin == [c \in {c1, c2} |-> {n1, n2}]
MCChain == (c1 :> {n1, n2}) @@ (c2 :> {n2, n3})

MCEverybody == Nodes \X Nodes
=============================================================================
