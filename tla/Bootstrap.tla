------------------------------- MODULE Bootstrap -------------------------------
(***************************************************************************)
(* What a node knows about the others when it starts: bin/raft-node.rs     *)
(* reads the nodes of the cluster from its configuration, resolves their   *)
(* addresses, which may fail and is tried again for a while, derives their *)
(* PeerIds from their NodeIds and fills the PeerMap through which the      *)
(* Behaviour routes every RPC in both directions.                          *)
(***************************************************************************)
EXTENDS Naturals, Sequences, FiniteSetsExt

CONSTANTS
    NodeIds,    \* the NodeIds that occur
    Configs,    \* the lists of nodes that occur in configurations
    MaxTries    \* attempts to resolve the peers until the deadline

ASSUME IdsAssumption == NodeIds \subseteq Nat
ASSUME ConfigsAssumption == \A c \in Configs : c \in Seq(NodeIds)

VARIABLES
    self,       \* NODE_ID
    config,     \* "cluster" for the file, "legacy" for RAFT_PEERS
    nodes,      \* the ids listed there, in order
    pc,         \* "resolve", "load", "run", "exit"
    tries,
    seed_peers, \* [positions in nodes -> [node_id, peer_id]]
    peer_map

vars == <<self, config, nodes, pc, tries, seed_peers, peer_map>>

\* peer_id_for_node: the key is made from the low byte of the id.  (Different
\* bytes give different keys; the key is represented by the byte.)
PeerIdForNode(n) == n % 256

EmptyMap == [node_to_peer |-> <<>>, peer_to_node |-> <<>>]

Init ==
    /\ self \in NodeIds
    /\ config \in {"cluster", "legacy"}
    /\ nodes \in Configs
    /\ pc = "resolve" /\ tries = 0
    /\ seed_peers = <<>>
    /\ peer_map = EmptyMap

\* The positions of the other nodes in the list.
Others == {k \in DOMAIN nodes : nodes[k] # self}

\* Mutant: a seed gets the key of the node itself.
SeedOfSelf(n) == [node_id |-> n, peer_id |-> PeerIdForNode(self)]

Seed(n) == [node_id |-> n, peer_id |-> PeerIdForNode(n)]

\* ClusterConfig::seed_peers and parse_peers_legacy, if every host resolves.
SeedPeers == [k \in Others |-> Seed(nodes[k])]

\* HashMap::insert of the values under the keys, in order: the last one stays.
InsertAll(keys, values) ==
    [key \in {keys[k] : k \in DOMAIN keys} |->
        values[Max({k \in DOMAIN keys : keys[k] = key})]]

\* PeerMap::from_seeds
FromSeeds(seeds) ==
    LET ids == [k \in DOMAIN seeds |-> seeds[k].node_id]
        peers == [k \in DOMAIN seeds |-> seeds[k].peer_id]
    IN  [node_to_peer |-> InsertAll(ids, peers), peer_to_node |-> InsertAll(peers, ids)]

-----------------------------------------------------------------------------
Exit ==
    /\ pc' = "exit"
    /\ UNCHANGED <<self, config, nodes, tries, seed_peers, peer_map>>

\* seed_peers_with_retry: a host does not resolve.
ResolveFails ==
    /\ pc = "resolve"
    /\ Others # {}
    /\ \/ /\ tries < MaxTries
          /\ tries' = tries + 1
          /\ UNCHANGED <<self, config, nodes, pc, seed_peers, peer_map>>
       \/ tries = MaxTries /\ Exit

\* The seeds are known; the legacy configuration needs nothing more.
Resolve ==
    /\ pc = "resolve"
    /\ seed_peers' = SeedPeers
    /\ pc' = IF config = "cluster" THEN "load" ELSE "run"
    /\ peer_map' = IF config = "cluster" THEN peer_map ELSE FromSeeds(SeedPeers)
    /\ UNCHANGED <<self, config, nodes, tries>>

\* load_from_cluster reads the file again, wants this node to be in it and
\* resolves all hosts once more, now without another try.
LoadFails ==
    /\ pc = "load"
    /\ \A k \in DOMAIN nodes : nodes[k] # self \/ Others # {}
    /\ Exit

Load ==
    /\ pc = "load"
    /\ \E k \in DOMAIN nodes : nodes[k] = self
    /\ pc' = "run"
    /\ peer_map' = FromSeeds(seed_peers)
    /\ UNCHANGED <<self, config, nodes, tries, seed_peers>>

Next == ResolveFails \/ Resolve \/ LoadFails \/ Load

Spec == Init /\ [][Next]_vars

-----------------------------------------------------------------------------
PeerId(n) == peer_map.node_to_peer[n]
NodeId(p) == peer_map.peer_to_node[p]

\* No two NodeIds share a key.
DistinctKeys == \A m, n \in NodeIds : PeerIdForNode(m) = PeerIdForNode(n) => m = n

\* Once a node runs, names mean the same in both directions: an RPC for any
\* other node of the configuration has a peer to go to, what comes from that
\* peer is taken as coming from that node, and no peer is the node itself.
NamesRoundTrip ==
    pc = "run" => \A k \in Others :
        /\ nodes[k] \in DOMAIN peer_map.node_to_peer
        /\ PeerId(nodes[k]) \in DOMAIN peer_map.peer_to_node
        /\ NodeId(PeerId(nodes[k])) = nodes[k]
        /\ PeerId(nodes[k]) # PeerIdForNode(self)
=============================================================================
