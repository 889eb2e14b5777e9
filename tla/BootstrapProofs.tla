---------------------------- MODULE BootstrapProofs ----------------------------
(***************************************************************************)
(* For every configuration whose NodeIds differ in their low byte, a node  *)
(* that runs can tell its peers apart.                                     *)
(***************************************************************************)
EXTENDS Bootstrap, WellFoundedInduction, TLAPS

\* Max of a non-empty, bounded set of naturals is one of them: the set read
\* from its bound downwards has a first element.
LEMMA MaxIsElement ==
    ASSUME NEW S \in SUBSET Nat, S # {}, NEW b \in Nat, \A x \in S : x <= b
    PROVE  Max(S) \in S
<1> DEFINE Less == {ss \in Nat \X Nat : ss[1] < ss[2]}
           T == {n \in Nat : b - n \in S}
<1>1. IsWellFoundedOn(Less, Nat)
  BY NatLessThanWellFounded, Zenon DEF OpToRel
<1>2. ASSUME NEW x \in S PROVE b - x \in T /\ b - (b - x) = x
  OBVIOUS
<1>3. T \in SUBSET Nat /\ T # {}
  BY <1>2
<1>4. PICK n \in T : \A k \in T : ~(<<k, n>> \in Less)
  <2> HIDE DEF Less, T
  <2> QED BY <1>1, <1>3, WFMin
<1>5. ASSUME NEW x \in S PROVE x <= b - n
  <2> SUFFICES ASSUME b - x < n PROVE FALSE
    BY <1>2
  <2>1. <<b - x, n>> \in Nat \X Nat /\ <<b - x, n>>[1] < <<b - x, n>>[2]
    BY <1>2
  <2> QED BY <1>2, <1>4, <2>1, Zenon
<1> QED BY <1>4, <1>5 DEF Max

\* The last position with the same key.
LastWith(keys, k) == Max({j \in DOMAIN keys : keys[j] = keys[k]})

\* It is a position, and it has that key.
LEMMA LastWithFacts ==
    ASSUME NEW keys, NEW b \in Nat, DOMAIN keys \in SUBSET Nat, \A j \in DOMAIN keys : j <= b,
           NEW k \in DOMAIN keys
    PROVE  LastWith(keys, k) \in DOMAIN keys /\ keys[LastWith(keys, k)] = keys[k]
<1> DEFINE S == {j \in DOMAIN keys : keys[j] = keys[k]}
<1>1. S \in SUBSET Nat /\ S # {} /\ \A x \in S : x <= b
  OBVIOUS
<1>2. Max(S) \in S
  <2> HIDE DEF S
  <2> QED BY <1>1, MaxIsElement
<1> QED BY <1>2 DEF LastWith

\* A lookup returns the value inserted last under the key.
LEMMA LookupLast ==
    ASSUME NEW keys, NEW values, NEW k \in DOMAIN keys
    PROVE  /\ keys[k] \in DOMAIN InsertAll(keys, values)
           /\ InsertAll(keys, values)[keys[k]] = values[LastWith(keys, k)]
BY DEF InsertAll, LastWith

\* The peers of a list of nodes can be told apart by the map made from it.
LEMMA SeedsRoundTrip ==
    ASSUME DistinctKeys, self \in NodeIds, nodes \in Seq(NodeIds),
           peer_map = FromSeeds(SeedPeers), NEW k \in Others
    PROVE  /\ nodes[k] \in DOMAIN peer_map.node_to_peer
           /\ PeerId(nodes[k]) \in DOMAIN peer_map.peer_to_node
           /\ NodeId(PeerId(nodes[k])) = nodes[k]
           /\ PeerId(nodes[k]) # PeerIdForNode(self)
<1> DEFINE ids == [j \in Others |-> nodes[j]]
           peers == [j \in Others |-> PeerIdForNode(nodes[j])]
<1>1. /\ Others \in SUBSET Nat /\ Len(nodes) \in Nat
      /\ \A j \in Others : j <= Len(nodes) /\ nodes[j] \in NodeIds /\ nodes[j] # self
  BY DEF Others
<1>2. DOMAIN SeedPeers = Others /\ \A j \in Others : /\ SeedPeers[j].node_id = nodes[j]
                                                     /\ SeedPeers[j].peer_id = PeerIdForNode(nodes[j])
  BY DEF SeedPeers, Seed
<1>3. /\ peer_map.node_to_peer = InsertAll(ids, peers)
      /\ peer_map.peer_to_node = InsertAll(peers, ids)
  <2>1. [j \in DOMAIN SeedPeers |-> SeedPeers[j].node_id] = ids
    BY <1>2
  <2>2. [j \in DOMAIN SeedPeers |-> SeedPeers[j].peer_id] = peers
    BY <1>2
  <2> HIDE DEF ids, peers
  <2> QED BY <2>1, <2>2 DEF FromSeeds
<1>4. /\ ids[k] \in DOMAIN InsertAll(ids, peers)
      /\ LastWith(ids, k) \in Others /\ ids[LastWith(ids, k)] = ids[k]
      /\ InsertAll(ids, peers)[ids[k]] = peers[LastWith(ids, k)]
  <2>1. DOMAIN ids = Others
    OBVIOUS
  <2> HIDE DEF ids, peers
  <2>2. LastWith(ids, k) \in Others /\ ids[LastWith(ids, k)] = ids[k]
    BY <1>1, <2>1, LastWithFacts
  <2> QED BY <2>1, <2>2, LookupLast
<1>5. /\ peers[k] \in DOMAIN InsertAll(peers, ids)
      /\ LastWith(peers, k) \in Others /\ peers[LastWith(peers, k)] = peers[k]
      /\ InsertAll(peers, ids)[peers[k]] = ids[LastWith(peers, k)]
  <2>1. DOMAIN peers = Others
    OBVIOUS
  <2> HIDE DEF ids, peers
  <2>2. LastWith(peers, k) \in Others /\ peers[LastWith(peers, k)] = peers[k]
    BY <1>1, <2>1, LastWithFacts
  <2> QED BY <2>1, <2>2, LookupLast
<1>6. nodes[LastWith(ids, k)] = nodes[k]
  BY <1>4
<1>7. nodes[LastWith(peers, k)] = nodes[k]
  BY <1>1, <1>5 DEF DistinctKeys
<1>8. PeerId(nodes[k]) = PeerIdForNode(nodes[k])
  BY <1>3, <1>4, <1>6 DEF PeerId
<1>9. NodeId(PeerIdForNode(nodes[k])) = nodes[k]
  BY <1>3, <1>5, <1>7 DEF NodeId
<1>10. PeerIdForNode(nodes[k]) # PeerIdForNode(self)
  BY <1>1 DEF DistinctKeys
<1> QED BY <1>3, <1>4, <1>5, <1>8, <1>9, <1>10

\* The seeds and the map of a running node are those of its configuration.
BootInv ==
    /\ self \in NodeIds /\ nodes \in Seq(NodeIds)
    /\ pc = "load" => seed_peers = SeedPeers
    /\ pc = "run" => peer_map = FromSeeds(SeedPeers)

\* When no two NodeIds share a key, names mean the same in both directions on
\* every node that comes to run, whatever failed to resolve on the way and
\* however often an id is listed.
THEOREM NamesAreUnambiguous == DistinctKeys => (Spec => []NamesRoundTrip)
<1> SUFFICES ASSUME DistinctKeys PROVE Spec => []NamesRoundTrip
  OBVIOUS
<1>1. Init => BootInv
  BY ConfigsAssumption DEF Init, BootInv
<1>2. BootInv /\ [Next]_vars => BootInv'
  <2> SUFFICES ASSUME BootInv, [Next]_vars PROVE BootInv'
    OBVIOUS
  <2>1. self' = self /\ nodes' = nodes
    BY DEF Next, vars, ResolveFails, Resolve, LoadFails, Load, Exit
  <2>2. SeedPeers' = SeedPeers
    BY <2>1 DEF SeedPeers, Others, Seed
  <2>3. CASE ResolveFails
    BY <2>1, <2>2, <2>3 DEF BootInv, ResolveFails, Exit
  <2>4. CASE Resolve
    BY <2>1, <2>2, <2>4 DEF BootInv, Resolve
  <2>5. CASE LoadFails
    BY <2>1, <2>2, <2>5 DEF BootInv, LoadFails, Exit
  <2>6. CASE Load
    BY <2>1, <2>2, <2>6 DEF BootInv, Load
  <2>7. CASE UNCHANGED vars
    BY <2>1, <2>2, <2>7 DEF BootInv, vars
  <2> QED BY <2>3, <2>4, <2>5, <2>6, <2>7 DEF Next
<1>3. BootInv => NamesRoundTrip
  BY SeedsRoundTrip DEF BootInv, NamesRoundTrip
<1> QED BY <1>1, <1>2, <1>3, PTL DEF Spec
=============================================================================
