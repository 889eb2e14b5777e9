# A verification project for libp2p-raft

TLA+ models of the Raft implementation in this repository, the TLC runs that
check them on small clusters, and theorems that TLAPS proves for clusters of
every size.

## The system

A node is a libp2p `NetworkBehaviour` around a pure Raft engine.

| Part | Source | State | Operations | Talks to |
|---|---|---|---|---|
| Engine | `src/raft/engine.rs` | role, leader hint, votes, `next_index`, `match_index`, `last_ae`, `ae_inflight`, commit and apply index, two deadlines | `tick`, `propose`, `handle_rpc`, `handle_rpc_failure`; each returns `Action`s | storage (calls), Behaviour (actions) |
| Storage | `src/storage/` | hard state, log, snapshot | `persist`, `truncate_from`, `install_snapshot`, reads | called by the engine |
| Behaviour | `src/behaviour.rs` | pending RPCs by correlation id, connections, dials and back-off, inbound channels, wake-up timer | `propose`, swarm events, handler events, `poll` | engine (calls), handler (events), application (`Committed`, `RoleChanged`, `RpcFailed`) |
| Handler | `src/handler.rs` | substreams in progress, inbound channels | one per connection: write a request and read its answer, read a request and write its answer | Behaviour (events), remote handler (frames) |
| Protocol | `src/protocol/` | none | messages, length-prefixed bincode frames | handler |
| Peer map, identity | `src/peer_map.rs`, `src/node_identity.rs` | node id to peer id and back | filled once from the seeds | Behaviour |
| Membership, log freshness | `src/raft/membership.rs`, `src/raft/log.rs` | static voter set | `quorum`, `other_voters`, `log_is_up_to_date` | engine |
| Configuration | `src/config.rs`, `src/cluster_config.rs` | none | parsing, resolving the seeds | binary |
| Binary | `src/bin/raft-node.rs` | `stable_leader_since`, `proposed` | start-up, main loop, `handle_event` | Swarm and Behaviour |
| Snapshots | `src/raft/snapshot.rs` | | comments only | |

What is hard. Every RPC runs on a substream of its own, so two RPCs of one pair
of nodes are not ordered. The sender gives up after `rpc_timeout`, on a stream
failure or when the last connection closes, and does so without knowing whether
the request was handled; heartbeats and elections are the retry. The engine hears
of a failure only as "an AppendEntries to this peer failed", with no term and no
id, and remembers of what it sent only the last `(prev, len)` per peer. Nothing is
on disk: a restarted process is a new node (the repository documents this), so
crash recovery is not a behaviour of this code.

What makes each part correct. Engine: one leader per term, votes that are neither
doubled nor withdrawn, logs that match, a commit that a majority holds and that is
never undone, and every index applied once, in order, with the same entry
everywhere. Storage: positions and stored indices agree, an accepted batch is read
back, `persist` is one update. Behaviour: an answer reaches the request it answers,
a failure frees exactly that request, nothing stays pending for ever, and a lost
connection is dialled again. Timers: no wake-up is lost, a tick only when due, and a
leader eventually, whom everybody catches up with. Identity: names mean the same in
both directions.

## Modules

| Module | Models |
|---|---|
| `MemoryStorage` | the operations of `storage/memory.rs` as functions of a storage value, and `log_is_up_to_date` |
| `StorageMachine`, `MCStorage` | a storage under any sequence of calls; the loop of `persist` as the reference for its closed form |
| `RaftEngine` | the handlers of `engine.rs` as functions from an engine to an engine and the actions it returns |
| `RaftCluster` | engines, pending tables and the network between them: the state machine the cluster runs check |
| `OrderlyCluster` | `RaftCluster` with a history variable: has every office begun without leftovers of an earlier one? |
| `MCRaftCluster`, `MCOrderlyCluster` | voter sets, electors and links for TLC |
| `Leadership` | abstract: votes cast and offices taken, as a public ballot box; `RaftCluster` implements it |
| `RpcLayer`, `MCRpcLayer` | Behaviours and handlers of some nodes with correlation ids, connections, substreams and inbound channels |
| `UnaryRpc` | abstract: what a remote call promises; `RpcLayer` implements it |
| `NodeTimers` | the deadlines, the pending timeouts, the Sleep and `poll` of one node |
| `NodeLoop` | the main loop of the binary around such a node |
| `Dialing`, `MCDialing` | two Behaviours that dial each other, with back-off, and the connections between them |
| `TimedCluster`, `MCTimedCluster` | the engines of a cluster with their clocks, for liveness |
| `Bootstrap`, `MCBootstrap` | start-up: configuration, resolution with retries, identity and `PeerMap` |
| `EngineProofs` | lemmas: minima and maxima, what each operation of the storage and each handler keeps and changes |
| `StorageMachineProofs`, `TimerProofs`, `BootstrapProofs` | the theorems about storage, timers and names |
| `RpcProofs`, `DialingProofs` | the theorems about remote calls and about dialling |
| `ClusterProofs`, `LogProofs` | the theorems about the cluster: elections and single nodes; logs, commit and credit |

`RaftCluster` and `TimedCluster` extend `RaftEngine`, which extends `MemoryStorage`;
`NodeLoop` extends `NodeTimers`; `ClusterProofs` extends `RaftCluster` and
`EngineProofs`, and `LogProofs` extends `ClusterProofs` and `OrderlyCluster`; `StorageMachineProofs` extends
`StorageMachine` and `EngineProofs`. The layers meet through what they promise each other: `RaftCluster`
takes a pending RPC to behave as `UnaryRpc` says, which `RpcLayer` is shown to
implement; `TimedCluster` takes connections to be up, which `Dialing` shows to come
about; both clusters let timers fire when due, which `NodeTimers` shows to happen.

### From the code to the model

* **Engine.** One record per node. A handler of `engine.rs` is one operator of the
  same name; its early returns are the branches of a `CASE` or `IF`. Maps are total
  functions with 0 or `None` for an absent key. `RaftCluster` leaves the deadlines
  out: an election timeout may happen whenever the node is not a leader, a heartbeat
  whenever it is. That allows every schedule the deadlines allow.
* **`persist`.** The loop over a batch is written in closed form (`Written` entries
  are accepted, position k holds the `LastWriter` of k), since a recursive operator
  would put the engine out of the prover's reach. `PersistMatchesLoop` compares the
  closed form with the loop: the run *storage* does so on small batches, and
  `PersistIsItsLoop` proves it of all.
* **RPCs.** `rpcs` holds an RPC from the moment `send_rpc` inserts it into `pending`.
  `waiting` says whether the sender's pending table still has it, `resp` is the answer
  under way. A request that nobody waits for may still arrive (`OnRequestVote`,
  `OnAppendEntries`) or vanish (`RequestLost`); its answer is dropped. Correlation
  ids are abstracted here to "the answer reaches its own pending entry", as `RpcLayer`
  shows. The other thing an id can do, a failure reported under the remote's id, only
  cancels a pending RPC early, which `RpcFails` allows at any time.
* **Sending.** A handler and the `execute_actions` that follows it are one action,
  as they run in one call. For each message the peer turns out to be connected or
  not; if not, `send_rpc` drops the message and calls `handle_rpc_failure` at once.
* **Committed events** are appended to `applied`. `ballots` and `elected` are
  history variables that no action reads; `mixup` becomes true when a leader credits
  a success to another AppendEntries than the one it answers.
* **Failures.** `RpcFails` is a timeout in `poll` or a `Failure` event;
  `ConnectionLost` is `fail_peer_pending`, on the close of the last connection or
  on a dial failure.
* **Substreams** (`RpcLayer`). A call has a stage at each end: `out` for the caller
  (queued in the Behaviour, opening in the handler, sent, and the event it ends with)
  and `inn` for the other side. The queues between Behaviour, handler and wire are
  these stages, so that events of different calls are taken in any order; the code
  keeps some of them in order, which the model does not rely on. A handler dies with
  its end of the connection (`Dropped`), together with its tasks and events.
* **Clocks** (`NodeTimers`, `TimedCluster`, `Dialing`). An `Instant` in the future is
  kept as the time left, 0 once it has passed; the code asks for no more.
* **`poll`** (`NodeTimers`). The Swarm polls the Behaviour until it is Pending before it
  takes the next event of a connection, and polls it after every event; this is how
  libp2p's Swarm works while no handler is too busy to be notified. One poll that
  returns is one action (`PollReady`, `PollIdle`, `PollTick`). `registered` says whether
  the present Sleep has been polled, without which it wakes nobody. What the engine
  makes of an event is reduced to what it does to role and deadlines.
* **The main loop** (`NodeLoop`). A round ends with an event of the Swarm or, after the
  interval fired, when the Swarm has none left; then the loop looks at the role. Between
  two rounds nobody polls the Swarm.
* **Dialling** (`Dialing`). With one peer per node, `dialing`, `dial_backoff_until` and
  `connected` are values. A connection has a dialler and comes up, and goes down, at
  each end on its own; a dial fails at the dialler's end even if the peer has accepted
  it. `TakeDial` has the condition `DisconnectedAndNotDialing`; it may be taken after
  other events of the Swarm, which happens when a handler is busy.
* **Time and messages** (`TimedCluster`). Messages and handlers take less than one unit
  of time: time passes only when nothing is urgent. A node is cut off silently, so its
  RPCs time out; a request that timed out may be lost or arrive when the node is back. One that does
  not fit into a frame is never on the wire. Proposals and cuts happen only when nothing is
  urgent, and an answer that can arrive does so before the next request is handled: these are bounds
  and not properties of the code, and *replication*, *commit* and *pipelining* have the other orders.
* **Start-up** (`Bootstrap`). DNS and files are inputs that succeed or fail. A key is
  represented by the byte it is made from.

Bounds. `MaxTerm` and `Electors` say which elections may start, `MaxLog` how far
leaders propose, `MaxRpc` how many RPCs are under way, `Links` who is ever connected
to whom. A send beyond `MaxRpc` counts as one to an unconnected peer, so the bound
removes no state change, only some deliveries. Deadlock checking is off in the
cluster runs because of these bounds alone: once the last term has been started and
lost, no further election is allowed. It is off in the RPC runs, where the ids that
may be handed out (`MaxId`) and the connections are used up, and in the bootstrap runs,
which end. It is on in all others.

*timed* has bounds of its own: how the nodes start and how often one is then cut off
(`Starts`, `MaxCuts`, `MaxOutage`), and how many requests are under way that nobody waits for
(`MaxLate`); beyond these a request that timed out is lost. A node at `MaxTerm` does not stand
again, but the clocks go on and its deadline stays overdue, which `StableLeader` would report:
no behaviour of the run needs a term above 5, and the states are the same with a greater
`MaxTerm`.

## Runs

| Run | Instance | Checks |
|---|---|---|
| *replication* | 3 nodes, 3 terms by turns with rivals in the first, 2 entries, 1 RPC | `TypeOK`, `ElectionInv`, `LogMatching`, `CommitSafety`, `LeaderAppendOnly` |
| *commit* | 3 nodes, 4 terms by turns with rivals in the first, 1 entry, 1 RPC | `ElectionSafety`, `MatchIsReplicated`, `CommitSafety`, `CommittedPrefixStable`, `VoteStability` |
| *pipelining* | 2 nodes, 3 terms open to all, 2 entries, 2 RPCs | `LeaderHint`, `LeaderBookkeeping`, `AckedIsStored`, `AppliedWithoutGaps`, `EveryBatchFits`, `InflightIsPending`, `NoSilentStepDown`, `CreditsMatch`, `ElectsByBallot` |
| *storage* | batches of up to 3 entries, indices 0 to 4, 2 terms | `SlotHoldsItsIndex`, `PersistMatchesLoop`, `AcceptedBatchIsReadBack` |
| *rpc_calls* | 2 nodes calling each other, 2 connections, 1 call each | `TypeOK`, `CallsAreUnary` |
| *node* | election timeout 5, heartbeat 2, RPC timeout 3, 2 pending RPCs, stable time 6 | `TypeOK`, `NoLostWakeup`, `DeadlinesAreServed`, `HelloAfterStableLead` |
| *dialing* | 2 nodes, 2 breaks, 2 failing dials, 2 connections each way | `DialIsUnderWay`, `PendingIsConnected`, `EventuallyConnected` |
| *timed* | 3 nodes, election timeouts 3, 4 and 5, heartbeat 1, RPC timeout 2, 2 entries, 1 request that arrives late; an outage of up to 4, or first deadlines that coincide | `StableLeader`, `EveryoneCatchesUp` |
| *bootstrap* | lists of up to 3 of the ids 1, 2, 3, 256, two retries | `NamesRoundTrip` |
| *applied_diverge* (violated) | 3 nodes in a ring, 4 terms, 1 entry, 2 RPCs | `StateMachineSafety` |
| *tick_due* (violated) | timeouts 4, 2 and 3, 2 pending RPCs | `TickMovesDeadline` |
| *rpc_foreign* (violated) | 3 nodes in a chain, 1 call each | `FailuresMatch` |

Why the bounds are enough. Two RPCs are the least with which messages overtake each
other, three nodes the least with a majority that is not everyone, three terms the
least in which a deposed leader returns, four the least for figure 8 of the Raft
paper (an old entry on a majority that is overwritten after all). The runs with
terms "by turns" let n1 start the odd terms and n2 the even ones: two rivals are
what the commit rule must survive, and a third candidate only multiplies states. In
*replication* and *commit* both may also stand in the first term, and n2 never reaches
n1, so that n3 decides between them. *replication* has the two entries that a conflict
below the end of a log takes, *commit* the fourth term. In *applied_diverge* each node
reaches one other, which is all the counterexample needs. In *pipelining* successes are
credited wrongly too (TLC violates `~mixup` there), so that `CreditsMatch` says something.
With one RPC at a time messages are still lost, repeated and handled after the
sender gave up, but do not overtake each other; *pipelining* covers that for two nodes,
and the theorems below for any number.

In *rpc_calls* one call each way is enough for a failure under the remote's number and
for every race of an answer with a timeout, a dial failure and the close of either of
two connections; calls meet each other only through ids and connections. Both nodes are in
each other's peer map there; `CallsEndOnce` holds with any `Knows`. In *node* two
RPCs of different age and three different timeouts are the least with which each of
the three deadlines can be the earliest. *dialing* has more than one break and one
failed dial, so that a second one meets what the first has left behind, and room for
dials from both sides at once. In *timed* the outage is as long as the second longest election
timeout: long enough for the others to elect and for the lost node to run ahead in
terms. Two entries are the least after which a new leader, which starts at its own last entry, is rejected
twice by a node that has none (the mutant of `EveryoneCatchesUp`, a `next_index` that goes
back only once, is not found with one entry). The first deadlines that coincide make all three
stand at once, as a tie that only their different timeouts break. The timeouts keep the order the binary ships with: heartbeat, RPC timeout and the
shortest election timeout in that order, and election timeouts that differ from node to
node by at least one heartbeat (`build_config`). In *node* the stable time exceeds the election
timeout, so that a leadership can be lost and won again within it.

In all cluster runs `Data` has one payload: entries are told apart by index and term.

What the properties say is written above each of them in `RaftCluster` and
`StorageMachine`. `CommitSafety`, `MatchIsReplicated` and `CommittedPrefixStable` are
stated for behaviours in which no success has been credited to another AppendEntries,
since *applied_diverge* shows that they fail otherwise. `CallsAreUnary` is `UnaryRpc`, which has no liveness: that a pending call does
end, by its timeout at the latest, is checked of the timers (`DeadlinesAreServed`).

### Fairness

* `RpcLayer`, as all the cluster runs but *timed*: none, their properties are safety.
* `NodeTimers`, `NodeLoop`: time passes, the runtime polls a node that was woken, and `main`
  goes on after a round. That a sleeping
  node is woken is not assumed but is what `NoLostWakeup` and `DeadlinesAreServed` check.
* `Dialing`: the Swarm takes dials and reports connections, and `SendRpc` happens over and
  over, since a node without a leader comes to its election timeout again and again and a
  leader to its heartbeat. A dial that the network does not make fail succeeds; breaks and
  failures are finite, as liveness needs them to be.
* `TimedCluster`: time passes, an outage ends, and urgent work (ticks, deliveries, failures)
  is done. The last is weak fairness of these actions together, with the enabling
  condition written out (`Urgent`), which TLC evaluates much faster than `ENABLED` of the
  handlers. Nobody has to propose.

`StableLeader` and `EveryoneCatchesUp` hold under these timings only: messages faster than
the heartbeat, and timeouts that differ. With equal timeouts the vote can be split for ever,
since the jitter is a constant per node and is not drawn again; this is the mutant of
`StableLeader`, `ResetElectionDeadlineInStep`. A leader adds no entry of its own on taking office, so entries of earlier
terms are only committed with its first proposal; `EveryoneCatchesUp` says accordingly
"once the log has an entry of the leader's term". A follower may keep an uncommitted
suffix beyond the leader's log until then.

### Disagreements with the code's own claims

Three runs end in a violation; the observations after them are smaller, or concern what the code
does not do.

1. **Two nodes apply different entries** (*applied_diverge*). `become_follower` and
   `become_leader` clear `ae_inflight` and `last_ae`, but the AppendEntries of the earlier
   leadership is still in the Behaviour's pending table. If the node leads again before
   that request fails, the failure (`handle_rpc_failure`, which has no term) frees the peer
   although the new leadership has an AppendEntries under way. A heartbeat or a proposal
   then sends a second one and overwrites `last_ae`, and the success of the first, an empty
   one say, is credited with the entries of the second, against the comment at
   `engine.rs:537`. `match_index` is now past what the peer holds, `maybe_commit` commits an
   entry that only the leader has, and a later leader commits another one in its place:
   against `docs/architecture.md:19`, two nodes apply different entries at index 1. A quick
   return to leadership is no rarity: a deposed leader's election deadline lies in the
   past, as it is not reset while it leads. The leftover is the only way in: the theorems
   `OrderlyCredits` and `OrderlyIsSafe` show that nothing goes wrong as long as no leader
   has an AppendEntries of an earlier office in its pending table. The code does not see
   to that; dropping these entries where `ae_inflight` is cleared would.
2. **A leader's poll spins** (*tick_due*). `next_deadline` of a leader includes an election
   deadline that nothing moves while it leads. Once it has passed, every poll calls
   `tick`, which does nothing, and arms a Sleep of no length; README.md:163 says that `tick`
   is called only when due. Heartbeats are still sent in time (*node*), at the price of a
   busy loop.
3. **A failure under the remote's id** (*rpc_foreign*). A handler that cannot write its
   answer reports the id of the request it was answering; the Behaviour takes it as one of
   its own and fails whatever call has that number, even one to a third node. The engine
   tolerates the failure of a live call (`UnaryRpc` allows a failed call to be handled), but
   the wrong peer is freed for another AppendEntries, which is one more way into 1.

Further observations. Two show when the constants of a run are changed as stated (6 and 9); the others are
steps the models contain, or lack as the code does.

4. **One voter never leads.** The quorum is tested when the answer of another voter arrives
   (`HandleRequestVoteResp` of `RaftEngine`), so a single voter stays a candidate and starts
   elections for ever, against `docs/architecture.md:21`.
5. **A stranger's request is kept.** For a peer that is not in the map
   `on_connection_handler_event` returns early, past the line that drops the channel "to
   avoid leak" (`behaviour.rs:487`). The sender stays in `response_txs`, and its task waits:
   from the stage `"unanswered"` of `RpcLayer` only `ConnectionClosed` leads on.
6. **One byte of the node id.** Ids that agree modulo 256 share a key and thereby a
   `PeerId`; the peer map then gives requests of one node to the other (`NodeIds = {1, 2, 257}`
   in `Bootstrap.cfg` violates `NamesRoundTrip`).
7. **Closing one of two connections** fails nothing (`ConnectionClosed` of `RpcLayer`): the
   RPCs on it wait for the timeout, though `docs/handler-behaviour-engine-en.md:577` says that
   they are failed.
8. **Back-off of a connected peer** (`TakeDial` and `DialFails` of `Dialing`). A dial that
   fails, or that the Swarm refuses because the peer has connected meanwhile, sets the
   back-off all the same and fails the RPCs on the live connection. If that connection is
   lost within five seconds the peer is not redialled until they are over. *dialing* shows
   that it is, then.
9. **A follower beyond one frame.** The missing suffix goes into a single AppendEntries.
   Once it exceeds 4 MiB it cannot be written, now or later; the peer hears nothing of the
   leader, times out, and its higher term deposes the leader. With `MaxFrame = 1` in `Timed.cfg`
   both properties of the run are violated.
10. **`persist` is not atomic** (`Persist` of `StorageMachine`). It replaces the hard state and
    writes entries up to the first bad index, then returns an error. No batch the engine
    builds is refused (`EveryBatchFits`), so this concerns the contract the documents give
    `Storage`, not the engine's present behaviour.
11. **No retries.** README.md:120 says that a timeout is retried up to `rpc_max_retries` times
    before the engine hears of it. `poll` fails the RPC at the first timeout (`behaviour.rs:530`,
    "no retry"), and nothing reads `rpc_max_retries`. The models do as the code does; the
    next heartbeat or election is the retry.

## Theorems

Proved with TLAPS for every finite set of voters, every `Data` and every value of
the bounds: any number of terms, entries and RPCs under way, lost, late, repeated and
overtaking each other. The assumptions are `VotersAssumption` (finitely many voters),
`NoneAssumption` and `NoneIsAbsent` (`None` is no node id, no remembered AppendEntries and
no answer), `BoundsAssumption` and `StorageBounds` (the bounds have their types); for the
timers `TimeoutsAssumption` (timeouts are at least 1) and `StableAssumption` (the stable
time is a number and `None` is not), for start-up `IdsAssumption` and `ConfigsAssumption`, for
remote calls `IdsAssumption` (`MaxId` is a number), and for dialling `NodesAssumption`
(two nodes) and `BoundsAssumption`.

| Theorem | States |
|---|---|
| **`ClusterProofs`** | *of `RaftCluster`* |
| `TypeCorrect` | `Spec => []TypeOK` |
| `ElectionInvariant` | `Spec => []ElectionInv` |
| `AtMostOneLeaderPerTerm` | `Spec => []ElectionSafety` |
| `VotesAreStable` | `Spec => VoteStability` |
| `HintsAreLeaders` | `Spec => []LeaderHint` |
| `ImplementsLeadership` | `Spec => ElectsByBallot`: `RaftCluster` implements `Leadership` |
| `BatchesFit` | `Spec => []EveryBatchFits` |
| `BooksAreConsistent` | `Spec => []LeaderBookkeeping` |
| `MarksArePending` | `Spec => []InflightIsPending` |
| `OnlyLeadersKeepBooks` | `Spec => []NoSilentStepDown` |
| `AppliesInOrder` | `Spec => []AppliedWithoutGaps` |
| `LeadersOnlyAppend` | `Spec => LeaderAppendOnly` |
| **`LogProofs`** | *of `RaftCluster`, the last three of `OrderlyCluster`* |
| `LogInvariant` | `Spec => []LogInv`, the inductive invariant about logs |
| `LogsMatch` | `Spec => []LogMatching` |
| `AcksAreStored` | `Spec => []AckedIsStored` |
| `BooksAreTrue` | `Spec => []MatchIsReplicated` |
| `CommitsAreSafe` | `Spec => []CommitSafety` |
| `CommittedPrefixStays` | `Spec => CommittedPrefixStable` |
| `CreditInvariant` | `OrderlySpec => [](orderly => NoLeftovers /\ CreditInv)`, the inductive invariant about credit |
| `OrderlyCredits` | `OrderlySpec => []CreditsMatch` |
| `OrderlyIsSafe` | `OrderlySpec => [](orderly => StateMachineSafety)` |
| **`StorageMachineProofs`** | *of `StorageMachine`* |
| `SlotsHoldTheirIndex` | `Spec => []SlotHoldsItsIndex` |
| `AcceptedBatchesAreReadBack` | `Spec => []AcceptedBatchIsReadBack` |
| `PersistIsItsLoop` | `Spec => []PersistMatchesLoop` |
| **`TimerProofs`** | *of `NodeTimers` and `NodeLoop`* |
| `TimersTyped` | `[]TypeOK`, of `Spec` and of `LoopSpec` |
| `WakesInTime` | `[]NoLostWakeup`, of `Spec` and of `LoopSpec` |
| `HelloIsStable` | `LoopSpec => HelloAfterStableLead` |
| **`BootstrapProofs`** | *of `Bootstrap`* |
| `NamesAreUnambiguous` | `DistinctKeys => (Spec => []NamesRoundTrip)` |
| **`RpcProofs`** | *of `RpcLayer`* |
| `RpcInvariant` | `Spec => []RpcInv`, the inductive invariant about calls |
| `RpcTyped` | `Spec => []TypeOK` |
| `CallsEndOnce` | `Spec => CallsAreUnary`: `RpcLayer` implements `UnaryRpc` |
| **`DialingProofs`** | *of `Dialing`* |
| `DialInvariant` | `Spec => []DialInv`, types and the next two |
| `DialingEnds` | `Spec => []DialIsUnderWay` |
| `PendingNeedsConnection` | `Spec => []PendingIsConnected` |

### Elections

`EngineProofs` has one lemma per handler: it keeps the engine's type,
and either casts no vote (`CastsNoVote`: same hard state, or a later term without a
vote) or says which one. `ClusterProofs` lifts them to one lemma per action and sums
them up in `StepKinds`: every step keeps `TypeOK` and is quiet, a candidate's own vote,
a granted vote, or the counting of a grant. Each invariant about votes is then proved
against these four kinds only.

`ElectionSafety` is not inductive: it speaks of elections won and not of votes.
`ElectionInv` adds where votes are: each ballot is in the voter's hard state while the
term lasts (`VotesArePersisted`), so a voter has one per term (`OneVotePerTerm`); what
a candidate has counted and what an answer under way grants are ballots
(`CountedVotesWereCast`, `GrantsWereCast`); each election has a quorum of ballots
(`ElectedByQuorum`). Two quorums share a voter, hence two leaders of a term are one.
`LeaderHint` needs that leaders and the senders of AppendEntries, however old, were
elected (`LeadersWereElected`, `SendersWereElected`).

`ImplementsLeadership` maps `ballots` and `elected` to themselves and `Majorities` to the
sets of at least `Quorum` voters. Of the four kinds of step, a vote is a `CastVote` because
`VotesArePersisted` puts the voter's earlier ballots into earlier terms, the counting of
a grant that completes a quorum is an `Elect` because what was counted was cast, and
the others stutter.

### A node by itself

For everything else a step is summed up once more: `StepsAreNodeSteps` shows every step to be
a `NodeStep(i)` of some node i, which says what i does to its log, its books, its marks, its
commit index, the requests and the answers. `NodeInv` is what such steps keep of single
nodes and single RPCs: entry k of a log has index k; non-leaders have no books and the books
of leaders fit the log (`NodesOk`); requests are consecutive and answers are of the
request's kind and of no earlier term (`RpcsOk`); a busy mark goes with a `last_ae` and with a
pending AppendEntries of the present term (`MarksOk`); what was handed out is as long as the
commit index and has no gap (`AppliedOk`). `InflightIsPending` alone is not inductive: a
stale answer takes an AppendEntries of an earlier leadership out of the pending table and leaves
the mark, so the mark must be known to stand for a request of the present term. Nor is `LeaderBookkeeping`, which needs the
consecutive indices of log and request for `Matched`.

`BatchesFit` follows from `NodesOk` and `RpcsOk`: the first entry of a request that is not in the log yet
is one past the log once the conflicting suffix is gone, and as indices are consecutive so are all that
follow it (`RestContinues`); a batch that continues a log is written to its end
(`ContinuingBatchIsWritten`).

### Logs and commit

The usual proof of Raft speaks of the logs that earlier leaders had and of what nodes
acknowledged in earlier terms, which the state forgets. Instead of adding variables to the
model, the invariant says that such logs and tallies exist:

    LogInv == \E h \in Histories : \E a \in Tallies : Explained(h, a)

`h[T]` is the log of the leader of term T, `a[v][T]` how much of it node v has acknowledged. A
step of a leader sets `h` of its term to its new log; a step that leads or accepts raises the
tally. `Explained` has four parts.

* `LedLogs`: up to each of its entries a log is that of the entry's leader, and AppendEntries of
  whatever age are fragments of their leader's log. The conflict check of
  `handle_append_entries` compares terms only; this is why that is enough. `LogsMatch` follows.
* `TallyInv`: what a node acknowledged within its term is in its log, every success under way is
  accounted for, and `match_index` is no more than the tally. The last is where `mixup` comes in:
  a success credited to another AppendEntries breaks it and nothing else in this part.
  `AcksAreStored` and `BooksAreTrue` follow.
* `SafeInv`: leader completeness, stated of every entry that a quorum has acknowledged *or still
  could* (`Stands`: each of some quorum has acknowledged it or has not left the term). A
  later leader has it (`LaterLeadersHold`), whoever acknowledged it keeps it (`TalliedIsKept`), and
  candidates have what their voters acknowledged (`CandidatesHold`, with `VoteRequestsTell`: a
  request describes the candidate's log as long as the candidacy lasts). Only entries of the
  leader's own term are meant, as in the commit rule. "Still could" makes it inductive without
  naming the moment of the commit, and a step can only make fewer old entries stand.
* `CommitInv`: each commit index, of a node or in a request, is backed by an entry that a quorum has
  acknowledged and that the log agrees with. `CommitsAreSafe` and `CommittedPrefixStays` follow.

`LogsMatch`, `AcksAreStored` and `LaterLeadersHold` hold with or without `mixup`. The other three
theorems are conditional on it by their definitions, as the run *applied_diverge* shows they
must be: together they say that, restarts aside, the wrong credit is the only way in which this
code loses a committed entry.

### Credit

The engine keeps one `last_ae` and one mark per peer, and no id. When is that enough? `OrderlyCluster`
adds a history variable to `RaftCluster`: `orderly` stays true as long as no leader has an AppendEntries
of an earlier office of its own in the pending table (`NoLeftovers`). The code does not keep it true:
in disagreement 1 it becomes false before anything else goes wrong. While it is true `CreditInv` holds:

* `Credits`: an AppendEntries that a leader awaits is marked in `ae_inflight`, is the one that
  `last_ae` remembers, and is the only one to its peer;
* `AnswersAwaited`: an answer under way is to an RPC that is still pending;
* `SentByLeader`: the `leader_id` of an AppendEntries is its sender.

Each sending handler sends only to peers without a mark, of which by `Credits` no AppendEntries is
awaited, and marks and remembers what it sends (`SendsFrom`). A failure, a late answer and a reject
take the one awaited RPC out together with its mark. Where a node takes office its books are empty, and
`NoLeftovers` says that so is its part of the pending table: an AppendEntries of the new term would
have needed a leader of that term before, and the office is new. The hypothesis is used once
more where an answer arrives: the request it answers is of the leader's present term, so the answer is
not discarded as old while its mark stays. `OrderlyCredits` follows at once, and `OrderlyIsSafe` with `CommitsAreSafe`,
since the history variable does not restrict the cluster (`OrderlyIsSpec`).

### Remote calls and dialling

`CallsEndOnce` maps a call to unsent, open, answered or failed, from the number given out, the pending table and
the answers taken (`Status`), and shows every step of the Behaviours, handlers and connections to be a
step of `UnaryRpc` or a stutter. That needs three facts which `RpcInv` adds to the types.
`StagesFit`: the two ends of a substream are in stages that fit each other and the number of
times the request was handled; so an answer that arrives was made by the remote engine, and a request
is not handed to it twice. `FreshIsUnused`: a number that was not given out is in no table and
on no substream, so a new call does not meet an old one's answer. And an answered call is no
longer pending, so it does not fail afterwards, nor is it answered again. A step that fails
calls may fail any set of them at once (the close of a connection, a dial failure, a foreign id), which is
why `Fail` of `UnaryRpc` takes a set.

`DialInv` is the two invariants of `Dialing` with types; they are inductive together. The mark
`dialing` is set only with a Dial queued, a Dial that the Swarm takes starts an attempt or clears
the mark, and an attempt ends with the mark. Pending RPCs are failed with the last connection.

### Storage, timers and names

`SlotsHoldTheirIndex` rests on `WriteEntriesType`: a position that no accepted entry
of a batch wrote lies within the old log, by a least-counterexample argument over the
batch. `AcceptedBatchesAreReadBack` adds that of the entries of a batch with one index the last is
found there, and that nothing below the lowest index is touched. `PersistIsItsLoop` compares the closed form with the
loop after each turn: the least turn after which they differ is not the first state, and one turn of the
loop (`LoopStep`) does to the log what one more entry does to `Written` and `LastWriter`. The loop is a
recursive function on the turns, so its defining equation is all that the argument needs.

`NoLostWakeup` is not inductive, for it speaks of sleeping nodes only. `WakeInv` says at all times
that the Sleep is no later than any deadline (`SleepCovers`), and that a node asleep has polled
it. Every step of the main loop is a step of the node or leaves it alone (`LoopSteps`), so
the results carry over from `NodeTimers` to `NodeLoop`.

`HelloIsStable` needs that the event that ended a leadership is seen before the node leads again.
`HelloInv`: while such an event is queued the node neither leads nor sleeps, and otherwise what
the loop measures is no longer than the node has led. A node takes office only on an answer, which
the Swarm passes on only after the queue has been emptied.

`NamesAreUnambiguous` is proved from the invariant that a running node's map is
`FromSeeds(SeedPeers)`; in the map the last seed with a key is the one that stays, and with
distinct keys all seeds with that key are of one node. `DistinctKeys` is a hypothesis and not
an assumption of the module, so that TLC can also be run where it fails (observation 6).

### Only model-checked

`DeadlinesAreServed`, `EventuallyConnected`, `StableLeader` and `EveryoneCatchesUp` are liveness under fairness, which is beyond this prover. Every invariant and every
action property of a passing run has a theorem.

## Not modelled

* The bytes of a frame: encode and decode are inverse functions without state. The limit
  on the length of a frame is in `TimedCluster`.
* TOML, DNS, environment variables, Swarm set-up, listening and printing.
* The examples, which repeat the binary's loop for several nodes in one process.
* Restarts: the only storage loses everything, so a restarted node violates what Raft
  requires of it by design (the repository's README: "process restart still loses all
  state").
* Snapshots and membership changes: the engine has neither. `install_snapshot` of the
  storage is in `StorageMachine`.
* Overflow of `u64` indices, terms and ids, which would take longer than a node runs.
* `outbound_in_flight` of the handler, which is counted and never read.

Four hazards in `PROJECT.json` have a note and no property. About the second resolution of the
hosts at start-up the repository promises nothing. The other three are the observations 4, 5
and 9, where the code does what the property would forbid.

## Plan

Every module and every theorem that was planned is there. What would be worth adding as the code grows:
stable storage with restarts (then votes and logs must survive a crash between two handlers),
snapshots once the engine takes them, and, if the pending table is cleared together with
`ae_inflight`, a `RaftCluster` in which `NoLeftovers` is a theorem and `orderly` is always true.

## Running

    tlc -config Commit.cfg MCRaftCluster         # also Replication.cfg, AppliedDiverge.cfg
    tlc -config Pipelining.cfg MCOrderlyCluster
    tlc -config Storage.cfg MCStorage
    tlc -config Timed.cfg MCTimedCluster         # PROJECT.json names the module of each cfg
    tlapm ClusterProofs.tla                      # and the other *Proofs modules
