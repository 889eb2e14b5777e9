----------------------------- MODULE TimedCluster -----------------------------
(***************************************************************************)
(* The cluster with its clocks: the handlers of RaftEngine together with   *)
(* the two deadlines of engine.rs and the timeout of behaviour.rs, so that *)
(* one can ask whether a leader is ever found and kept.                    *)
(*                                                                         *)
(* A deadline is the time left, 0 when it has passed.  Messages and        *)
(* handlers take less than one unit of time: time passes only when no node *)
(* and no message can do anything.  The network may cut off one node at a  *)
(* time, silently; requests to and from it stay unanswered until they time *)
(* out or the node is back.  Connections are up throughout (Dialing shows  *)
(* that nodes connect).                                                    *)
(***************************************************************************)
EXTENDS RaftEngine

CONSTANTS
    ElectionTimeout,    \* [Voters -> Nat]: election_timeout + election_jitter
    HeartbeatInterval,
    RpcTimeout,
    MaxFrame,           \* entries that fit into one frame
    MaxTerm,            \* nobody stands for a higher term: its deadline stays overdue
    Starts,             \* how the nodes may start
    MaxLog,             \* a leader proposes no entry above this index
    MaxLate,            \* requests under way that nobody waits for
    MaxCuts,            \* how often a node is cut off
    MaxOutage           \* how long a node is cut off

ASSUME TimesAssumption ==
    /\ ElectionTimeout \in [Voters -> Nat \ {0}]
    /\ HeartbeatInterval \in Nat \ {0} /\ RpcTimeout \in Nat \ {0}
    /\ Starts \subseteq [election : [Voters -> Nat], cuts : 0 .. MaxCuts]

VARIABLES
    eng,                    \* [Voters -> Engine]
    election, heartbeat,    \* [Voters -> Nat]: the engine's deadlines
    rpcs,                   \* RPCs that are pending at the sender or still travelling
    cut,                    \* the node that is cut off, or None
    cuts, outage            \* used up of the network's bounds

vars == <<eng, election, heartbeat, rpcs, cut, cuts, outage>>
network == <<cut, cuts, outage>>

\* Nodes start one after the other: some of a node's timeout may be over when
\* the last one starts.  A start may leave fewer cuts (a bound).
Init ==
    /\ eng = [i \in Voters |-> NewEngine]
    /\ \E start \in Starts : election = start.election /\ cuts = start.cuts
    /\ heartbeat = [i \in Voters |-> HeartbeatInterval]
    /\ rpcs = {}
    /\ cut = None /\ outage = 0

-----------------------------------------------------------------------------
(* Deadlines.                                                              *)

\* Mutant: what tells the timeouts of the nodes apart is left out.
ResetElectionDeadlineInStep(i) ==
    election' = [election EXCEPT ![i] = Max({ElectionTimeout[j] : j \in Voters})]

ResetElectionDeadline(i) == election' = [election EXCEPT ![i] = ElectionTimeout[i]]

Less(t) == IF t = 0 THEN 0 ELSE t - 1

-----------------------------------------------------------------------------
(* RPCs.                                                                   *)

Reachable(r) == cut \notin {r.from, r.to}

\* A request that does not fit into a frame is never on the wire: its stream
\* fails when it is written.
FitsFrame(r) == r.req.kind = "AppendEntries" => Len(r.req.entries) <= MaxFrame

\* "waiting": the sender's pending table still holds the RPC, for the time
\* "left".  Equal requests that nobody waits for any more count as one.
Opened(i, sends) ==
    {[from |-> i, to |-> s.to, req |-> s.msg, resp |-> None,
      waiting |-> TRUE, left |-> RpcTimeout] : s \in sends}

Late == {r \in rpcs : ~r.waiting}

Failing(r) == r.waiting /\ (r.left = 0 \/ ~FitsFrame(r))

-----------------------------------------------------------------------------
(* poll: tick and the timeouts.                                            *)

TickElection(i) ==
    LET e == StartElection(eng[i], i) IN
    /\ eng[i].role # Leader /\ election[i] = 0
    /\ CurrentTerm(e) <= MaxTerm
    /\ eng' = [eng EXCEPT ![i] = e]
    /\ ResetElectionDeadline(i)
    /\ rpcs' = rpcs \cup Opened(i, {[to |-> p, msg |-> VoteRequest(e, i)] : p \in OtherVoters(i)})
    /\ UNCHANGED <<heartbeat, network>>

TickHeartbeat(i) ==
    LET s == SendAppendEntries(eng[i], i, OtherVoters(i)) IN
    /\ eng[i].role = Leader /\ heartbeat[i] = 0
    /\ eng' = [eng EXCEPT ![i] = s.eng]
    /\ heartbeat' = [heartbeat EXCEPT ![i] = HeartbeatInterval]
    /\ rpcs' = rpcs \cup Opened(i, s.sends)
    /\ UNCHANGED <<election, network>>

\* fail_pending, for a timeout and for a stream that fails: only the place in
\* the pending table goes.  A request on the wire may be lost or arrive late;
\* an answer is not awaited any more.
RpcFails(r) ==
    /\ Failing(r)
    /\ \E late \in SUBSET {x \in {r} : x.resp = None /\ FitsFrame(x)} :
          /\ Cardinality(Late \cup late) <= MaxLate
          /\ rpcs' = (rpcs \ {r}) \cup {[x EXCEPT !.waiting = FALSE, !.left = 0] : x \in late}
    /\ eng' = [eng EXCEPT ![r.from] = HandleRpcFailure(@, r.to, r.req.kind)]
    /\ UNCHANGED <<election, heartbeat, network>>

-----------------------------------------------------------------------------
(* Requests and answers.                                                   *)

\* The answer to a late request is dropped.
Answered(r, reply) ==
    (rpcs \ {r}) \cup {x \in {[r EXCEPT !.resp = reply]} : x.waiting}

\* The election deadline moves when a vote is granted.
OnRequestVote(r) ==
    LET h == HandleRequestVote(eng[r.to], r.req) IN
    /\ r.resp = None /\ r.req.kind = "RequestVote"
    /\ eng' = [eng EXCEPT ![r.to] = h.eng]
    /\ rpcs' = Answered(r, h.reply)
    /\ IF h.reply.vote_granted THEN ResetElectionDeadline(r.to) ELSE UNCHANGED election
    /\ UNCHANGED <<heartbeat, network>>

\* The election deadline moves on contact from the leader of this term or a
\* later one, even if the request is rejected.
OnAppendEntries(r) ==
    LET h == HandleAppendEntries(eng[r.to], r.req) IN
    /\ r.resp = None /\ r.req.kind = "AppendEntries"
    /\ eng' = [eng EXCEPT ![r.to] = h.eng]
    /\ rpcs' = Answered(r, h.reply)
    /\ IF r.req.term >= CurrentTerm(eng[r.to]) THEN ResetElectionDeadline(r.to)
       ELSE UNCHANGED election
    /\ UNCHANGED <<heartbeat, network>>

OnRequestVoteResp(r) ==
    LET i == r.from
        e == HandleRequestVoteResp(eng[i], i, r.to, r.resp)
    IN
    /\ r.resp # None /\ r.resp.kind = "RequestVoteResp"
    /\ eng' = [eng EXCEPT ![i] = e]
    /\ rpcs' = rpcs \ {r}
    /\ IF eng[i].role # Leader /\ e.role = Leader
       THEN ResetElectionDeadline(i) /\ heartbeat' = [heartbeat EXCEPT ![i] = HeartbeatInterval]
       ELSE UNCHANGED <<election, heartbeat>>
    /\ UNCHANGED network

OnAppendEntriesResp(r) ==
    LET h == HandleAppendEntriesResp(eng[r.from], r.from, r.to, r.resp) IN
    /\ r.resp # None /\ r.resp.kind = "AppendEntriesResp"
    /\ eng' = [eng EXCEPT ![r.from] = h.eng]
    /\ rpcs' = (rpcs \ {r}) \cup Opened(r.from, h.sends)
    /\ UNCHANGED <<election, heartbeat, network>>

\* An answer arrives before the next request is handled (a bound: RaftCluster
\* has every order).
Deliver(r) ==
    /\ Reachable(r) /\ FitsFrame(r)
    /\ r.resp = None => \A x \in rpcs : Reachable(x) => x.resp = None
    /\ OnRequestVote(r) \/ OnAppendEntries(r) \/ OnRequestVoteResp(r) \/ OnAppendEntriesResp(r)

-----------------------------------------------------------------------------
(* The application, the network and time.                                  *)

\* Something is to be done before time passes, before the client proposes and
\* before a node is cut off (a bound: both could come in between).
Urgent ==
    \/ \E i \in Voters : IF eng[i].role = Leader THEN heartbeat[i] = 0
                         ELSE election[i] = 0 /\ CurrentTerm(eng[i]) < MaxTerm
    \/ \E r \in rpcs : Failing(r) \/ Reachable(r)

ClientPropose(i, data) ==
    LET s == Propose(eng[i], i, data) IN
    /\ eng[i].role = Leader
    /\ LastIndex(eng[i].storage) < MaxLog /\ ~Urgent
    /\ eng' = [eng EXCEPT ![i] = s.eng]
    /\ rpcs' = rpcs \cup Opened(i, s.sends)
    /\ UNCHANGED <<election, heartbeat, network>>

Isolate(i) ==
    /\ cut = None /\ cuts < MaxCuts /\ ~Urgent
    /\ cut' = i /\ cuts' = cuts + 1 /\ outage' = 0
    /\ UNCHANGED <<eng, election, heartbeat, rpcs>>

Heal ==
    /\ cut # None
    /\ cut' = None
    /\ UNCHANGED <<eng, election, heartbeat, rpcs, cuts, outage>>

Pass ==
    /\ ~Urgent
    /\ cut # None => outage < MaxOutage
    /\ election' = [i \in Voters |-> Less(election[i])]
    /\ heartbeat' = [i \in Voters |-> Less(heartbeat[i])]
    /\ rpcs' = {[r EXCEPT !.left = Less(@)] : r \in rpcs}
    /\ outage' = IF cut # None THEN outage + 1 ELSE outage
    /\ UNCHANGED <<eng, cut, cuts>>

-----------------------------------------------------------------------------
Next ==
    \/ \E i \in Voters :
          \/ TickElection(i) \/ TickHeartbeat(i)
          \/ Isolate(i)
          \/ \E data \in Data : ClientPropose(i, data)
    \/ \E r \in rpcs : Deliver(r) \/ RpcFails(r)
    \/ Heal
    \/ Pass

\* Time passes, an outage ends, and what is urgent is done: weak fairness of
\* the ticks, deliveries and failures together, with their enabling condition
\* spelled out.  Nobody has to propose.
Fairness ==
    /\ WF_vars(Pass) /\ WF_vars(Heal)
    /\ []<>~Urgent \/ []<><<TRUE>>_vars

Spec == Init /\ [][Next]_vars /\ Fairness

-----------------------------------------------------------------------------
Leads(l) ==
    /\ eng[l].role = Leader
    /\ \A i \in OtherVoters(l) : /\ eng[i].role = Follower /\ eng[i].leader = l
                                 /\ CurrentTerm(eng[i]) = CurrentTerm(eng[l])
                                 /\ election[i] > 0

\* Once the network is whole, one node leads and all others follow it for
\* good: the fixed timeouts and jitters break a tie in which all nodes stand
\* at once, and neither the deadline that a deposed leader keeps, nor the
\* higher term that a node brings back from an outage, nor a request that
\* arrives late makes the elections go on.
StableLeader == <>[](\E l \in Voters : Leads(l))

Caught(i, l) ==
    /\ Len(Log(eng[l])) <= Len(Log(eng[i]))
    /\ Log(eng[l]) = SubSeq(Log(eng[i]), 1, Len(Log(eng[l])))
    /\ LastTerm(eng[l].storage) = CurrentTerm(eng[l]) => eng[i].last_applied = Len(Log(eng[l]))

\* Every node catches up with the leader when what it missed fits into one
\* frame, through as many rejections as it takes a new leader, which starts
\* at its own last entry, to come back to the first one missing: in the end
\* the node holds the leader's whole log and, once that has an entry of the
\* leader's own term, has applied all of it.
EveryoneCatchesUp == <>[](\A l \in Voters : eng[l].role = Leader => \A i \in Voters : Caught(i, l))
=============================================================================
