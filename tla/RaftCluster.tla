------------------------------ MODULE RaftCluster ------------------------------
(***************************************************************************)
(* A cluster of nodes, each a RaftEngine driven by the Behaviour of        *)
(* behaviour.rs, over the request-response RPCs of the libp2p transport.   *)
(*                                                                         *)
(* An RPC lives in "rpcs" from the moment the sender's Behaviour records   *)
(* it in its pending table.  The remote node may handle the request at     *)
(* any time; the sender may give up at any time (timeout, stream failure,  *)
(* closed connection), after which a late answer is dropped but a late     *)
(* request may still be handled.  Nothing orders two RPCs of one pair of   *)
(* nodes: each runs on a substream of its own.                             *)
(***************************************************************************)
EXTENDS RaftEngine

CONSTANTS
    MaxTerm,    \* elections start no term above this one
    Electors,   \* [1 .. MaxTerm -> SUBSET Voters]: who may start which term
    Links,      \* the pairs <<i, p>> such that i may ever be connected to p
    MaxLog,     \* a leader proposes no entry above this index
    MaxRpc      \* RPCs under way in the whole cluster at a time

ASSUME VotersAssumption == IsFiniteSet(Voters)

ASSUME BoundsAssumption ==
    /\ MaxTerm \in Nat /\ MaxLog \in Nat /\ MaxRpc \in Nat
    /\ Electors \in [1 .. MaxTerm -> SUBSET Voters]
    /\ Links \subseteq Voters \X Voters

VARIABLES
    eng,        \* [Voters -> Engine]
    rpcs,       \* RPCs that are pending at the sender or still travelling
    applied,    \* [Voters -> Seq(LogEntry)]: the Committed events given out
    ballots,    \* history: the votes ever cast
    elected,    \* history: who became leader in which term
    mixup       \* history: a success was credited to another AppendEntries

vars == <<eng, rpcs, applied, ballots, elected, mixup>>

\* "waiting": the sender's pending table still holds the RPC.
\* "resp": the answer on its way back, None while the request is unanswered.
Rpc == [id : 1 .. MaxRpc, from : Voters, to : Voters, req : Request,
        resp : Response \cup {None}, waiting : BOOLEAN]

Init ==
    /\ eng = [i \in Voters |-> NewEngine]
    /\ rpcs = {}
    /\ applied = [i \in Voters |-> <<>>]
    /\ ballots = {}
    /\ elected = {}
    /\ mixup = FALSE

-----------------------------------------------------------------------------
(* send_rpc and the pending table.                                         *)

FreeIds(rs, i, p) == (1 .. MaxRpc) \ {r.id : r \in {x \in rs : x.from = i /\ x.to = p}}

\* The sets of peers that can turn out to be connected when node i sends.
\* A peer beyond the bound on the RPCs under way counts as not connected.
Connections(rs, i) ==
    {conn \in SUBSET {p \in OtherVoters(i) : <<i, p>> \in Links /\ FreeIds(rs, i, p) # {}} :
        Cardinality(rs) + Cardinality(conn) <= MaxRpc}

\* The RPCs that a set of Sends adds to the pending table.
Opened(rs, i, sends) ==
    {[id |-> Min(FreeIds(rs, i, s.to)), from |-> i, to |-> s.to, req |-> s.msg,
      resp |-> None, waiting |-> TRUE] : s \in sends}

\* execute_actions for AppendEntries of engine e to peers of which only
\* those in conn are connected: send_rpc drops the others at once and tells
\* the engine that the RPC failed.
Transmitted(sends, conn) == {s \in sends : s.to \in conn}

\* Mutant: a peer to which nothing is sent now counts as free.
AfterTransmitFrees(e, sends, conn) == [e EXCEPT !.ae_inflight = conn]

AfterTransmit(e, sends, conn) ==
    [e EXCEPT !.ae_inflight = @ \ {s.to : s \in {x \in sends : x.to \notin conn}}]

Hand(i, entries) == applied' = [applied EXCEPT ![i] = @ \o entries]

-----------------------------------------------------------------------------
(* The timers and the application's calls.                                 *)

\* tick on a Follower or Candidate whose election deadline has passed.
ElectionTimeout(i) ==
    LET e == StartElection(eng[i], i) IN
    /\ eng[i].role # Leader
    /\ CurrentTerm(e) \in 1 .. MaxTerm
    /\ i \in Electors[CurrentTerm(e)]
    /\ eng' = [eng EXCEPT ![i] = e]
    /\ \E conn \in Connections(rpcs, i) :
          rpcs' = rpcs \cup Opened(rpcs, i, {[to |-> p, msg |-> VoteRequest(e, i)] : p \in conn})
    /\ ballots' = ballots \cup {[voter |-> i, term |-> CurrentTerm(e), cand |-> i]}
    /\ UNCHANGED <<applied, elected, mixup>>

\* The leader i takes the engine and the Sends of s as its next state.
Replicate(i, rs, s) ==
    \E conn \in {c \in Connections(rs, i) : c \subseteq {x.to : x \in s.sends}} :
        /\ eng' = [eng EXCEPT ![i] = AfterTransmit(s.eng, s.sends, conn)]
        /\ rpcs' = rs \cup Opened(rs, i, Transmitted(s.sends, conn))

\* tick on a Leader whose heartbeat deadline has passed.
Heartbeat(i) ==
    /\ eng[i].role = Leader
    /\ Replicate(i, rpcs, SendAppendEntries(eng[i], i, OtherVoters(i)))
    /\ UNCHANGED <<applied, ballots, elected, mixup>>

ClientPropose(i, data) ==
    /\ eng[i].role = Leader
    /\ LastIndex(eng[i].storage) < MaxLog
    /\ Replicate(i, rpcs, Propose(eng[i], i, data))
    /\ UNCHANGED <<applied, ballots, elected, mixup>>

-----------------------------------------------------------------------------
(* Inbound requests.                                                       *)

\* The answer reaches a sender that still waits and is dropped otherwise.
Answered(r, reply) ==
    (rpcs \ {r}) \cup {x \in {[r EXCEPT !.resp = reply]} : x.waiting}

OnRequestVote(r) ==
    LET h == HandleRequestVote(eng[r.to], r.req) IN
    /\ r.resp = None /\ r.req.kind = "RequestVote"
    /\ eng' = [eng EXCEPT ![r.to] = h.eng]
    /\ rpcs' = Answered(r, h.reply)
    /\ ballots' = ballots \cup
            {b \in {[voter |-> r.to, term |-> r.req.term, cand |-> r.req.candidate_id]} :
                h.reply.vote_granted}
    /\ UNCHANGED <<applied, elected, mixup>>

OnAppendEntries(r) ==
    LET h == HandleAppendEntries(eng[r.to], r.req) IN
    /\ r.resp = None /\ r.req.kind = "AppendEntries"
    /\ eng' = [eng EXCEPT ![r.to] = h.eng]
    /\ rpcs' = Answered(r, h.reply)
    /\ Hand(r.to, h.apply)
    /\ UNCHANGED <<ballots, elected, mixup>>

-----------------------------------------------------------------------------
(* Answers to the node's own requests.                                     *)

OnRequestVoteResp(r) ==
    LET i == r.from
        e == HandleRequestVoteResp(eng[i], i, r.to, r.resp)
    IN
    /\ r.resp # None /\ r.resp.kind = "RequestVoteResp"
    /\ eng' = [eng EXCEPT ![i] = e]
    /\ rpcs' = rpcs \ {r}
    /\ elected' = elected \cup {x \in {[term |-> CurrentTerm(e), node |-> i]} :
                                    eng[i].role # Leader /\ e.role = Leader}
    /\ UNCHANGED <<applied, ballots, mixup>>

\* The leader takes r's success for the success of another AppendEntries.
Misattributed(r) ==
    /\ r.resp.success
    /\ eng[r.from].role = Leader
    /\ r.resp.term = CurrentTerm(eng[r.from])
    /\ eng[r.from].last_ae[r.to] \notin
            {None, [prev |-> r.req.prev_log_index, len |-> Len(r.req.entries)]}

OnAppendEntriesResp(r) ==
    LET h == HandleAppendEntriesResp(eng[r.from], r.from, r.to, r.resp) IN
    /\ r.resp # None /\ r.resp.kind = "AppendEntriesResp"
    /\ Replicate(r.from, rpcs \ {r}, h)
    /\ Hand(r.from, h.apply)
    /\ mixup' = (mixup \/ Misattributed(r))
    /\ UNCHANGED <<ballots, elected>>

-----------------------------------------------------------------------------
(* Failures.                                                               *)

\* The RPCs of rs leave the pending table of node i: an answer under way is
\* lost, a request under way may still arrive.
GiveUp(i, p, rs) ==
    /\ rs # {}
    /\ eng' = [eng EXCEPT ![i] =
            IF \E r \in rs : r.req.kind = "AppendEntries"
            THEN HandleRpcFailure(@, p, "AppendEntries") ELSE @]
    /\ rpcs' = (rpcs \ rs) \cup {[r EXCEPT !.waiting = FALSE] :
                                    r \in {x \in rs : x.resp = None}}
    /\ UNCHANGED <<applied, ballots, elected, mixup>>

\* fail_pending: the RPC times out in poll, or its substream fails.
RpcFails(r) == r.waiting /\ GiveUp(r.from, r.to, {r})

\* fail_peer_pending: the last connection to p closes, or a dial fails.
ConnectionLost(i, p) == GiveUp(i, p, {r \in rpcs : r.from = i /\ r.to = p /\ r.waiting})

\* A request that nobody waits for is lost on its way.
RequestLost(r) ==
    /\ ~r.waiting
    /\ rpcs' = rpcs \ {r}
    /\ UNCHANGED <<eng, applied, ballots, elected, mixup>>

-----------------------------------------------------------------------------
Next ==
    \/ \E i \in Voters :
          \/ ElectionTimeout(i)
          \/ Heartbeat(i)
          \/ \E data \in Data : ClientPropose(i, data)
          \/ \E p \in OtherVoters(i) : ConnectionLost(i, p)
    \/ \E r \in rpcs :
          \/ OnRequestVote(r)
          \/ OnAppendEntries(r)
          \/ OnRequestVoteResp(r)
          \/ OnAppendEntriesResp(r)
          \/ RpcFails(r)
          \/ RequestLost(r)

Spec == Init /\ [][Next]_vars

-----------------------------------------------------------------------------
TypeOK ==
    /\ eng \in [Voters -> Engine]
    /\ rpcs \subseteq Rpc /\ \A r \in rpcs : r.to \in OtherVoters(r.from)
    /\ applied \in [Voters -> Seq(LogEntry)]
    /\ ballots \subseteq [voter : Voters, term : Nat, cand : Voters]
    /\ elected \subseteq [term : Nat, node : Voters]
    /\ mixup \in BOOLEAN

-----------------------------------------------------------------------------
(* Elections and terms.                                                    *)

\* No term ever has two leaders, not even one after the other: the majority
\* counted in handle_request_vote_resp and the single vote per term that
\* handle_request_vote and become_candidate persist exclude it, whatever
\* vote requests and answers are late or lost.
ElectionSafety ==
    \A x, y \in elected : x.term = y.term => x.node = y.node

\* The leader a node reports (the hint of RaftEngine::leader and of
\* RoleChanged) really won the election of the node's current term: no
\* handler keeps a hint of an earlier term or takes one from a stale message.
LeaderHint ==
    \A i \in Voters : eng[i].leader # None =>
        [term |-> CurrentTerm(eng[i]), node |-> eng[i].leader] \in elected

Majorities == {Q \in SUBSET Voters : Cardinality(Q) >= Quorum}

Box == INSTANCE Leadership WITH Majorities <- Majorities

\* Seen from outside, the cluster is a ballot box: every step casts at most
\* one vote, for a later term than the voter's earlier ones, or puts into
\* office a node that a majority of the votes already cast elects.
ElectsByBallot == Box!Spec

VoteIsStable(e, f) ==
    \/ CurrentTerm(f) > CurrentTerm(e)
    \/ CurrentTerm(f) = CurrentTerm(e) /\ VotedFor(e) \in {None, VotedFor(f)}

StableVotes == \A i \in Voters : VoteIsStable(eng[i], eng'[i])

\* A node's term never goes back, and within a term its vote, once cast, is
\* neither withdrawn nor moved to another candidate by any later handler.
VoteStability == [][StableVotes]_vars

-----------------------------------------------------------------------------
(* Why ElectionSafety holds: an inductive invariant about the votes.       *)

Ballot(v, term, i) == [voter |-> v, term |-> term, cand |-> i]
Grants(r) == r.resp # None /\ r.resp \in RequestVoteResp /\ r.resp.vote_granted

OneVotePerTerm == \A b, c \in ballots : b.voter = c.voter /\ b.term = c.term => b.cand = c.cand

VotesArePersisted ==
    \A b \in ballots :
        /\ b.term <= CurrentTerm(eng[b.voter])
        /\ b.term = CurrentTerm(eng[b.voter]) => VotedFor(eng[b.voter]) = b.cand

CountedVotesWereCast ==
    \A i \in Voters : eng[i].role = Candidate =>
        \A v \in eng[i].votes : Ballot(v, CurrentTerm(eng[i]), i) \in ballots

GrantsWereCast ==
    /\ \A r \in rpcs : r.req \in RequestVote => r.req.candidate_id = r.from
    /\ \A r \in rpcs : Grants(r) => Ballot(r.to, r.resp.term, r.from) \in ballots

ElectedByQuorum ==
    \A x \in elected : \E Q \in SUBSET Voters :
        Cardinality(Q) >= Quorum /\ \A v \in Q : Ballot(v, x.term, x.node) \in ballots

\* Every vote that counts anywhere (with a candidate, in an answer under way,
\* behind a past election) was really cast, and the vote of a node's current
\* term is the one in its hard state, so that no voter answers two candidates
\* of a term.
ElectionInv ==
    /\ OneVotePerTerm
    /\ VotesArePersisted
    /\ CountedVotesWereCast
    /\ GrantsWereCast
    /\ ElectedByQuorum

\* Behind LeaderHint: leaders, and the senders of AppendEntries of whatever
\* age, won the election of their term.
LeadersWereElected ==
    \A i \in Voters : eng[i].role = Leader =>
        [term |-> CurrentTerm(eng[i]), node |-> i] \in elected

SendersWereElected ==
    \A r \in rpcs : r.req \in AppendEntries =>
        [term |-> r.req.term, node |-> r.req.leader_id] \in elected

-----------------------------------------------------------------------------
(* The replicated log.                                                     *)

AgreeUpTo(s, t, n) == \A k \in 1 .. n : s[k] = t[k]

\* Two logs that hold entries of one term at one index are identical up to
\* it: prev_ok and the conditional truncate of handle_append_entries keep
\* this under late, repeated and reordered AppendEntries.
LogMatching ==
    \A i, j \in Voters : \A n \in DOMAIN Log(eng[i]) \cap DOMAIN Log(eng[j]) :
        Log(eng[i])[n].term = Log(eng[j])[n].term => AgreeUpTo(Log(eng[i]), Log(eng[j]), n)

LeadersAppend ==
    \A i \in Voters :
        (eng[i].role = Leader /\ eng'[i].role = Leader
            /\ CurrentTerm(eng'[i]) = CurrentTerm(eng[i]))
        => /\ Len(Log(eng'[i])) >= Len(Log(eng[i]))
           /\ AgreeUpTo(Log(eng[i]), Log(eng'[i]), Len(Log(eng[i])))

\* While a node leads a term it only appends to its log: no message of any
\* age makes it truncate or overwrite an entry.
LeaderAppendOnly == [][LeadersAppend]_vars

\* An acknowledged AppendEntries is in the follower's log for as long as the
\* follower stays in that term: a later message of the same leader, however
\* late, removes nothing that was acknowledged (the durability barrier before
\* the success response in handle_append_entries).
AckedIsStored ==
    \A r \in rpcs :
        (/\ r.resp \in AppendEntriesResp
         /\ r.resp.success
         /\ CurrentTerm(eng[r.to]) = r.req.term)
        => \A n \in DOMAIN r.req.entries :
              /\ HasEntry(eng[r.to].storage, r.req.prev_log_index + n)
              /\ EntryAt(eng[r.to].storage, r.req.prev_log_index + n) = r.req.entries[n]

\* No write of the log is refused: whichever AppendEntries under way reaches
\* its node next, of whatever age and past whichever truncation, what is left
\* of its entries continues the node's log, and so does what a leader
\* proposes.  (handle_append_entries and propose drop the error of persist
\* and report success.)
EveryBatchFits ==
    /\ \A r \in rpcs : r.req \in AppendEntries =>
          LET st == eng[r.to].storage
              n == AppendFrom(st, r.req)
          IN  PrevOk(st, r.req) =>
                PersistOk(TruncateFrom(st, r.req.prev_log_index + n),
                          SubSeq(r.req.entries, n, Len(r.req.entries)))
    /\ \A i \in Voters : eng[i].role = Leader =>
          PersistOk(eng[i].storage, <<[index |-> LastIndex(eng[i].storage) + 1]>>)

\* What a leader keeps about a peer stays consistent through successes,
\* rejects and stale answers in any order: match_index is below next_index,
\* next_index is at most one past the log, so that build_append_entries
\* always finds the entries it needs, and the AppendEntries remembered in
\* last_ae can only raise match_index, never past the log.
LeaderBookkeeping ==
    \A i \in Voters : eng[i].role = Leader => \A p \in OtherVoters(i) :
        /\ eng[i].match_index[p] < eng[i].next_index[p]
        /\ eng[i].next_index[p] <= Len(Log(eng[i])) + 1
        /\ eng[i].last_ae[p] # None =>
              Matched(eng[i], p) \in eng[i].match_index[p] .. Len(Log(eng[i]))

\* A peer is marked in ae_inflight only while an AppendEntries to it is in the
\* pending table: no answer, failure, step down or re-election leaves the mark
\* behind, after which the leader would never send to that peer again.
InflightIsPending ==
    \A i \in Voters : \A p \in eng[i].ae_inflight :
        \E r \in rpcs : r.from = i /\ r.to = p /\ r.waiting /\ r.req.kind = "AppendEntries"

\* Only a leader keeps books about its peers: the grant of a vote, which sets
\* the role by itself and neither clears them nor reports the change, never
\* meets a leader.  (become_follower does both.)
NoSilentStepDown ==
    \A i \in Voters : eng[i].role # Leader => eng[i] = ForgetPeers(eng[i])

-----------------------------------------------------------------------------
(* Commit.                                                                 *)

\* The application receives every index once and in order: the loop of
\* advance_commit_and_apply, which skips a missing entry silently, never
\* meets one, on a leader or on a follower whose log is behind the commit.
AppliedWithoutGaps ==
    \A i \in Voters :
        /\ Len(applied[i]) = eng[i].last_applied
        /\ \A k \in DOMAIN applied[i] : applied[i][k].index = k

\* No two nodes hand different entries for the same index to the
\* application.
StateMachineSafety ==
    \A i, j \in Voters : \A k \in DOMAIN applied[i] \cap DOMAIN applied[j] :
        applied[i][k] = applied[j][k]

\* An entry that any node has handed out as committed is in the log of a
\* majority.
AppliedOnQuorum ==
    \A i \in Voters : \A k \in DOMAIN applied[i] :
        Cardinality({j \in Voters : k \in DOMAIN Log(eng[j])
                                    /\ Log(eng[j])[k] = applied[i][k]}) >= Quorum

\* With every success credited to its own AppendEntries, a leader believes
\* of a peer in its term only what the peer's log holds.
MatchIsReplicated ==
    mixup \/ \A i \in Voters : eng[i].role = Leader =>
        \A p \in OtherVoters(i) : CurrentTerm(eng[p]) = CurrentTerm(eng[i]) =>
            /\ eng[i].match_index[p] <= Len(Log(eng[p]))
            /\ AgreeUpTo(Log(eng[i]), Log(eng[p]), eng[i].match_index[p])

\* Unless a success was credited to another AppendEntries, what has been
\* handed to the application is safe: all nodes agree on it and a majority
\* holds it, through elections and truncations.
CommitSafety == mixup \/ (StateMachineSafety /\ AppliedOnQuorum)

CommittedIsKept ==
    mixup' \/ \A i \in Voters :
        /\ eng[i].commit_index <= Len(Log(eng'[i]))
        /\ AgreeUpTo(Log(eng[i]), Log(eng'[i]), eng[i].commit_index)

\* Unless a success was credited to another AppendEntries, no step truncates
\* or overwrites an entry at or below the node's commit index: the
\* debug_assert of handle_append_entries, which release builds do not check.
CommittedPrefixStable == [][CommittedIsKept]_vars

=============================================================================
