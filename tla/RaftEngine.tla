------------------------------ MODULE RaftEngine ------------------------------
(***************************************************************************)
(* raft/engine.rs: the Raft state machine of one node.  A handler is an    *)
(* operator from the engine before it to a record of the engine after it   *)
(* and the actions it returns: "reply" (the Send back to the requester),   *)
(* "sends" (Sends that open a new RPC) and "apply" (the entries of its     *)
(* Apply, empty when there is none).  The role-change actions only feed    *)
(* the RoleChanged event and are read off the engine itself.               *)
(***************************************************************************)
EXTENDS MemoryStorage, FiniteSets

Follower == "Follower"
Candidate == "Candidate"
Leader == "Leader"

\* The engine of the code, without its deadlines: a timer may fire whenever
\* the role allows it.  A map is a total function in which 0 (next_index,
\* match_index) and None (last_ae) stand for an absent key: the code never
\* stores a next_index below 1 and reads an absent match_index as 0.
Engine == [role         : {Follower, Candidate, Leader},
           leader       : Voters \cup {None},
           votes        : SUBSET Voters,
           next_index   : [Voters -> Nat],
           match_index  : [Voters -> Nat],
           last_ae      : [Voters -> [prev : Nat, len : Nat] \cup {None}],
           ae_inflight  : SUBSET Voters,
           commit_index : Nat,
           last_applied : Nat,
           storage      : Storage]

RequestVote == [kind : {"RequestVote"}, term : Nat, candidate_id : Voters,
                last_log_index : Nat, last_log_term : Nat]
RequestVoteResp == [kind : {"RequestVoteResp"}, term : Nat, vote_granted : BOOLEAN]
AppendEntries == [kind : {"AppendEntries"}, term : Nat, leader_id : Voters,
                  prev_log_index : Nat, prev_log_term : Nat,
                  entries : Seq(LogEntry), leader_commit : Nat]
AppendEntriesResp == [kind : {"AppendEntriesResp"}, term : Nat,
                      success : BOOLEAN, match_index : Nat]

Request == RequestVote \cup AppendEntries
Response == RequestVoteResp \cup AppendEntriesResp

\* Option::None is no Some: neither a remembered AppendEntries nor an answer.
ASSUME NoneIsAbsent == None \notin [prev : Nat, len : Nat] \cup Response

\* RaftEngine::new
NewEngine == [role |-> Follower, leader |-> None, votes |-> {},
              next_index |-> [v \in Voters |-> 0],
              match_index |-> [v \in Voters |-> 0],
              last_ae |-> [v \in Voters |-> None],
              ae_inflight |-> {}, commit_index |-> 0, last_applied |-> 0,
              storage |-> NewStorage]

CurrentTerm(e) == e.storage.hard_state.current_term
VotedFor(e) == e.storage.hard_state.voted_for
Log(e) == e.storage.entries

\* Membership::quorum and Membership::other_voters
Quorum == Cardinality(Voters) \div 2 + 1
OtherVoters(i) == Voters \ {i}

-----------------------------------------------------------------------------
(* Role changes.                                                           *)

BecomeCandidate(e, i, term) ==
    [e EXCEPT !.role = Candidate,
              !.leader = None,
              !.votes = {i},
              !.storage = PersistHardState(@, [current_term |-> term, voted_for |-> i])]

\* What a node forgets of its leadership when it steps down.
ForgetPeers(e) ==
    [e EXCEPT !.next_index = [v \in Voters |-> 0],
              !.match_index = [v \in Voters |-> 0],
              !.last_ae = [v \in Voters |-> None],
              !.ae_inflight = {}]

\* The storage of a node that steps down to a term: a later one has no vote.
EnterTerm(st, term) ==
    IF term > st.hard_state.current_term
    THEN PersistHardState(st, [current_term |-> term, voted_for |-> None])
    ELSE st

\* Mutant: the leader hint of an earlier term survives.
BecomeFollowerKeepHint(e, term, ldr) ==
    [ForgetPeers(e) EXCEPT !.storage = EnterTerm(@, term),
                           !.role = Follower,
                           !.leader = IF ldr = None THEN @ ELSE ldr,
                           !.votes = {}]

\* Mutant: the role is not reset.
BecomeFollowerKeepRole(e, term, ldr) ==
    [ForgetPeers(e) EXCEPT !.storage = EnterTerm(@, term),
                           !.leader = ldr,
                           !.votes = {}]

\* Mutant: the hard state is reset even when the term does not change.
BecomeFollowerForgetVote(e, term, ldr) ==
    [ForgetPeers(e) EXCEPT !.storage = PersistHardState(@, [current_term |-> term,
                                                            voted_for |-> None]),
                           !.role = Follower,
                           !.leader = ldr,
                           !.votes = {}]

BecomeFollower(e, term, ldr) ==
    [ForgetPeers(e) EXCEPT !.storage = EnterTerm(@, term),
                           !.role = Follower,
                           !.leader = ldr,
                           !.votes = {}]

BecomeLeader(e, i) ==
    [e EXCEPT !.role = Leader,
              !.leader = i,
              !.votes = {},
              !.next_index = [v \in Voters |-> IF v = i THEN 0
                                               ELSE LastIndex(e.storage) + 1],
              !.match_index = [v \in Voters |-> 0],
              !.last_ae = [v \in Voters |-> None],
              !.ae_inflight = {}]

\* start_election: the RequestVote of the broadcast.
StartElection(e, i) == BecomeCandidate(e, i, CurrentTerm(e) + 1)

VoteRequest(e, i) ==
    [kind |-> "RequestVote", term |-> CurrentTerm(e), candidate_id |-> i,
     last_log_index |-> LastIndex(e.storage), last_log_term |-> LastTerm(e.storage)]

-----------------------------------------------------------------------------
(* Voting.                                                                 *)

VoteReply(e, granted) ==
    [kind |-> "RequestVoteResp", term |-> CurrentTerm(e), vote_granted |-> granted]

\* Mutant: a vote already cast is not looked at.
CanGrantVoteTwice(e, m) == LogIsUpToDate(e.storage, m.last_log_index, m.last_log_term)

\* Mutant: the candidate's log is not looked at.
CanGrantVoteAnyLog(e, m) == VotedFor(e) \in {None, m.candidate_id}

CanGrantVote(e, m) ==
    /\ VotedFor(e) \in {None, m.candidate_id}
    /\ LogIsUpToDate(e.storage, m.last_log_index, m.last_log_term)

\* Mutant: the vote is answered but not persisted.
GrantVoteUnpersisted(e, m) == [e EXCEPT !.role = Follower, !.leader = None, !.votes = {}]

GrantVote(e, m) ==
    [e EXCEPT !.storage = PersistHardState(@, [current_term |-> CurrentTerm(e),
                                               voted_for |-> m.candidate_id]),
              !.role = Follower,
              !.leader = None,
              !.votes = {}]

HandleRequestVote(e, m) ==
    LET seen == IF m.term > CurrentTerm(e) THEN BecomeFollower(e, m.term, None) ELSE e
        after == IF CanGrantVote(seen, m) THEN GrantVote(seen, m) ELSE seen
    IN  IF m.term < CurrentTerm(e)
        THEN [eng |-> e, reply |-> VoteReply(e, FALSE)]
        ELSE [eng |-> after, reply |-> VoteReply(after, CanGrantVote(seen, m))]

HandleRequestVoteResp(e, i, from, m) ==
    LET votes == e.votes \cup {from} IN
    CASE m.term > CurrentTerm(e) -> BecomeFollower(e, m.term, None)
      [] m.term = CurrentTerm(e) /\ e.role = Candidate /\ m.vote_granted ->
            IF Cardinality(votes) >= Quorum THEN BecomeLeader(e, i)
            ELSE [e EXCEPT !.votes = votes]
      [] OTHER -> e

-----------------------------------------------------------------------------
(* Commit and apply.                                                       *)

\* Mutant: last_applied is not advanced.
AdvanceCommitAndReapply(e, leaderCommit, lastNew) ==
    LET commit == Max({e.commit_index, Min({leaderCommit, lastNew})}) IN
    [eng   |-> [e EXCEPT !.commit_index = commit],
     apply |-> SubSeq(Log(e), e.last_applied + 1, Min({commit, Len(Log(e))}))]

\* advance_commit_and_apply: the committed entries the node has not handed
\* out yet; an index with no entry is skipped silently.
AdvanceCommitAndApply(e, leaderCommit, lastNew) ==
    LET commit == Max({e.commit_index, Min({leaderCommit, lastNew})}) IN
    [eng   |-> [e EXCEPT !.commit_index = commit,
                         !.last_applied = Max({@, commit})],
     apply |-> SubSeq(Log(e), e.last_applied + 1, Min({commit, Len(Log(e))}))]

\* Mutant: entries of earlier terms are committed by counting too.
CommittableAnyTerm(e, i) ==
    {n \in (e.commit_index + 1) .. LastIndex(e.storage) :
        1 + Cardinality({p \in OtherVoters(i) : e.match_index[p] >= n}) >= Quorum}

\* Mutant: one replica short of a quorum is enough.
CommittableMinority(e, i) ==
    {n \in (e.commit_index + 1) .. LastIndex(e.storage) :
        /\ EntryAt(e.storage, n).term = CurrentTerm(e)
        /\ 2 + Cardinality({p \in OtherVoters(i) : e.match_index[p] >= n}) >= Quorum}

\* maybe_commit: the entries of the current term that a quorum has matched.
Committable(e, i) ==
    {n \in (e.commit_index + 1) .. LastIndex(e.storage) :
        /\ HasEntry(e.storage, n)
        /\ EntryAt(e.storage, n).term = CurrentTerm(e)
        /\ 1 + Cardinality({p \in OtherVoters(i) : e.match_index[p] >= n}) >= Quorum}

MaybeCommit(e, i) ==
    IF Committable(e, i) = {} THEN [eng |-> e, apply |-> <<>>]
    ELSE LET n == Max(Committable(e, i)) IN AdvanceCommitAndApply(e, n, n)

-----------------------------------------------------------------------------
(* Replication, the leader's side.                                         *)

PrevIndex(e, p) == e.next_index[p] - 1

\* build_append_entries gives up when the peer has no next_index or an entry
\* it needs is missing.
CanBuild(e, p) ==
    /\ e.next_index[p] # 0
    /\ PrevIndex(e, p) # 0 => HasEntry(e.storage, PrevIndex(e, p))
    /\ \A n \in e.next_index[p] .. LastIndex(e.storage) : HasEntry(e.storage, n)

BuildAppendEntries(e, i, p) ==
    [kind |-> "AppendEntries", term |-> CurrentTerm(e), leader_id |-> i,
     prev_log_index |-> PrevIndex(e, p),
     prev_log_term |-> IF PrevIndex(e, p) = 0 THEN 0
                       ELSE EntryAt(e.storage, PrevIndex(e, p)).term,
     entries |-> SubSeq(Log(e), e.next_index[p], LastIndex(e.storage)),
     leader_commit |-> e.commit_index]

\* send_append_entries_to for every peer of a set: replicate_actions passes
\* all other voters, the response handler the one that answered.
SendAppendEntries(e, i, peers) ==
    LET ready == {p \in peers \ e.ae_inflight : CanBuild(e, p)}
        msg(p) == BuildAppendEntries(e, i, p)
    IN  [eng |-> [e EXCEPT
                    !.last_ae = [p \in Voters |->
                        IF p \in ready THEN [prev |-> msg(p).prev_log_index,
                                             len |-> Len(msg(p).entries)]
                        ELSE @[p]],
                    !.ae_inflight = @ \cup ready],
         sends |-> {[to |-> p, msg |-> msg(p)] : p \in ready}]

\* propose on a Leader; the NotLeader error changes nothing.
ProposeEntry(e, data) ==
    [e EXCEPT !.storage = PersistEntries(@, <<[index |-> LastIndex(@) + 1,
                                               term |-> CurrentTerm(e),
                                               data |-> data]>>)]

Propose(e, i, data) == SendAppendEntries(ProposeEntry(e, data), i, OtherVoters(i))

\* Mutant: the failed AppendEntries still counts as under way.
HandleRpcFailureIgnored(e, to, kind) == e

\* handle_rpc_failure: whatever RPC of that kind failed, and whenever it was
\* sent, the peer counts as free again.
HandleRpcFailure(e, to, kind) ==
    IF kind = "AppendEntries" THEN [e EXCEPT !.ae_inflight = @ \ {to}] ELSE e

\* A success is credited with the request remembered in last_ae.
Matched(e, from) == e.last_ae[from].prev + e.last_ae[from].len

\* Mutant: next_index is set to the last matched index, not past it.
CreditSuccessOffByOne(e, from) ==
    [e EXCEPT !.ae_inflight = @ \ {from},
              !.match_index[from] = Max({e.match_index[from], Matched(e, from)}),
              !.next_index[from] = Matched(e, from)]

CreditSuccess(e, from) ==
    [e EXCEPT !.ae_inflight = @ \ {from},
              !.match_index[from] = Max({e.match_index[from], Matched(e, from)}),
              !.next_index[from] = Matched(e, from) + 1]

\* Mutant: next_index goes back to the leader's last entry, and no further.
StepBackOnce(e, from) ==
    [e EXCEPT !.ae_inflight = @ \ {from},
              !.next_index[from] = Max({@ - 1, e.match_index[from] + 1, LastIndex(e.storage)})]

\* A reject moves next_index one back, never to or below what has matched
\* (and so never below 1).
StepBack(e, from) ==
    [e EXCEPT !.ae_inflight = @ \ {from},
              !.next_index[from] = Max({e.next_index[from] - 1, e.match_index[from] + 1})]

RejectIsStale(e, from) == e.next_index[from] # e.last_ae[from].prev + 1

OnSuccess(e, i, from) ==
    LET c == MaybeCommit(CreditSuccess(e, from), i)
        behind == {p \in {from} : c.eng.next_index[p] <= LastIndex(c.eng.storage)}
        s == SendAppendEntries(c.eng, i, behind)
    IN  [eng |-> s.eng, sends |-> s.sends, apply |-> c.apply]

OnReject(e, i, from) ==
    LET s == SendAppendEntries(StepBack(e, from), i, {from}) IN
    IF RejectIsStale(e, from)
    THEN [eng |-> [e EXCEPT !.ae_inflight = @ \ {from}], sends |-> {}, apply |-> <<>>]
    ELSE [eng |-> s.eng, sends |-> s.sends, apply |-> <<>>]

HandleAppendEntriesResp(e, i, from, m) ==
    LET quiet(f) == [eng |-> f, sends |-> {}, apply |-> <<>>] IN
    CASE m.term > CurrentTerm(e) -> quiet(BecomeFollower(e, m.term, None))
      [] \/ m.term < CurrentTerm(e)
         \/ m.term = CurrentTerm(e) /\ (e.role # Leader \/ e.last_ae[from] = None) -> quiet(e)
      [] OTHER -> IF m.success THEN OnSuccess(e, i, from) ELSE OnReject(e, i, from)

-----------------------------------------------------------------------------
(* Replication, the follower's side.                                       *)

AppendReply(e, ok, match) ==
    [kind |-> "AppendEntriesResp", term |-> CurrentTerm(e),
     success |-> ok, match_index |-> match]

\* Contact from the leader of this term: any other role steps down.
FollowLeader(e, m) ==
    IF m.term > CurrentTerm(e) \/ e.role # Follower
    THEN BecomeFollower(e, m.term, m.leader_id)
    ELSE [e EXCEPT !.leader = m.leader_id]

\* Mutant: the term of the previous entry is not compared.
PrevOkAnyTerm(st, m) == m.prev_log_index = 0 \/ HasEntry(st, m.prev_log_index)

\* Mutant: a previous entry that is missing is let pass.
PrevOkIfAbsent(st, m) ==
    IF m.prev_log_index = 0 THEN m.prev_log_term = 0
    ELSE HasEntry(st, m.prev_log_index) =>
            EntryAt(st, m.prev_log_index).term = m.prev_log_term

PrevOk(st, m) ==
    IF m.prev_log_index = 0 THEN m.prev_log_term = 0
    ELSE /\ HasEntry(st, m.prev_log_index)
         /\ EntryAt(st, m.prev_log_index).term = m.prev_log_term

\* Mutant: an entry of another term counts as present.
AppendFromMissing(st, m) ==
    Min({n \in 1 .. Len(m.entries) : ~HasEntry(st, m.prev_log_index + n)}
        \cup {Len(m.entries) + 1})

\* The position in the message of the first entry the log does not have:
\* missing, or of another term.
AppendFrom(st, m) ==
    Min({n \in 1 .. Len(m.entries) :
            \/ ~HasEntry(st, m.prev_log_index + n)
            \/ EntryAt(st, m.prev_log_index + n).term # m.entries[n].term}
        \cup {Len(m.entries) + 1})

\* Mutant: everything after the previous entry is replaced, conflict or not.
AppendEntriesReplace(st, m) ==
    PersistEntries(TruncateFrom(st, m.prev_log_index + 1), m.entries)

\* Truncate at a conflict (TruncateFrom ignores an index past the end), then
\* persist the rest of the message.
AppendEntriesTo(st, m) ==
    LET n == AppendFrom(st, m) IN
    IF n > Len(m.entries) THEN st
    ELSE PersistEntries(TruncateFrom(st, m.prev_log_index + n),
                        SubSeq(m.entries, n, Len(m.entries)))

\* Mutant: counts one entry less.
LastNewOffByOne(m) == m.prev_log_index + Len(m.entries) - 1

LastNew(m) == m.prev_log_index + Len(m.entries)

HandleAppendEntries(e, m) ==
    LET f == FollowLeader(e, m)
        g == [f EXCEPT !.storage = AppendEntriesTo(@, m)]
        c == AdvanceCommitAndApply(g, m.leader_commit, LastNew(m))
    IN  CASE m.term < CurrentTerm(e) ->
                [eng |-> e, reply |-> AppendReply(e, FALSE, LastIndex(e.storage)),
                 apply |-> <<>>]
          [] m.term >= CurrentTerm(e) /\ ~PrevOk(f.storage, m) ->
                [eng |-> f, reply |-> AppendReply(f, FALSE, LastIndex(f.storage)),
                 apply |-> <<>>]
          [] OTHER ->
                [eng |-> c.eng, reply |-> AppendReply(c.eng, TRUE, LastNew(m)),
                 apply |-> c.apply]
=============================================================================
