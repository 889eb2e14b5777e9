---------------------------- MODULE ClusterProofs ----------------------------
(***************************************************************************)
(* Theorems about RaftCluster for every number of voters and every bound:  *)
(* type correctness, at most one leader per term, the leader hint, the     *)
(* stability of votes, the refinement of the ballot box, and what holds of *)
(* every node and every RPC by itself (the books of a leader, its in-      *)
(* flight marks, the entries handed out).                                  *)
(***************************************************************************)
EXTENDS RaftCluster, EngineProofs, FiniteSetTheorems, TLAPS

-----------------------------------------------------------------------------
(* The pending table.                                                      *)

\* A request that node i has just put into its pending table.
FreshRpc(r, i) ==
    /\ r \in Rpc
    /\ r.from = i /\ r.to \in OtherVoters(i)
    /\ r.resp = None /\ r.waiting = TRUE

\* An RPC carries the message of one of the given Sends.
Carries(r, sends) == \E s \in sends : r.req = s.msg

\* send_rpc: every Send to a connected peer becomes one pending RPC.
LEMMA OpenedFacts ==
    ASSUME BoundsAssumption, NEW rs \in SUBSET Rpc, NEW i \in Voters,
           NEW conn \in Connections(rs, i), NEW sends,
           \A s \in sends : s.to \in conn /\ s.msg \in Request
    PROVE  \A r \in Opened(rs, i, sends) :
              FreshRpc(r, i) /\ Carries(r, sends)
<1> SUFFICES ASSUME NEW s \in sends,
                    NEW r, r = [id |-> Min(FreeIds(rs, i, s.to)), from |-> i,
                                to |-> s.to, req |-> s.msg,
                                resp |-> None, waiting |-> TRUE]
             PROVE  FreshRpc(r, i) /\ r.req = s.msg
  BY DEF Opened, Carries
<1>1. s.to \in OtherVoters(i) /\ s.to \in Voters /\ FreeIds(rs, i, s.to) # {}
  BY DEF Connections, OtherVoters
<1>2. FreeIds(rs, i, s.to) \in SUBSET (1 .. MaxRpc)
  BY DEF FreeIds
<1> DEFINE ids == FreeIds(rs, i, s.to)
<1>3. Min(ids) \in 1 .. MaxRpc
  <2>1. ids \in SUBSET Nat /\ ids # {} /\ ids \in SUBSET (1 .. MaxRpc)
    BY <1>1, <1>2 DEF BoundsAssumption
  <2> HIDE DEF ids
  <2> QED BY <2>1, MinOfNats
<1>4. s.msg \in Request
  OBVIOUS
<1> QED BY <1>1, <1>3, <1>4 DEF FreshRpc, Rpc

\* execute_actions with AppendEntries: the engine's office is untouched, and
\* every new RPC carries one of the messages.
LEMMA ReplicateFacts ==
    ASSUME BoundsAssumption, NEW i \in Voters, NEW rs \in SUBSET Rpc,
           NEW s, s.eng \in Engine,
           \A y \in s.sends : y.to \in OtherVoters(i) /\ y.msg \in AppendEntries,
           Replicate(i, rs, s)
    PROVE  /\ \E f \in Engine : /\ eng' = [eng EXCEPT ![i] = f]
                                /\ SameOffice(s.eng, f)
           /\ \A x \in rpcs' : \/ x \in rs
                               \/ FreshRpc(x, i) /\ Carries(x, s.sends)
<1>1. PICK conn \in Connections(rs, i) :
        /\ eng' = [eng EXCEPT ![i] = AfterTransmit(s.eng, s.sends, conn)]
        /\ rpcs' = rs \cup Opened(rs, i, Transmitted(s.sends, conn))
  BY DEF Replicate
<1> DEFINE f == AfterTransmit(s.eng, s.sends, conn)
<1>2. f \in Engine /\ SameOffice(s.eng, f)
  BY DEF AfterTransmit, Engine, SameOffice
<1>3. \A x \in Transmitted(s.sends, conn) :
          x \in s.sends /\ x.to \in conn /\ x.msg \in Request
  BY DEF Transmitted, Request
<1>4. \A r \in Opened(rs, i, Transmitted(s.sends, conn)) :
          FreshRpc(r, i) /\ Carries(r, Transmitted(s.sends, conn))
  BY <1>3, OpenedFacts
<1> HIDE DEF f
<1>5. \E g \in Engine : eng' = [eng EXCEPT ![i] = g] /\ SameOffice(s.eng, g)
  BY <1>1, <1>2 DEF f
<1> QED BY <1>1, <1>3, <1>4, <1>5 DEF Carries

-----------------------------------------------------------------------------
(***************************************************************************)
(* What the actions do, with the engine's handlers summarised: one lemma   *)
(* per action.  Most of them cast no vote and win no election.             *)
(***************************************************************************)

\* The RPC r of the next state continues one of this state and carries no
\* grant that the other did not carry.
Continues(r) ==
    \E x \in rpcs : /\ r.from = x.from /\ r.to = x.to /\ r.req = x.req
                    /\ r.resp = x.resp \/ ~Grants(r)

\* The hint of f is none, an old one of the same term, or the sender of an
\* AppendEntries of f's term.
HintJustified(e, f) ==
    \/ f.leader = None
    \/ f.leader = e.leader /\ CurrentTerm(f) = CurrentTerm(e)
    \/ \E x \in rpcs : /\ x.req \in AppendEntries
                       /\ f.leader = x.req.leader_id /\ CurrentTerm(f) = x.req.term

\* A step of node i that casts no vote and wins no election.
QuietStep(i) ==
    /\ \E f \in Engine : /\ eng' = [eng EXCEPT ![i] = f]
                         /\ CastsNoVote(eng[i], f)
                         /\ KeepsOffice(eng[i], f)
                         /\ HintJustified(eng[i], f)
    /\ ballots' = ballots /\ elected' = elected
    /\ \A r \in rpcs' :
          \/ Continues(r)
          \/ /\ FreshRpc(r, i) /\ r.req \in AppendEntries
             /\ r.req.leader_id = i /\ r.req.term = CurrentTerm(eng[i])
             /\ eng[i].role = Leader

\* Every RPC in the pending tables continues itself.
LEMMA ContinuesItself ==
    ASSUME NEW r \in rpcs
    PROVE  Continues(r)
BY DEF Continues

\* An engine whose office is untouched takes a quiet step.
LEMMA OfficeKept ==
    ASSUME NEW e \in Engine, NEW f, SameOffice(e, f)
    PROVE  CastsNoVote(e, f) /\ KeepsOffice(e, f) /\ HintJustified(e, f)
BY SameOfficeIsQuiet DEF SameOffice, HintJustified, CurrentTerm

\* A leader that sends AppendEntries (tick, propose) takes a quiet step.
LEMMA LeaderSends ==
    ASSUME BoundsAssumption, TypeOK, NEW i \in Voters, eng[i].role = Leader,
           NEW s, s.eng \in Engine, SameOffice(eng[i], s.eng),
           \A x \in s.sends : /\ x.to \in OtherVoters(i) /\ x.msg \in AppendEntries
                              /\ x.msg.leader_id = i /\ x.msg.term = CurrentTerm(eng[i]),
           Replicate(i, rpcs, s),
           UNCHANGED <<applied, ballots, elected, mixup>>
    PROVE  QuietStep(i) /\ TypeOK'
<1>1. eng[i] \in Engine /\ rpcs \in SUBSET Rpc
  BY DEF TypeOK
<1>2. PICK f \in Engine : eng' = [eng EXCEPT ![i] = f] /\ SameOffice(s.eng, f)
  BY <1>1, ReplicateFacts
<1>3. \A r \in rpcs' : \/ r \in rpcs
                       \/ FreshRpc(r, i) /\ Carries(r, s.sends)
  BY <1>1, ReplicateFacts
<1>4. SameOffice(eng[i], f)
  BY <1>2 DEF SameOffice
<1>5. QuietStep(i)
  <2>1. \E g \in Engine : /\ eng' = [eng EXCEPT ![i] = g]
                          /\ CastsNoVote(eng[i], g) /\ KeepsOffice(eng[i], g)
                          /\ HintJustified(eng[i], g)
    BY <1>1, <1>2, <1>4, OfficeKept
  <2>2. \A r \in rpcs' : \/ Continues(r)
                         \/ /\ FreshRpc(r, i) /\ r.req \in AppendEntries
                            /\ r.req.leader_id = i /\ r.req.term = CurrentTerm(eng[i])
    BY <1>3, ContinuesItself DEF Carries
  <2> QED BY <2>1, <2>2 DEF QuietStep
<1>6. TypeOK'
  <2>1. eng' \in [Voters -> Engine]
    BY <1>2 DEF TypeOK
  <2>2. \A r \in rpcs' : r \in Rpc /\ r.to \in OtherVoters(r.from)
    BY <1>3 DEF FreshRpc, TypeOK
  <2> QED BY <2>1, <2>2 DEF TypeOK, OtherVoters
<1> QED BY <1>5, <1>6

\* tick on a leader whose heartbeat is due.
LEMMA HeartbeatFacts ==
    ASSUME BoundsAssumption, TypeOK, NEW i \in Voters, Heartbeat(i)
    PROVE  QuietStep(i) /\ TypeOK'
<1> DEFINE s == SendAppendEntries(eng[i], i, OtherVoters(i))
<1>1. eng[i] \in Engine /\ OtherVoters(i) \in SUBSET Voters
  BY DEF TypeOK, OtherVoters
<1>2. /\ s.eng \in Engine /\ SameOffice(eng[i], s.eng)
      /\ \A x \in s.sends : /\ x.to \in OtherVoters(i) /\ x.msg \in AppendEntries
                            /\ x.msg.leader_id = i /\ x.msg.term = CurrentTerm(eng[i])
  BY <1>1, SendFacts
<1>3. /\ eng[i].role = Leader /\ Replicate(i, rpcs, s)
      /\ UNCHANGED <<applied, ballots, elected, mixup>>
  BY DEF Heartbeat
<1> HIDE DEF s
<1> QED BY <1>2, <1>3, LeaderSends

\* propose on a leader.
LEMMA ClientProposeFacts ==
    ASSUME BoundsAssumption, TypeOK, NEW i \in Voters, NEW data \in Data,
           ClientPropose(i, data)
    PROVE  QuietStep(i) /\ TypeOK'
<1> DEFINE s == Propose(eng[i], i, data)
<1>1. eng[i] \in Engine
  BY DEF TypeOK
<1>2. /\ s.eng \in Engine /\ SameOffice(eng[i], s.eng)
      /\ \A x \in s.sends : /\ x.to \in OtherVoters(i) /\ x.msg \in AppendEntries
                            /\ x.msg.leader_id = i /\ x.msg.term = CurrentTerm(eng[i])
  BY <1>1, ProposeFacts
<1>3. /\ eng[i].role = Leader /\ Replicate(i, rpcs, s)
      /\ UNCHANGED <<applied, ballots, elected, mixup>>
  BY DEF ClientPropose
<1> HIDE DEF s
<1> QED BY <1>2, <1>3, LeaderSends

\* The answer to a request, if its sender still waits, continues the RPC.
LEMMA AnsweredFacts ==
    ASSUME TypeOK, NEW r \in rpcs, NEW reply \in Response
    PROVE  \A x \in Answered(r, reply) :
              \/ x \in rpcs
              \/ /\ x \in Rpc /\ x.from = r.from /\ x.to = r.to /\ x.req = r.req
                 /\ x.resp = reply /\ x.to \in OtherVoters(x.from)
<1> DEFINE a == [r EXCEPT !.resp = reply]
<1>1. r \in Rpc /\ r.to \in OtherVoters(r.from)
  BY DEF TypeOK
<1>2. /\ a \in Rpc /\ a.from = r.from /\ a.to = r.to /\ a.req = r.req
      /\ a.resp = reply
  BY <1>1 DEF Rpc
<1> HIDE DEF a
<1>3. \A x \in Answered(r, reply) : x \in rpcs \/ x = a
  BY DEF Answered, a
<1> QED BY <1>1, <1>2, <1>3

\* handle_append_entries at the receiver.
LEMMA OnAppendEntriesFacts ==
    ASSUME TypeOK, NEW r \in rpcs, OnAppendEntries(r)
    PROVE  QuietStep(r.to) /\ TypeOK'
<1> DEFINE e == eng[r.to]
           h == HandleAppendEntries(e, r.req)
<1>1. r \in Rpc /\ r.to \in Voters /\ e \in Engine /\ r.req \in AppendEntries
  BY DEF OnAppendEntries, TypeOK, Rpc, Request, RequestVote
<1>2. /\ eng' = [eng EXCEPT ![r.to] = h.eng]
      /\ rpcs' = Answered(r, h.reply)
      /\ applied' = [applied EXCEPT ![r.to] = applied[r.to] \o h.apply]
      /\ UNCHANGED <<ballots, elected, mixup>>
  BY DEF OnAppendEntries, Hand
<1>3. /\ h.eng \in Engine /\ h.reply \in AppendEntriesResp /\ h.apply \in Seq(LogEntry)
      /\ CastsNoVote(e, h.eng)
      /\ \/ h.eng = e
         \/ /\ h.eng.role = Follower /\ h.eng.leader = r.req.leader_id
            /\ CurrentTerm(h.eng) = r.req.term
  BY <1>1, HandleAppendEntriesFacts
<1> HIDE DEF h, e
<1>4. KeepsOffice(e, h.eng) /\ HintJustified(e, h.eng)
  BY <1>1, <1>3 DEF KeepsOffice, HintJustified, Follower
<1>5. h.reply \in Response /\ h.reply \notin RequestVoteResp
  BY <1>3 DEF Response, AppendEntriesResp, RequestVoteResp
<1>6. \A x \in rpcs' : \/ x \in rpcs
                       \/ /\ x \in Rpc /\ x.from = r.from /\ x.to = r.to /\ x.req = r.req
                          /\ x.resp = h.reply /\ x.to \in OtherVoters(x.from)
  BY <1>2, <1>5, AnsweredFacts
<1>7. \A x \in rpcs' : Continues(x)
  BY <1>5, <1>6 DEF Continues, Grants
<1>8. QuietStep(r.to)
  <2>1. \E f \in Engine : /\ eng' = [eng EXCEPT ![r.to] = f]
                          /\ CastsNoVote(eng[r.to], f) /\ KeepsOffice(eng[r.to], f)
                          /\ HintJustified(eng[r.to], f)
    BY <1>2, <1>3, <1>4 DEF e
  <2> QED BY <1>2, <1>7, <2>1 DEF QuietStep
<1>9. TypeOK'
  <2>1. eng' \in [Voters -> Engine]
    BY <1>2, <1>3 DEF TypeOK
  <2>2. \A x \in rpcs' : x \in Rpc /\ x.to \in OtherVoters(x.from)
    BY <1>6 DEF TypeOK
  <2>3. applied' \in [Voters -> Seq(LogEntry)]
    <3>1. applied[r.to] \in Seq(LogEntry)
      BY <1>1 DEF TypeOK
    <3>2. applied[r.to] \o h.apply \in Seq(LogEntry)
      BY <1>3, <3>1
    <3> QED BY <1>2, <3>2 DEF TypeOK
  <2> QED BY <1>2, <2>1, <2>2, <2>3 DEF TypeOK
<1> QED BY <1>8, <1>9

\* handle_append_entries_resp at the sender, with the AppendEntries that
\* follow.
LEMMA OnAppendEntriesRespFacts ==
    ASSUME BoundsAssumption, TypeOK, NEW r \in rpcs, OnAppendEntriesResp(r)
    PROVE  QuietStep(r.from) /\ TypeOK'
<1> DEFINE i == r.from
           e == eng[i]
           h == HandleAppendEntriesResp(e, i, r.to, r.resp)
           rs == rpcs \ {r}
<1>1. /\ r \in Rpc /\ i \in Voters /\ e \in Engine /\ r.to \in OtherVoters(i)
      /\ r.resp \in AppendEntriesResp /\ rs \in SUBSET Rpc /\ rs \in SUBSET rpcs
  BY DEF OnAppendEntriesResp, TypeOK, Rpc, Response, RequestVoteResp
<1>2. /\ Replicate(i, rs, h)
      /\ applied' = [applied EXCEPT ![i] = applied[i] \o h.apply]
      /\ ballots' = ballots /\ elected' = elected
      /\ mixup' = (mixup \/ Misattributed(r))
  BY DEF OnAppendEntriesResp, Hand
<1>3. /\ h.eng \in Engine /\ h.apply \in Seq(LogEntry) /\ CastsNoVote(e, h.eng)
      /\ \/ h.eng.role = Follower /\ h.eng.leader = None
         \/ SameOffice(e, h.eng)
      /\ \A x \in h.sends : /\ x.to \in OtherVoters(i) /\ x.msg \in AppendEntries
                            /\ x.msg.leader_id = i /\ x.msg.term = CurrentTerm(e)
                            /\ e.role = Leader
  <2> HIDE DEF i, e
  <2> QED BY <1>1, HandleAppendEntriesRespFacts
<1> HIDE DEF h, rs
<1>4. \A x \in h.sends : x.to \in OtherVoters(i) /\ x.msg \in AppendEntries
  BY <1>3
<1>5. /\ \E f \in Engine : eng' = [eng EXCEPT ![i] = f] /\ SameOffice(h.eng, f)
      /\ \A x \in rpcs' : \/ x \in rs
                          \/ FreshRpc(x, i) /\ Carries(x, h.sends)
  <2> HIDE DEF i, e
  <2>1. i \in Voters /\ rs \in SUBSET Rpc /\ h.eng \in Engine /\ Replicate(i, rs, h)
    BY <1>1, <1>2, <1>3
  <2> QED BY <2>1, <1>4, ReplicateFacts
<1>6. PICK f \in Engine : eng' = [eng EXCEPT ![i] = f] /\ SameOffice(h.eng, f)
  BY <1>5
<1>7. \A x \in rpcs' : \/ x \in rs
                       \/ FreshRpc(x, i) /\ Carries(x, h.sends)
  BY <1>5
<1>8. CastsNoVote(e, f)
  BY <1>3, <1>6 DEF SameOffice, CastsNoVote, CurrentTerm, VotedFor
<1>9. KeepsOffice(e, f) /\ HintJustified(e, f)
  <2>1. CASE h.eng.role = Follower /\ h.eng.leader = None
    BY <1>6, <2>1 DEF SameOffice, KeepsOffice, HintJustified
  <2>2. CASE SameOffice(e, h.eng)
    <3>1. SameOffice(e, f)
      BY <1>6, <2>2 DEF SameOffice
    <3> QED BY <1>1, <3>1, OfficeKept
  <2> QED BY <1>3, <2>1, <2>2
<1>10. QuietStep(i)
  <2>1. \A x \in rpcs' :
          \/ Continues(x)
          \/ /\ FreshRpc(x, i) /\ x.req \in AppendEntries
             /\ x.req.leader_id = i /\ x.req.term = CurrentTerm(eng[i])
             /\ eng[i].role = Leader
    BY <1>1, <1>3, <1>7, ContinuesItself DEF Carries
  <2>2. \E g \in Engine : /\ eng' = [eng EXCEPT ![i] = g]
                          /\ CastsNoVote(eng[i], g) /\ KeepsOffice(eng[i], g)
                          /\ HintJustified(eng[i], g)
    BY <1>6, <1>8, <1>9
  <2> HIDE DEF i
  <2> QED BY <1>2, <2>1, <2>2 DEF QuietStep
<1>11. TypeOK'
  <2>1. eng' \in [Voters -> Engine]
    BY <1>6 DEF TypeOK
  <2>2. \A x \in rpcs' : x \in Rpc /\ x.to \in OtherVoters(x.from)
    BY <1>1, <1>7 DEF FreshRpc, TypeOK
  <2>3. applied' \in [Voters -> Seq(LogEntry)]
    <3>1. applied[i] \in Seq(LogEntry)
      BY <1>1 DEF TypeOK
    <3>2. applied[i] \o h.apply \in Seq(LogEntry)
      BY <1>3, <3>1
    <3> QED BY <1>2, <3>2 DEF TypeOK
  <2>4. mixup' \in BOOLEAN
    BY <1>2
  <2> QED BY <1>2, <2>1, <2>2, <2>3, <2>4 DEF TypeOK
<1> QED BY <1>10, <1>11

\* fail_pending, fail_peer_pending: the engine only frees the peer.
LEMMA GiveUpFacts ==
    ASSUME TypeOK, NEW i \in Voters, NEW p \in Voters, NEW rs \in SUBSET rpcs,
           GiveUp(i, p, rs)
    PROVE  QuietStep(i) /\ TypeOK'
<1> DEFINE f == IF \E r \in rs : r.req.kind = "AppendEntries"
                THEN HandleRpcFailure(eng[i], p, "AppendEntries") ELSE eng[i]
<1>1. eng[i] \in Engine
  BY DEF TypeOK
<1>2. f \in Engine /\ SameOffice(eng[i], f)
  BY <1>1, RpcFailureFacts DEF SameOffice
<1>3. /\ eng' = [eng EXCEPT ![i] = f]
      /\ rpcs' = (rpcs \ rs) \cup {[r EXCEPT !.waiting = FALSE] :
                                      r \in {x \in rs : x.resp = None}}
      /\ UNCHANGED <<applied, ballots, elected, mixup>>
  BY DEF GiveUp
<1> HIDE DEF f
<1>4. ASSUME NEW r \in rpcs
      PROVE  LET x == [r EXCEPT !.waiting = FALSE] IN
             /\ x \in Rpc /\ x.from = r.from /\ x.to = r.to /\ x.req = r.req
             /\ x.resp = r.resp /\ x.to \in OtherVoters(x.from)
  BY DEF TypeOK, Rpc
<1>5. \A x \in rpcs' : \E r \in rpcs :
          /\ x \in Rpc /\ x.from = r.from /\ x.to = r.to /\ x.req = r.req
          /\ x.resp = r.resp /\ x.to \in OtherVoters(x.from)
  <2> TAKE x \in rpcs'
  <2>1. CASE x \in rpcs
    BY <2>1 DEF TypeOK
  <2>2. CASE x \notin rpcs
    <3>1. PICK r \in rs : x = [r EXCEPT !.waiting = FALSE]
      BY <1>3, <2>2
    <3> QED BY <1>4, <3>1
  <2> QED BY <2>1, <2>2
<1>6. QuietStep(i)
  <2>1. \A x \in rpcs' : Continues(x)
    BY <1>5 DEF Continues
  <2>2. \E g \in Engine : /\ eng' = [eng EXCEPT ![i] = g]
                          /\ CastsNoVote(eng[i], g) /\ KeepsOffice(eng[i], g)
                          /\ HintJustified(eng[i], g)
    BY <1>1, <1>2, <1>3, OfficeKept
  <2> QED BY <1>3, <2>1, <2>2 DEF QuietStep
<1>7. TypeOK'
  BY <1>2, <1>3, <1>5 DEF TypeOK
<1> QED BY <1>6, <1>7

\* A lost request changes no engine.
LEMMA RequestLostFacts ==
    ASSUME TypeOK, NEW r \in rpcs, RequestLost(r)
    PROVE  QuietStep(r.from) /\ TypeOK'
<1> DEFINE i == r.from
<1>1. i \in Voters /\ eng[i] \in Engine
  BY DEF TypeOK, Rpc
<1>2. UNCHANGED <<eng, applied, ballots, elected, mixup>> /\ rpcs' \in SUBSET rpcs
  BY DEF RequestLost
<1>3. eng' = [eng EXCEPT ![i] = eng[i]]
  BY <1>1, <1>2 DEF TypeOK
<1>4. SameOffice(eng[i], eng[i])
  BY DEF SameOffice
<1> HIDE DEF i
<1>5. \E f \in Engine : /\ eng' = [eng EXCEPT ![i] = f]
                        /\ CastsNoVote(eng[i], f) /\ KeepsOffice(eng[i], f)
                        /\ HintJustified(eng[i], f)
  BY <1>1, <1>3, <1>4, OfficeKept
<1>6. QuietStep(i)
  BY <1>2, <1>5, ContinuesItself DEF QuietStep
<1>7. TypeOK'
  BY <1>2 DEF TypeOK
<1> QED BY <1>6, <1>7 DEF i

\* start_election: the node votes for itself in the next term.
LEMMA ElectionTimeoutFacts ==
    ASSUME BoundsAssumption, TypeOK, NEW i \in Voters, ElectionTimeout(i)
    PROVE  /\ TypeOK'
           /\ \E f \in Engine :
                 /\ eng' = [eng EXCEPT ![i] = f]
                 /\ f.role = Candidate /\ f.votes = {i} /\ f.leader = None
                 /\ CurrentTerm(f) = CurrentTerm(eng[i]) + 1 /\ VotedFor(f) = i
                 /\ ballots' = ballots \cup {Ballot(i, CurrentTerm(f), i)}
           /\ elected' = elected
           /\ \A r \in rpcs' :
                 \/ Continues(r)
                 \/ FreshRpc(r, i) /\ r.req \in RequestVote /\ r.req.candidate_id = i
<1> DEFINE f == StartElection(eng[i], i)
           m == VoteRequest(f, i)
<1>1. eng[i] \in Engine /\ CurrentTerm(eng[i]) \in Nat /\ rpcs \in SUBSET Rpc
  BY EngineFields DEF TypeOK
<1>2. /\ f \in Engine /\ f.role = Candidate /\ f.votes = {i} /\ f.leader = None
      /\ CurrentTerm(f) = CurrentTerm(eng[i]) + 1 /\ VotedFor(f) = i
      /\ m \in RequestVote
  BY <1>1, StartElectionFacts
<1>3. m.candidate_id = i
  BY DEF VoteRequest
<1>4. PICK conn \in Connections(rpcs, i) :
        rpcs' = rpcs \cup Opened(rpcs, i, {[to |-> p, msg |-> m] : p \in conn})
  BY DEF ElectionTimeout
<1>5. /\ eng' = [eng EXCEPT ![i] = f]
      /\ ballots' = ballots \cup {Ballot(i, CurrentTerm(f), i)}
      /\ UNCHANGED <<applied, elected, mixup>>
  BY DEF ElectionTimeout, Ballot
<1> DEFINE sends == {[to |-> p, msg |-> m] : p \in conn}
<1> HIDE DEF f, m
<1>6. \A s \in sends : s.to \in conn /\ s.msg \in Request /\ s.msg = m
  BY <1>2 DEF Request
<1> HIDE DEF sends
<1>7. \A r \in Opened(rpcs, i, sends) : FreshRpc(r, i) /\ Carries(r, sends)
  BY <1>1, <1>6, OpenedFacts
<1>8. \A r \in rpcs' : r \in rpcs \/ (FreshRpc(r, i) /\ r.req = m)
  BY <1>4, <1>6, <1>7 DEF Carries, sends
<1>9. TypeOK'
  <2>1. eng' \in [Voters -> Engine]
    BY <1>2, <1>5 DEF TypeOK
  <2>2. \A r \in rpcs' : r \in Rpc /\ r.to \in OtherVoters(r.from)
    BY <1>8 DEF FreshRpc, TypeOK
  <2>3. ballots' \subseteq [voter : Voters, term : Nat, cand : Voters]
    BY <1>1, <1>2, <1>5 DEF TypeOK, Ballot
  <2> QED BY <1>5, <2>1, <2>2, <2>3 DEF TypeOK
<1> QED BY <1>2, <1>3, <1>5, <1>8, <1>9, ContinuesItself

\* handle_request_vote with a grant: the vote enters the history and the
\* answer; the answer carries no other news.
LEMMA GrantFacts ==
    ASSUME TypeOK, NEW r \in rpcs, OnRequestVote(r),
           HandleRequestVote(eng[r.to], r.req).reply.vote_granted
    PROVE  /\ TypeOK'
           /\ \E f \in Engine :
                 /\ eng' = [eng EXCEPT ![r.to] = f]
                 /\ f.role = Follower /\ f.leader = None
                 /\ CurrentTerm(f) = r.req.term /\ VotedFor(f) = r.req.candidate_id
                 /\ r.req.term >= CurrentTerm(eng[r.to])
                 /\ r.req.term = CurrentTerm(eng[r.to]) =>
                        VotedFor(eng[r.to]) \in {None, r.req.candidate_id}
           /\ r.req \in RequestVote
           /\ ballots' = ballots \cup {Ballot(r.to, r.req.term, r.req.candidate_id)}
           /\ elected' = elected
           /\ \A x \in rpcs' :
                 \/ Continues(x)
                 \/ /\ x.from = r.from /\ x.to = r.to /\ x.req = r.req
                    /\ x.resp.term = r.req.term
<1> DEFINE e == eng[r.to]
           h == HandleRequestVote(e, r.req)
<1>1. r \in Rpc /\ r.to \in Voters /\ e \in Engine /\ r.req \in RequestVote
      /\ r.req.term \in Nat /\ r.req.candidate_id \in Voters
  BY DEF OnRequestVote, TypeOK, Rpc, Request, AppendEntries, RequestVote
<1>2. /\ eng' = [eng EXCEPT ![r.to] = h.eng]
      /\ rpcs' = Answered(r, h.reply)
      /\ ballots' = ballots \cup {Ballot(r.to, r.req.term, r.req.candidate_id)}
      /\ UNCHANGED <<applied, elected, mixup>>
  BY DEF OnRequestVote, Ballot
<1>3. /\ h.eng \in Engine /\ h.reply \in RequestVoteResp
      /\ h.reply.term = r.req.term
      /\ CurrentTerm(h.eng) = r.req.term /\ r.req.term >= CurrentTerm(e)
      /\ VotedFor(h.eng) = r.req.candidate_id
      /\ r.req.term = CurrentTerm(e) => VotedFor(e) \in {None, r.req.candidate_id}
      /\ h.eng.role = Follower /\ h.eng.leader = None
  BY <1>1, HandleRequestVoteFacts
<1> HIDE DEF h
<1>4. h.reply \in Response
  BY <1>3 DEF Response
<1>5. \A x \in rpcs' : \/ x \in rpcs
                       \/ /\ x \in Rpc /\ x.from = r.from /\ x.to = r.to /\ x.req = r.req
                          /\ x.resp = h.reply /\ x.to \in OtherVoters(x.from)
  BY <1>2, <1>4, AnsweredFacts
<1>6. TypeOK'
  <2>1. eng' \in [Voters -> Engine]
    BY <1>2, <1>3 DEF TypeOK
  <2>2. \A x \in rpcs' : x \in Rpc /\ x.to \in OtherVoters(x.from)
    BY <1>5 DEF TypeOK
  <2>3. ballots' \subseteq [voter : Voters, term : Nat, cand : Voters]
    BY <1>1, <1>2 DEF TypeOK, Ballot
  <2> QED BY <1>2, <2>1, <2>2, <2>3 DEF TypeOK
<1>7. \A x \in rpcs' : \/ Continues(x)
                       \/ /\ x.from = r.from /\ x.to = r.to /\ x.req = r.req
                          /\ x.resp.term = r.req.term
  BY <1>3, <1>5, ContinuesItself
<1>8. \E f \in Engine :
         /\ eng' = [eng EXCEPT ![r.to] = f]
         /\ f.role = Follower /\ f.leader = None
         /\ CurrentTerm(f) = r.req.term /\ VotedFor(f) = r.req.candidate_id
         /\ r.req.term >= CurrentTerm(eng[r.to])
         /\ r.req.term = CurrentTerm(eng[r.to]) =>
                VotedFor(eng[r.to]) \in {None, r.req.candidate_id}
  BY <1>2, <1>3
<1> QED BY <1>1, <1>2, <1>6, <1>7, <1>8

\* handle_request_vote without a grant.
LEMMA NoGrantFacts ==
    ASSUME TypeOK, NEW r \in rpcs, OnRequestVote(r),
           ~HandleRequestVote(eng[r.to], r.req).reply.vote_granted
    PROVE  QuietStep(r.to) /\ TypeOK'
<1> DEFINE e == eng[r.to]
           h == HandleRequestVote(e, r.req)
<1>1. r \in Rpc /\ r.to \in Voters /\ e \in Engine /\ r.req \in RequestVote
  BY DEF OnRequestVote, TypeOK, Rpc, Request, AppendEntries, RequestVote
<1>2. /\ eng' = [eng EXCEPT ![r.to] = h.eng]
      /\ rpcs' = Answered(r, h.reply)
      /\ ballots' = ballots
      /\ UNCHANGED <<applied, elected, mixup>>
  BY DEF OnRequestVote
<1>3. /\ h.eng \in Engine /\ h.reply \in RequestVoteResp
      /\ ~h.reply.vote_granted
      /\ CastsNoVote(e, h.eng) /\ KeepsOffice(e, h.eng)
      /\ \/ h.eng.leader = None
         \/ h.eng.leader = e.leader /\ CurrentTerm(h.eng) = CurrentTerm(e)
  BY <1>1, HandleRequestVoteFacts
<1> HIDE DEF h
<1>4. h.reply \in Response
  BY <1>3 DEF Response
<1>5. \A x \in rpcs' : \/ x \in rpcs
                       \/ /\ x \in Rpc /\ x.from = r.from /\ x.to = r.to /\ x.req = r.req
                          /\ x.resp = h.reply /\ x.to \in OtherVoters(x.from)
  BY <1>2, <1>4, AnsweredFacts
<1>6. TypeOK'
  <2>1. eng' \in [Voters -> Engine]
    BY <1>2, <1>3 DEF TypeOK
  <2>2. \A x \in rpcs' : x \in Rpc /\ x.to \in OtherVoters(x.from)
    BY <1>5 DEF TypeOK
  <2> QED BY <1>2, <2>1, <2>2 DEF TypeOK
<1>7. \A x \in rpcs' : Continues(x)
  BY <1>3, <1>5 DEF Continues, Grants
<1>8. \E f \in Engine : /\ eng' = [eng EXCEPT ![r.to] = f]
                        /\ CastsNoVote(eng[r.to], f) /\ KeepsOffice(eng[r.to], f)
                        /\ HintJustified(eng[r.to], f)
  BY <1>2, <1>3 DEF HintJustified
<1> QED BY <1>2, <1>6, <1>7, <1>8 DEF QuietStep

\* Node i counts the grant r; the vote may complete a quorum.
CountsGrant(i, r) ==
    /\ \E f \in Engine :
          /\ eng' = [eng EXCEPT ![i] = f]
          /\ CastsNoVote(eng[i], f)
          /\ CurrentTerm(f) = CurrentTerm(eng[i])
          /\ \/ /\ f.role = Candidate /\ f.votes = eng[i].votes \cup {r.to}
                /\ f.leader = eng[i].leader
                /\ ~(Cardinality(f.votes) >= Quorum)
                /\ elected' = elected
             \/ /\ f.role = Leader /\ f.leader = i
                /\ Cardinality(eng[i].votes \cup {r.to}) >= Quorum
                /\ elected' = elected \cup {[term |-> CurrentTerm(f), node |-> i]}
    /\ eng[i].role = Candidate
    /\ Grants(r) /\ r.resp.term = CurrentTerm(eng[i])
    /\ ballots' = ballots
    /\ \A x \in rpcs' : Continues(x)

\* handle_request_vote_resp at the sender.
LEMMA OnRequestVoteRespFacts ==
    ASSUME TypeOK, NEW r \in rpcs, OnRequestVoteResp(r)
    PROVE  TypeOK' /\ (QuietStep(r.from) \/ CountsGrant(r.from, r))
<1> DEFINE i == r.from
           e == eng[i]
           f == HandleRequestVoteResp(e, i, r.to, r.resp)
<1>1. /\ r \in Rpc /\ i \in Voters /\ r.to \in Voters /\ e \in Engine
      /\ r.resp \in RequestVoteResp /\ r.resp # None
  BY DEF OnRequestVoteResp, TypeOK, Rpc, Response, AppendEntriesResp
<1>2. /\ eng' = [eng EXCEPT ![i] = f]
      /\ rpcs' \in SUBSET rpcs
      /\ elected' = elected \cup {x \in {[term |-> CurrentTerm(f), node |-> i]} :
                                      e.role # Leader /\ f.role = Leader}
      /\ UNCHANGED <<applied, ballots, mixup>>
  BY DEF OnRequestVoteResp
<1>3. /\ f \in Engine /\ CastsNoVote(e, f)
      /\ \/ KeepsOffice(e, f) /\ (f.leader = None \/ SameOffice(e, f))
         \/ CountsVote(e, i, r.to, r.resp, f)
  <2> HIDE DEF i, e
  <2> QED BY <1>1, HandleRequestVoteRespFacts
<1> HIDE DEF i, f
<1>4. TypeOK'
  <2>1. eng' \in [Voters -> Engine]
    BY <1>2, <1>3 DEF TypeOK
  <2>2. CurrentTerm(f) \in Nat
    BY <1>3, EngineFields
  <2>3. elected' \subseteq [term : Nat, node : Voters]
    BY <1>1, <1>2, <2>2 DEF TypeOK
  <2> QED BY <1>2, <2>1, <2>3 DEF TypeOK
<1>5. \A x \in rpcs' : Continues(x)
  BY <1>2, ContinuesItself
<1>6. CASE KeepsOffice(e, f) /\ (f.leader = None \/ SameOffice(e, f))
  <2>1. HintJustified(e, f)
    BY <1>1, <1>6, OfficeKept DEF HintJustified
  <2>2. elected' = elected
    BY <1>2, <1>6 DEF KeepsOffice, Leader, Follower
  <2>3. \E g \in Engine : /\ eng' = [eng EXCEPT ![i] = g]
                          /\ CastsNoVote(eng[i], g) /\ KeepsOffice(eng[i], g)
                          /\ HintJustified(eng[i], g)
    BY <1>2, <1>3, <1>6, <2>1
  <2>4. QuietStep(i)
    BY <1>2, <1>5, <2>2, <2>3 DEF QuietStep
  <2> QED BY <1>4, <2>4 DEF i
<1>7. CASE CountsVote(e, i, r.to, r.resp, f)
  <2>0. /\ e.role = Candidate /\ r.resp.vote_granted
        /\ CurrentTerm(e) = r.resp.term /\ CurrentTerm(f) = r.resp.term
        /\ \/ /\ f.role = Candidate /\ f.votes = e.votes \cup {r.to}
              /\ f.leader = e.leader
              /\ ~(Cardinality(f.votes) >= Quorum)
           \/ /\ f.role = Leader /\ f.leader = i
              /\ Cardinality(e.votes \cup {r.to}) >= Quorum
    BY <1>7 DEF CountsVote
  <2>1. \/ f.role = Candidate /\ elected' = elected
        \/ f.role = Leader
           /\ elected' = elected \cup {[term |-> CurrentTerm(f), node |-> i]}
    BY <1>2, <2>0 DEF Candidate, Leader
  <2>2. \E g \in Engine :
          /\ eng' = [eng EXCEPT ![i] = g]
          /\ CastsNoVote(eng[i], g)
          /\ CurrentTerm(g) = CurrentTerm(eng[i])
          /\ \/ /\ g.role = Candidate /\ g.votes = eng[i].votes \cup {r.to}
                /\ g.leader = eng[i].leader
                /\ ~(Cardinality(g.votes) >= Quorum)
                /\ elected' = elected
             \/ /\ g.role = Leader /\ g.leader = i
                /\ Cardinality(eng[i].votes \cup {r.to}) >= Quorum
                /\ elected' = elected \cup {[term |-> CurrentTerm(g), node |-> i]}
    <3>1. f \in Engine
      BY <1>3
    <3> WITNESS f \in Engine
    <3> QED BY <1>2, <1>3, <2>0, <2>1 DEF Candidate, Leader
  <2>3. Grants(r)
    BY <1>1, <2>0 DEF Grants
  <2>4. CountsGrant(i, r)
    BY <1>2, <1>5, <2>0, <2>2, <2>3 DEF CountsGrant
  <2> QED BY <1>4, <2>4 DEF i
<1> QED BY <1>3, <1>6, <1>7

-----------------------------------------------------------------------------
(* Type correctness.                                                       *)

\* The kinds of step a vote can be cast or counted in; the rest are quiet.
VotesForItself(i) ==
    /\ \E f \in Engine :
          /\ eng' = [eng EXCEPT ![i] = f]
          /\ f.role = Candidate /\ f.votes = {i} /\ f.leader = None
          /\ CurrentTerm(f) = CurrentTerm(eng[i]) + 1 /\ VotedFor(f) = i
          /\ ballots' = ballots \cup {Ballot(i, CurrentTerm(f), i)}
    /\ elected' = elected
    /\ \A r \in rpcs' :
          \/ Continues(r)
          \/ FreshRpc(r, i) /\ r.req \in RequestVote /\ r.req.candidate_id = i

VotesForAnother(r) ==
    /\ \E f \in Engine :
          /\ eng' = [eng EXCEPT ![r.to] = f]
          /\ f.role = Follower /\ f.leader = None
          /\ CurrentTerm(f) = r.req.term /\ VotedFor(f) = r.req.candidate_id
          /\ r.req.term >= CurrentTerm(eng[r.to])
          /\ r.req.term = CurrentTerm(eng[r.to]) =>
                 VotedFor(eng[r.to]) \in {None, r.req.candidate_id}
    /\ r.req \in RequestVote
    /\ ballots' = ballots \cup {Ballot(r.to, r.req.term, r.req.candidate_id)}
    /\ elected' = elected
    /\ \A x \in rpcs' :
          \/ Continues(x)
          \/ /\ x.from = r.from /\ x.to = r.to /\ x.req = r.req
             /\ x.resp.term = r.req.term

\* Every step of the cluster keeps the type and is of one of four kinds.
LEMMA StepKinds ==
    ASSUME BoundsAssumption, TypeOK, Next
    PROVE  /\ TypeOK'
           /\ \/ \E i \in Voters : QuietStep(i) \/ VotesForItself(i)
              \/ \E r \in rpcs : VotesForAnother(r) \/ CountsGrant(r.from, r)
<1>1. ASSUME NEW r \in rpcs PROVE r.from \in Voters /\ r.to \in Voters
  BY DEF TypeOK, Rpc
<1>2. ASSUME NEW i \in Voters, ElectionTimeout(i) PROVE TypeOK' /\ VotesForItself(i)
  BY <1>2, ElectionTimeoutFacts DEF VotesForItself
<1>3. ASSUME NEW i \in Voters, Heartbeat(i) PROVE TypeOK' /\ QuietStep(i)
  BY <1>3, HeartbeatFacts
<1>4. ASSUME NEW i \in Voters, NEW data \in Data, ClientPropose(i, data)
      PROVE  TypeOK' /\ QuietStep(i)
  BY <1>4, ClientProposeFacts
<1>5. ASSUME NEW i \in Voters, NEW p \in OtherVoters(i), ConnectionLost(i, p)
      PROVE  TypeOK' /\ QuietStep(i)
  BY <1>5, GiveUpFacts DEF ConnectionLost, OtherVoters
<1>6. ASSUME NEW r \in rpcs, OnRequestVote(r)
      PROVE  TypeOK' /\ (VotesForAnother(r) \/ QuietStep(r.to))
  <2>1. CASE HandleRequestVote(eng[r.to], r.req).reply.vote_granted
    BY <1>6, <2>1, GrantFacts DEF VotesForAnother
  <2>2. CASE ~HandleRequestVote(eng[r.to], r.req).reply.vote_granted
    BY <1>6, <2>2, NoGrantFacts
  <2> QED BY <2>1, <2>2
<1>7. ASSUME NEW r \in rpcs, OnAppendEntries(r) PROVE TypeOK' /\ QuietStep(r.to)
  BY <1>7, OnAppendEntriesFacts
<1>8. ASSUME NEW r \in rpcs, OnRequestVoteResp(r)
      PROVE  TypeOK' /\ (QuietStep(r.from) \/ CountsGrant(r.from, r))
  BY <1>8, OnRequestVoteRespFacts
<1>9. ASSUME NEW r \in rpcs, OnAppendEntriesResp(r) PROVE TypeOK' /\ QuietStep(r.from)
  BY <1>9, OnAppendEntriesRespFacts
<1>10. ASSUME NEW r \in rpcs, RpcFails(r) PROVE TypeOK' /\ QuietStep(r.from)
  <2>1. GiveUp(r.from, r.to, {r})
    BY <1>10 DEF RpcFails
  <2> QED BY <1>1, <2>1, GiveUpFacts
<1>11. ASSUME NEW r \in rpcs, RequestLost(r) PROVE TypeOK' /\ QuietStep(r.from)
  BY <1>11, RequestLostFacts
<1> QED BY <1>1, <1>2, <1>3, <1>4, <1>5, <1>6, <1>7, <1>8, <1>9, <1>10, <1>11 DEF Next

\* The initial state is well typed: every node starts as RaftEngine::new.
LEMMA InitTypeOK == Init => TypeOK
<1>1. NewStorage \in Storage
  BY DEF NewStorage, Storage, HardState
<1>2. NewEngine \in Engine
  BY <1>1 DEF NewEngine, Engine
<1>3. Init => eng \in [Voters -> Engine]
  BY <1>2 DEF Init
<1>4. Init => applied \in [Voters -> Seq(LogEntry)]
  <2>1. <<>> \in Seq(LogEntry)
    OBVIOUS
  <2> QED BY <2>1 DEF Init
<1>5. Init => mixup \in BOOLEAN
  BY Zenon DEF Init
<1> QED BY <1>3, <1>4, <1>5 DEF Init, TypeOK

\* Type correctness of the cluster: through every handler of engine.rs, every
\* failure and every loss, the engines, the pending RPCs and the entries
\* handed out keep their types; no RPC is addressed to its sender.
THEOREM TypeCorrect == Spec => []TypeOK
<1>1. Init => TypeOK
  BY InitTypeOK
<1>2. TypeOK /\ [Next]_vars => TypeOK'
  <2> SUFFICES ASSUME TypeOK, [Next]_vars PROVE TypeOK'
    OBVIOUS
  <2>1. CASE Next
    BY <2>1, BoundsAssumption, StepKinds
  <2>2. CASE UNCHANGED vars
    BY <2>2 DEF vars, TypeOK
  <2> QED BY <2>1, <2>2
<1> QED BY <1>1, <1>2, PTL DEF Spec

-----------------------------------------------------------------------------
(* Votes and elections.                                                    *)

\* Two majorities of the voters have a voter in common.
LEMMA QuorumsIntersect ==
    ASSUME VotersAssumption, NEW P \in SUBSET Voters, NEW Q \in SUBSET Voters,
           Cardinality(P) >= Quorum, Cardinality(Q) >= Quorum
    PROVE  P \cap Q # {}
<1>1. /\ Cardinality(Voters) \in Nat /\ Cardinality(P) \in Nat /\ Cardinality(Q) \in Nat
  BY FS_CardinalityType, FS_Subset DEF VotersAssumption
<1>2. Cardinality(P) + Cardinality(Q) > Cardinality(Voters)
  BY <1>1 DEF Quorum
<1> QED BY <1>2, FS_MajoritiesIntersect DEF VotersAssumption

\* An RPC that continues another carries no grant that was not cast.
LEMMA ContinuesKeepsGrants ==
    ASSUME GrantsWereCast, ballots \subseteq ballots', NEW r, Continues(r)
    PROVE  /\ r.req \in RequestVote => r.req.candidate_id = r.from
           /\ Grants(r) => Ballot(r.to, r.resp.term, r.from) \in ballots'
<1>1. PICK x \in rpcs : /\ r.from = x.from /\ r.to = x.to /\ r.req = x.req
                        /\ r.resp = x.resp \/ ~Grants(r)
  BY DEF Continues
<1> QED BY <1>1 DEF GrantsWereCast, Grants

\* Elections that were won by a quorum stay so: ballots are never withdrawn.
LEMMA QuorumsKept ==
    ASSUME ElectedByQuorum, elected' = elected, ballots \subseteq ballots'
    PROVE  ElectedByQuorum'
BY DEF ElectedByQuorum

\* A quiet step disturbs no vote.
LEMMA QuietKeepsElectionInv ==
    ASSUME TypeOK, ElectionInv, NEW i \in Voters, QuietStep(i)
    PROVE  ElectionInv'
<1>1. PICK f \in Engine : /\ eng' = [eng EXCEPT ![i] = f]
                          /\ CastsNoVote(eng[i], f)
                          /\ KeepsOffice(eng[i], f)
  BY DEF QuietStep
<1>2. ballots' = ballots /\ elected' = elected
  BY DEF QuietStep
<1>3. /\ eng'[i] = f /\ \A j \in Voters : j # i => eng'[j] = eng[j]
      /\ eng[i] \in Engine /\ CurrentTerm(eng[i]) \in Nat /\ CurrentTerm(f) \in Nat
  BY <1>1, EngineFields DEF TypeOK
<1>4. \A b \in ballots : b.voter \in Voters /\ b.term \in Nat
  BY DEF TypeOK
<1>5. OneVotePerTerm'
  BY <1>2 DEF ElectionInv, OneVotePerTerm
<1>6. VotesArePersisted'
  <2> SUFFICES ASSUME NEW b \in ballots
               PROVE  /\ b.term <= CurrentTerm(eng'[b.voter])
                      /\ b.term = CurrentTerm(eng'[b.voter]) => VotedFor(eng'[b.voter]) = b.cand
    BY <1>2 DEF VotesArePersisted, CurrentTerm, VotedFor
  <2>1. /\ b.term <= CurrentTerm(eng[b.voter])
        /\ b.term = CurrentTerm(eng[b.voter]) => VotedFor(eng[b.voter]) = b.cand
    BY DEF ElectionInv, VotesArePersisted
  <2>2. CASE b.voter = i
    BY <1>1, <1>3, <1>4, <2>1, <2>2 DEF CastsNoVote
  <2>3. CASE b.voter # i
    BY <1>3, <1>4, <2>1, <2>3
  <2> QED BY <2>2, <2>3
<1>7. CountedVotesWereCast'
  <2> SUFFICES ASSUME NEW j \in Voters, eng'[j].role = Candidate, NEW v \in eng'[j].votes
               PROVE  Ballot(v, CurrentTerm(eng'[j]), j) \in ballots
    BY <1>2 DEF CountedVotesWereCast, CurrentTerm
  <2>1. CASE j = i
    <3>1. eng[i].role = Candidate /\ f.votes = eng[i].votes
          /\ CurrentTerm(f) = CurrentTerm(eng[i])
      BY <1>1, <1>3, <2>1 DEF KeepsOffice, Candidate, Follower
    <3> QED BY <1>3, <2>1, <3>1 DEF ElectionInv, CountedVotesWereCast
  <2>2. CASE j # i
    BY <1>3, <2>2 DEF ElectionInv, CountedVotesWereCast
  <2> QED BY <2>1, <2>2
<1>8. GrantsWereCast'
  <2> SUFFICES ASSUME NEW r \in rpcs'
               PROVE  /\ r.req \in RequestVote => r.req.candidate_id = r.from
                      /\ Grants(r) => Ballot(r.to, r.resp.term, r.from) \in ballots'
    BY DEF GrantsWereCast
  <2>1. CASE Continues(r)
    BY <1>2, <2>1, ContinuesKeepsGrants DEF ElectionInv
  <2>2. CASE FreshRpc(r, i) /\ r.req \in AppendEntries
    BY <2>2 DEF FreshRpc, Grants, AppendEntries, RequestVote
  <2> QED BY <2>1, <2>2 DEF QuietStep
<1>9. ElectedByQuorum'
  BY <1>2, QuorumsKept DEF ElectionInv
<1> QED BY <1>5, <1>6, <1>7, <1>8, <1>9 DEF ElectionInv

\* A new ballot of voter v keeps OneVotePerTerm and VotesArePersisted when v
\* persists it and had cast none for another candidate in that term.
LEMMA NewBallot ==
    ASSUME TypeOK, OneVotePerTerm, VotesArePersisted,
           NEW v \in Voters, NEW t \in Nat, NEW c \in Voters, NEW f \in Engine,
           eng' = [eng EXCEPT ![v] = f],
           CurrentTerm(f) = t, VotedFor(f) = c, t >= CurrentTerm(eng[v]),
           t = CurrentTerm(eng[v]) => VotedFor(eng[v]) \in {None, c},
           ballots' = ballots \cup {Ballot(v, t, c)}
    PROVE  OneVotePerTerm' /\ VotesArePersisted'
<1>1. /\ eng'[v] = f /\ \A j \in Voters : j # v => eng'[j] = eng[j]
      /\ CurrentTerm(eng[v]) \in Nat
  BY EngineFields DEF TypeOK
<1>2. \A b \in ballots : b.voter \in Voters /\ b.term \in Nat /\ b.cand \in Voters
  BY DEF TypeOK
<1>3. /\ Ballot(v, t, c).voter = v /\ Ballot(v, t, c).term = t
      /\ Ballot(v, t, c).cand = c
  BY DEF Ballot
<1>4. \A b \in ballots : b.voter = v => /\ b.term <= t
                                        /\ b.term = t => b.cand = c
  <2> SUFFICES ASSUME NEW b \in ballots, b.voter = v
               PROVE  b.term <= t /\ (b.term = t => b.cand = c)
    OBVIOUS
  <2>1. /\ b.term <= CurrentTerm(eng[v])
        /\ b.term = CurrentTerm(eng[v]) => VotedFor(eng[v]) = b.cand
    BY DEF VotesArePersisted
  <2> QED BY <1>1, <1>2, <2>1, NoneAssumption
<1>5. OneVotePerTerm'
  <2> SUFFICES ASSUME NEW a \in ballots', NEW b \in ballots',
                      a.voter = b.voter, a.term = b.term
               PROVE  a.cand = b.cand
    BY DEF OneVotePerTerm
  <2>1. CASE a \in ballots /\ b \in ballots
    BY <2>1 DEF OneVotePerTerm
  <2>2. CASE a \notin ballots \/ b \notin ballots
    BY <1>3, <1>4, <2>2
  <2> QED BY <2>1, <2>2
<1>6. VotesArePersisted'
  <2> SUFFICES ASSUME NEW b \in ballots'
               PROVE  /\ b.term <= CurrentTerm(eng'[b.voter])
                      /\ b.term = CurrentTerm(eng'[b.voter]) => VotedFor(eng'[b.voter]) = b.cand
    BY DEF VotesArePersisted, CurrentTerm, VotedFor
  <2>1. CASE b.voter = v
    BY <1>1, <1>3, <1>4, <2>1
  <2>2. CASE b.voter # v
    <3>1. b \in ballots
      BY <1>3, <2>2
    <3> QED BY <1>1, <1>2, <2>2, <3>1 DEF VotesArePersisted
  <2> QED BY <2>1, <2>2
<1> QED BY <1>5, <1>6

\* A candidate's own vote: start_election.
LEMMA VotesForItselfKeepsElectionInv ==
    ASSUME TypeOK, ElectionInv, NEW i \in Voters, VotesForItself(i)
    PROVE  ElectionInv'
<1>1. PICK f \in Engine :
          /\ eng' = [eng EXCEPT ![i] = f]
          /\ f.role = Candidate /\ f.votes = {i}
          /\ CurrentTerm(f) = CurrentTerm(eng[i]) + 1 /\ VotedFor(f) = i
          /\ ballots' = ballots \cup {Ballot(i, CurrentTerm(f), i)}
  BY DEF VotesForItself
<1>2. /\ eng'[i] = f /\ \A j \in Voters : j # i => eng'[j] = eng[j]
      /\ CurrentTerm(eng[i]) \in Nat /\ CurrentTerm(f) \in Nat
  BY <1>1, EngineFields DEF TypeOK
<1>3. OneVotePerTerm' /\ VotesArePersisted'
  <2>1. /\ CurrentTerm(f) >= CurrentTerm(eng[i])
        /\ CurrentTerm(f) = CurrentTerm(eng[i]) => VotedFor(eng[i]) \in {None, i}
    BY <1>1, <1>2
  <2> QED BY <1>1, <1>2, <2>1, NewBallot DEF ElectionInv
<1>4. CountedVotesWereCast'
  <2> SUFFICES ASSUME NEW j \in Voters, eng'[j].role = Candidate, NEW v \in eng'[j].votes
               PROVE  Ballot(v, CurrentTerm(eng'[j]), j) \in ballots'
    BY DEF CountedVotesWereCast, CurrentTerm
  <2>1. CASE j = i
    BY <1>1, <1>2, <2>1
  <2>2. CASE j # i
    BY <1>1, <1>2, <2>2 DEF ElectionInv, CountedVotesWereCast
  <2> QED BY <2>1, <2>2
<1>5. GrantsWereCast'
  <2> SUFFICES ASSUME NEW r \in rpcs'
               PROVE  /\ r.req \in RequestVote => r.req.candidate_id = r.from
                      /\ Grants(r) => Ballot(r.to, r.resp.term, r.from) \in ballots'
    BY DEF GrantsWereCast
  <2>1. CASE Continues(r)
    BY <1>1, <2>1, ContinuesKeepsGrants DEF ElectionInv
  <2>2. CASE FreshRpc(r, i) /\ r.req.candidate_id = i
    BY <2>2 DEF FreshRpc, Grants
  <2> QED BY <2>1, <2>2 DEF VotesForItself
<1>6. ElectedByQuorum'
  BY <1>1, QuorumsKept DEF ElectionInv, VotesForItself
<1> QED BY <1>3, <1>4, <1>5, <1>6 DEF ElectionInv

\* A granted vote: handle_request_vote.
LEMMA VotesForAnotherKeepsElectionInv ==
    ASSUME TypeOK, ElectionInv, NEW r \in rpcs, VotesForAnother(r)
    PROVE  ElectionInv'
<1> DEFINE v == r.to
           t == r.req.term
           c == r.req.candidate_id
<1>1. PICK f \in Engine :
          /\ eng' = [eng EXCEPT ![v] = f]
          /\ f.role = Follower
          /\ CurrentTerm(f) = t /\ VotedFor(f) = c
          /\ t >= CurrentTerm(eng[v])
          /\ t = CurrentTerm(eng[v]) => VotedFor(eng[v]) \in {None, c}
  BY DEF VotesForAnother
<1>2. /\ ballots' = ballots \cup {Ballot(v, t, c)} /\ elected' = elected
      /\ r.req \in RequestVote
  BY DEF VotesForAnother
<1>3. v \in Voters /\ t \in Nat /\ c \in Voters /\ c = r.from
  BY <1>2 DEF TypeOK, Rpc, RequestVote, ElectionInv, GrantsWereCast
<1>4. eng'[v] = f /\ \A j \in Voters : j # v => eng'[j] = eng[j]
  BY <1>1, <1>3 DEF TypeOK
<1>5. OneVotePerTerm' /\ VotesArePersisted'
  <2> HIDE DEF v, t, c
  <2> QED BY <1>1, <1>2, <1>3, NewBallot DEF ElectionInv
<1>6. CountedVotesWereCast'
  <2> SUFFICES ASSUME NEW j \in Voters, eng'[j].role = Candidate, NEW w \in eng'[j].votes
               PROVE  Ballot(w, CurrentTerm(eng'[j]), j) \in ballots'
    BY DEF CountedVotesWereCast, CurrentTerm
  <2>1. j # v
    BY <1>1, <1>4 DEF Candidate, Follower
  <2> QED BY <1>2, <1>4, <2>1 DEF ElectionInv, CountedVotesWereCast
<1>7. GrantsWereCast'
  <2> SUFFICES ASSUME NEW x \in rpcs'
               PROVE  /\ x.req \in RequestVote => x.req.candidate_id = x.from
                      /\ Grants(x) => Ballot(x.to, x.resp.term, x.from) \in ballots'
    BY DEF GrantsWereCast
  <2>1. CASE Continues(x)
    BY <1>2, <2>1, ContinuesKeepsGrants DEF ElectionInv
  <2>2. CASE x.from = r.from /\ x.to = r.to /\ x.req = r.req /\ x.resp.term = r.req.term
    BY <1>2, <1>3, <2>2
  <2> QED BY <2>1, <2>2 DEF VotesForAnother
<1>8. ElectedByQuorum'
  BY <1>2, QuorumsKept DEF ElectionInv
<1> QED BY <1>5, <1>6, <1>7, <1>8 DEF ElectionInv

\* A grant that is counted: handle_request_vote_resp, up to become_leader.
LEMMA CountsGrantKeepsElectionInv ==
    ASSUME TypeOK, ElectionInv, NEW r \in rpcs, CountsGrant(r.from, r)
    PROVE  ElectionInv'
<1> DEFINE i == r.from
<1>1. PICK f \in Engine :
          /\ eng' = [eng EXCEPT ![i] = f]
          /\ CastsNoVote(eng[i], f)
          /\ CurrentTerm(f) = CurrentTerm(eng[i])
          /\ \/ /\ f.role = Candidate /\ f.votes = eng[i].votes \cup {r.to}
                /\ elected' = elected
             \/ /\ f.role = Leader
                /\ Cardinality(eng[i].votes \cup {r.to}) >= Quorum
                /\ elected' = elected \cup {[term |-> CurrentTerm(f), node |-> i]}
  BY DEF CountsGrant
<1>2. /\ eng[i].role = Candidate /\ Grants(r) /\ r.resp.term = CurrentTerm(eng[i])
      /\ ballots' = ballots /\ \A x \in rpcs' : Continues(x)
  BY DEF CountsGrant
<1>3. i \in Voters /\ r.to \in Voters /\ eng[i] \in Engine
  BY DEF TypeOK, Rpc
<1>4. /\ eng'[i] = f /\ \A j \in Voters : j # i => eng'[j] = eng[j]
      /\ eng[i].votes \in SUBSET Voters
  BY <1>1, <1>3, EngineFields DEF TypeOK
<1> HIDE DEF i
<1>5. \A v \in eng[i].votes \cup {r.to} : Ballot(v, CurrentTerm(f), i) \in ballots
  <2>1. Ballot(r.to, CurrentTerm(f), i) \in ballots
    BY <1>1, <1>2 DEF ElectionInv, GrantsWereCast, i
  <2>2. \A v \in eng[i].votes : Ballot(v, CurrentTerm(f), i) \in ballots
    BY <1>1, <1>2, <1>3 DEF ElectionInv, CountedVotesWereCast
  <2> QED BY <2>1, <2>2
<1>6. OneVotePerTerm'
  BY <1>2 DEF ElectionInv, OneVotePerTerm
<1>7. VotesArePersisted'
  <2> SUFFICES ASSUME NEW b \in ballots
               PROVE  /\ b.term <= CurrentTerm(eng'[b.voter])
                      /\ b.term = CurrentTerm(eng'[b.voter]) => VotedFor(eng'[b.voter]) = b.cand
    BY <1>2 DEF VotesArePersisted, CurrentTerm, VotedFor
  <2>1. /\ b.term <= CurrentTerm(eng[b.voter])
        /\ b.term = CurrentTerm(eng[b.voter]) => VotedFor(eng[b.voter]) = b.cand
    BY DEF ElectionInv, VotesArePersisted
  <2>2. b.voter \in Voters
    BY DEF TypeOK
  <2>3. CASE b.voter = i
    BY <1>1, <1>4, <2>1, <2>3 DEF CastsNoVote
  <2>4. CASE b.voter # i
    BY <1>4, <2>1, <2>2, <2>4
  <2> QED BY <2>3, <2>4
<1>8. CountedVotesWereCast'
  <2> SUFFICES ASSUME NEW j \in Voters, eng'[j].role = Candidate, NEW v \in eng'[j].votes
               PROVE  Ballot(v, CurrentTerm(eng'[j]), j) \in ballots
    BY <1>2 DEF CountedVotesWereCast, CurrentTerm
  <2>1. CASE j = i
    BY <1>1, <1>4, <1>5, <2>1 DEF Candidate, Leader
  <2>2. CASE j # i
    BY <1>4, <2>2 DEF ElectionInv, CountedVotesWereCast
  <2> QED BY <2>1, <2>2
<1>9. GrantsWereCast'
  <2> SUFFICES ASSUME NEW x \in rpcs'
               PROVE  /\ x.req \in RequestVote => x.req.candidate_id = x.from
                      /\ Grants(x) => Ballot(x.to, x.resp.term, x.from) \in ballots'
    BY DEF GrantsWereCast
  <2> QED BY <1>2, ContinuesKeepsGrants DEF ElectionInv
<1>10. ElectedByQuorum'
  <2>1. CASE elected' = elected
    BY <1>2, <2>1, QuorumsKept DEF ElectionInv
  <2>2. CASE /\ Cardinality(eng[i].votes \cup {r.to}) >= Quorum
             /\ elected' = elected \cup {[term |-> CurrentTerm(f), node |-> i]}
    <3> DEFINE Q == eng[i].votes \cup {r.to}
    <3>1. Q \in SUBSET Voters /\ Cardinality(Q) >= Quorum
          /\ \A v \in Q : Ballot(v, CurrentTerm(f), i) \in ballots
      BY <1>3, <1>4, <1>5, <2>2
    <3> HIDE DEF Q
    <3> SUFFICES ASSUME NEW x \in elected'
                 PROVE  \E P \in SUBSET Voters :
                          /\ Cardinality(P) >= Quorum
                          /\ \A v \in P : Ballot(v, x.term, x.node) \in ballots
      BY <1>2 DEF ElectedByQuorum
    <3>2. CASE x \in elected
      BY <3>2 DEF ElectionInv, ElectedByQuorum
    <3>3. CASE x = [term |-> CurrentTerm(f), node |-> i]
      BY <3>1, <3>3
    <3> QED BY <2>2, <3>2, <3>3
  <2> QED BY <1>1, <2>1, <2>2
<1> QED BY <1>6, <1>7, <1>8, <1>9, <1>10 DEF ElectionInv

\* The invariant about votes, for every cluster.
THEOREM ElectionInvariant == Spec => []ElectionInv
<1>1. Init => ElectionInv
  <2> SUFFICES ASSUME Init PROVE ElectionInv
    OBVIOUS
  <2>1. \A i \in Voters : eng[i].role # Candidate
    BY DEF Init, NewEngine, Candidate, Follower
  <2> QED BY <2>1 DEF Init, ElectionInv, OneVotePerTerm, VotesArePersisted,
                      CountedVotesWereCast, GrantsWereCast, ElectedByQuorum
<1>2. TypeOK /\ ElectionInv /\ [Next]_vars => ElectionInv'
  <2> SUFFICES ASSUME TypeOK, ElectionInv, [Next]_vars PROVE ElectionInv'
    OBVIOUS
  <2>1. CASE Next
    <3>1. CASE \E i \in Voters : QuietStep(i)
      BY <3>1, QuietKeepsElectionInv
    <3>2. CASE \E i \in Voters : VotesForItself(i)
      BY <3>2, VotesForItselfKeepsElectionInv
    <3>3. CASE \E r \in rpcs : VotesForAnother(r)
      BY <3>3, VotesForAnotherKeepsElectionInv
    <3>4. CASE \E r \in rpcs : CountsGrant(r.from, r)
      BY <3>4, CountsGrantKeepsElectionInv
    <3> QED BY <2>1, <3>1, <3>2, <3>3, <3>4, BoundsAssumption, StepKinds
  <2>2. CASE UNCHANGED vars
    BY <2>2 DEF vars, ElectionInv, OneVotePerTerm, VotesArePersisted,
                CountedVotesWereCast, GrantsWereCast, ElectedByQuorum
  <2> QED BY <2>1, <2>2
<1> QED BY <1>1, <1>2, TypeCorrect, PTL DEF Spec

\* Two majorities share a voter, and a voter has one vote per term.
LEMMA OneLeader == TypeOK /\ ElectionInv => ElectionSafety
<1> SUFFICES ASSUME TypeOK, ElectionInv, NEW x \in elected, NEW y \in elected,
                    x.term = y.term
             PROVE  x.node = y.node
  BY DEF ElectionSafety
<1>1. PICK P \in SUBSET Voters :
          Cardinality(P) >= Quorum /\ \A v \in P : Ballot(v, x.term, x.node) \in ballots
  BY DEF ElectionInv, ElectedByQuorum
<1>2. PICK Q \in SUBSET Voters :
          Cardinality(Q) >= Quorum /\ \A v \in Q : Ballot(v, y.term, y.node) \in ballots
  BY DEF ElectionInv, ElectedByQuorum
<1>3. PICK v \in P : v \in Q
  BY <1>1, <1>2, QuorumsIntersect, VotersAssumption
<1> QED BY <1>1, <1>2, <1>3 DEF ElectionInv, OneVotePerTerm, Ballot

\* At most one leader per term, for every number of voters, whatever requests
\* and answers are lost, late or handled after the sender gave up: two
\* elections of a term have a voter in common, which voted once.
THEOREM AtMostOneLeaderPerTerm == Spec => []ElectionSafety
BY OneLeader, TypeCorrect, ElectionInvariant, PTL

\* A vote, once cast, stays for its term, and terms never go back: no handler,
\* with whatever message, undoes what become_candidate or handle_request_vote
\* persisted.
THEOREM VotesAreStable == Spec => VoteStability
<1>1. ASSUME TypeOK, Next
      PROVE  \A j \in Voters : VoteIsStable(eng[j], eng'[j])
  <2>0. ASSUME NEW i \in Voters, NEW f \in Engine, eng' = [eng EXCEPT ![i] = f],
               VoteIsStable(eng[i], f)
        PROVE  \A j \in Voters : VoteIsStable(eng[j], eng'[j])
    <3> TAKE j \in Voters
    <3>1. CASE j = i
      BY <1>1, <2>0, <3>1 DEF TypeOK
    <3>2. CASE j # i
      <4>1. eng'[j] = eng[j]
        BY <1>1, <2>0, <3>2 DEF TypeOK
      <4> QED BY <4>1 DEF VoteIsStable
    <3> QED BY <3>1, <3>2
  <2>1. ASSUME NEW i \in Voters
        PROVE  CurrentTerm(eng[i]) \in Nat
    BY <1>1, EngineFields DEF TypeOK
  <2>2. ASSUME NEW i \in Voters, NEW f \in Engine, CastsNoVote(eng[i], f)
        PROVE  VoteIsStable(eng[i], f)
    BY <2>1, <2>2, EngineFields DEF CastsNoVote, VoteIsStable
  <2>3. ASSUME NEW i \in Voters, QuietStep(i)
        PROVE  \A j \in Voters : VoteIsStable(eng[j], eng'[j])
    BY <2>0, <2>2, <2>3 DEF QuietStep
  <2>4. ASSUME NEW i \in Voters, VotesForItself(i)
        PROVE  \A j \in Voters : VoteIsStable(eng[j], eng'[j])
    <3>1. PICK f \in Engine : /\ eng' = [eng EXCEPT ![i] = f]
                              /\ CurrentTerm(f) = CurrentTerm(eng[i]) + 1
      BY <2>4 DEF VotesForItself
    <3>2. VoteIsStable(eng[i], f)
      BY <2>1, <3>1 DEF VoteIsStable
    <3> QED BY <2>0, <3>1, <3>2
  <2>5. ASSUME NEW r \in rpcs, VotesForAnother(r)
        PROVE  \A j \in Voters : VoteIsStable(eng[j], eng'[j])
    <3>1. PICK f \in Engine :
            /\ eng' = [eng EXCEPT ![r.to] = f]
            /\ CurrentTerm(f) = r.req.term /\ VotedFor(f) = r.req.candidate_id
            /\ r.req.term >= CurrentTerm(eng[r.to])
            /\ r.req.term = CurrentTerm(eng[r.to]) =>
                   VotedFor(eng[r.to]) \in {None, r.req.candidate_id}
      BY <2>5 DEF VotesForAnother
    <3>2. r.to \in Voters /\ CurrentTerm(f) \in Nat
      BY <1>1, EngineFields DEF TypeOK, Rpc
    <3>3. VoteIsStable(eng[r.to], f)
      BY <2>1, <3>1, <3>2 DEF VoteIsStable
    <3> QED BY <2>0, <3>1, <3>2, <3>3
  <2>6. ASSUME NEW r \in rpcs, CountsGrant(r.from, r)
        PROVE  \A j \in Voters : VoteIsStable(eng[j], eng'[j])
    <3>1. PICK f \in Engine : /\ eng' = [eng EXCEPT ![r.from] = f]
                              /\ CastsNoVote(eng[r.from], f)
      BY <2>6 DEF CountsGrant
    <3>2. r.from \in Voters
      BY <1>1 DEF TypeOK, Rpc
    <3> QED BY <2>0, <2>2, <3>1, <3>2
  <2> QED BY <1>1, <2>3, <2>4, <2>5, <2>6, BoundsAssumption, StepKinds
<1>2. TypeOK /\ [Next]_vars => [StableVotes]_vars
  BY <1>1 DEF StableVotes
<1> QED BY <1>2, TypeCorrect, PTL DEF Spec, VoteStability

-----------------------------------------------------------------------------
(* The leader hint.                                                        *)

HintInv == LeadersWereElected /\ SendersWereElected /\ LeaderHint

\* An RPC that continues another carries the same request.
LEMMA ContinuesKeepsSender ==
    ASSUME SendersWereElected, NEW r, Continues(r), r.req \in AppendEntries
    PROVE  [term |-> r.req.term, node |-> r.req.leader_id] \in elected
BY DEF Continues, SendersWereElected

\* Node i's step to f keeps the invariant when f's role and hint are backed
\* by an election and so are the AppendEntries it sends.
LEMMA HintStep ==
    ASSUME TypeOK, HintInv, NEW i \in Voters, NEW f \in Engine,
           eng' = [eng EXCEPT ![i] = f], elected \subseteq elected',
           f.role = Leader => [term |-> CurrentTerm(f), node |-> i] \in elected',
           f.leader # None => [term |-> CurrentTerm(f), node |-> f.leader] \in elected',
           \A r \in rpcs' : r.req \in AppendEntries =>
               [term |-> r.req.term, node |-> r.req.leader_id] \in elected'
    PROVE  HintInv'
<1>1. eng'[i] = f /\ \A j \in Voters : j # i => eng'[j] = eng[j]
  BY DEF TypeOK
<1>2. LeadersWereElected'
  <2> SUFFICES ASSUME NEW j \in Voters, eng'[j].role = Leader
               PROVE  [term |-> CurrentTerm(eng'[j]), node |-> j] \in elected'
    BY DEF LeadersWereElected, CurrentTerm
  <2>1. CASE j = i
    BY <1>1, <2>1
  <2>2. CASE j # i
    BY <1>1, <2>2 DEF HintInv, LeadersWereElected
  <2> QED BY <2>1, <2>2
<1>3. LeaderHint'
  <2> SUFFICES ASSUME NEW j \in Voters, eng'[j].leader # None
               PROVE  [term |-> CurrentTerm(eng'[j]), node |-> eng'[j].leader] \in elected'
    BY DEF LeaderHint, CurrentTerm
  <2>1. CASE j = i
    BY <1>1, <2>1
  <2>2. CASE j # i
    BY <1>1, <2>2 DEF HintInv, LeaderHint
  <2> QED BY <2>1, <2>2
<1>4. SendersWereElected'
  BY DEF SendersWereElected
<1> QED BY <1>2, <1>3, <1>4 DEF HintInv

\* Leaders, the hints and the senders of AppendEntries of whatever age are
\* backed by the elections of their terms.
THEOREM HintInvariant == Spec => []HintInv
<1>1. Init => HintInv
  <2> SUFFICES ASSUME Init PROVE HintInv
    OBVIOUS
  <2>1. \A i \in Voters : eng[i].role # Leader /\ eng[i].leader = None
    BY DEF Init, NewEngine, Leader, Follower
  <2> QED BY <2>1 DEF Init, HintInv, LeadersWereElected, SendersWereElected, LeaderHint
<1>2. TypeOK /\ HintInv /\ [Next]_vars => HintInv'
  <2> SUFFICES ASSUME TypeOK, HintInv, [Next]_vars PROVE HintInv'
    OBVIOUS
  <2>1. ASSUME NEW i \in Voters, QuietStep(i) PROVE HintInv'
    <3>1. PICK f \in Engine : /\ eng' = [eng EXCEPT ![i] = f]
                              /\ CastsNoVote(eng[i], f)
                              /\ KeepsOffice(eng[i], f)
                              /\ HintJustified(eng[i], f)
      BY <2>1 DEF QuietStep
    <3>2. elected' = elected
      BY <2>1 DEF QuietStep
    <3>3. f.role = Leader => [term |-> CurrentTerm(f), node |-> i] \in elected'
      BY <3>1, <3>2 DEF KeepsOffice, Leader, Follower, HintInv, LeadersWereElected
    <3>4. f.leader # None => [term |-> CurrentTerm(f), node |-> f.leader] \in elected'
      BY <3>1, <3>2 DEF HintJustified, HintInv, LeaderHint, SendersWereElected
    <3>5. \A r \in rpcs' : r.req \in AppendEntries =>
              [term |-> r.req.term, node |-> r.req.leader_id] \in elected'
      <4> SUFFICES ASSUME NEW r \in rpcs', r.req \in AppendEntries
                   PROVE  [term |-> r.req.term, node |-> r.req.leader_id] \in elected
        BY <3>2
      <4>1. CASE Continues(r)
        BY <4>1, ContinuesKeepsSender DEF HintInv
      <4>2. CASE /\ r.req.leader_id = i /\ r.req.term = CurrentTerm(eng[i])
                 /\ eng[i].role = Leader
        BY <4>2 DEF HintInv, LeadersWereElected
      <4> QED BY <2>1, <4>1, <4>2 DEF QuietStep
    <3> QED BY <3>1, <3>2, <3>3, <3>4, <3>5, HintStep
  <2>2. ASSUME NEW i \in Voters, VotesForItself(i) PROVE HintInv'
    <3>1. PICK f \in Engine : /\ eng' = [eng EXCEPT ![i] = f]
                              /\ f.role = Candidate /\ f.leader = None
      BY <2>2 DEF VotesForItself
    <3>2. elected' = elected
      BY <2>2 DEF VotesForItself
    <3>3. \A r \in rpcs' : r.req \in AppendEntries =>
              [term |-> r.req.term, node |-> r.req.leader_id] \in elected'
      BY <2>2, <3>2, ContinuesKeepsSender
         DEF VotesForItself, HintInv, RequestVote, AppendEntries
    <3>4. f.role # Leader
      BY <3>1 DEF Candidate, Leader
    <3> QED BY <3>1, <3>2, <3>3, <3>4, HintStep
  <2>3. ASSUME NEW r \in rpcs, VotesForAnother(r) PROVE HintInv'
    <3>1. PICK f \in Engine : /\ eng' = [eng EXCEPT ![r.to] = f]
                              /\ f.role = Follower /\ f.leader = None
      BY <2>3 DEF VotesForAnother
    <3>2. elected' = elected /\ r.req \in RequestVote
      BY <2>3 DEF VotesForAnother
    <3>3. \A x \in rpcs' : x.req \in AppendEntries =>
              [term |-> x.req.term, node |-> x.req.leader_id] \in elected'
      BY <2>3, <3>2, ContinuesKeepsSender
         DEF VotesForAnother, HintInv, RequestVote, AppendEntries
    <3>4. f.role # Leader /\ r.to \in Voters
      BY <3>1 DEF Follower, Leader, TypeOK, Rpc
    <3> QED BY <3>1, <3>2, <3>3, <3>4, HintStep
  <2>4. ASSUME NEW r \in rpcs, CountsGrant(r.from, r) PROVE HintInv'
    <3> DEFINE i == r.from
    <3>0. i \in Voters
      BY DEF TypeOK, Rpc
    <3>1. PICK f \in Engine :
            /\ eng' = [eng EXCEPT ![i] = f]
            /\ CurrentTerm(f) = CurrentTerm(eng[i])
            /\ \/ /\ f.role = Candidate /\ f.leader = eng[i].leader
                  /\ elected' = elected
               \/ /\ f.role = Leader /\ f.leader = i
                  /\ elected' = elected \cup {[term |-> CurrentTerm(f), node |-> i]}
      BY <2>4 DEF CountsGrant
    <3> HIDE DEF i
    <3>2. elected \subseteq elected'
      BY <3>1
    <3>3. f.role = Leader => [term |-> CurrentTerm(f), node |-> i] \in elected'
      BY <3>1 DEF Candidate, Leader
    <3>4. f.leader # None => [term |-> CurrentTerm(f), node |-> f.leader] \in elected'
      BY <3>0, <3>1 DEF HintInv, LeaderHint
    <3>5. \A x \in rpcs' : x.req \in AppendEntries =>
              [term |-> x.req.term, node |-> x.req.leader_id] \in elected'
      BY <2>4, <3>2, ContinuesKeepsSender DEF CountsGrant, HintInv
    <3> QED BY <3>0, <3>1, <3>2, <3>3, <3>4, <3>5, HintStep
  <2>5. CASE Next
    BY <2>1, <2>2, <2>3, <2>4, <2>5, BoundsAssumption, StepKinds
  <2>6. CASE UNCHANGED vars
    BY <2>6 DEF vars, HintInv, LeadersWereElected, SendersWereElected, LeaderHint
  <2> QED BY <2>5, <2>6
<1>3. HintInv => LeaderHint
  BY DEF HintInv
<1> QED BY <1>1, <1>2, TypeCorrect, PTL DEF Spec

\* The leader that RaftEngine::leader and RoleChanged report won the election
\* of the reporting node's term: no late AppendEntries or step-down leaves a
\* hint to a node that did not.
THEOREM HintsAreLeaders == Spec => []LeaderHint
<1>1. HintInv => LeaderHint
  BY DEF HintInv
<1> QED BY <1>1, HintInvariant, PTL
-----------------------------------------------------------------------------
(* The cluster implements the ballot box.                                  *)

\* The elections of the cluster, with their messages, losses and timeouts,
\* implement Leadership: the steps of behaviour.rs that start an election or
\* grant a vote cast one later vote of one voter, the answer that completes a
\* quorum puts its candidate into office, and every other step is invisible.
THEOREM ImplementsLeadership == Spec => ElectsByBallot
<1>1. Init => Box!Init
  BY DEF Init, Box!Init
<1>2. ASSUME TypeOK, ElectionInv, ElectionInv', [Next]_vars
      PROVE  [Box!Next]_<<ballots, elected>>
  <2> USE <1>2
  <2>1. ASSUME NEW v \in Voters, NEW c \in Voters, NEW t \in Nat,
               t >= CurrentTerm(eng[v]),
               t = CurrentTerm(eng[v]) => VotedFor(eng[v]) \in {None, c},
               ballots' = ballots \cup {Ballot(v, t, c)}, elected' = elected
        PROVE  [Box!Next]_<<ballots, elected>>
    <3>1. CASE Ballot(v, t, c) \in ballots
      BY <2>1, <3>1
    <3>2. CASE Ballot(v, t, c) \notin ballots
      <4>1. ASSUME NEW a \in ballots, a.voter = v PROVE a.term < t
        <5>1. /\ a.term \in Nat /\ a.cand \in Voters
              /\ a = [voter |-> a.voter, term |-> a.term, cand |-> a.cand]
          BY DEF TypeOK
        <5>2. /\ a.term <= CurrentTerm(eng[v])
              /\ a.term = CurrentTerm(eng[v]) => VotedFor(eng[v]) = a.cand
          BY <4>1 DEF ElectionInv, VotesArePersisted
        <5>3. CurrentTerm(eng[v]) \in Nat
          BY EngineFields DEF TypeOK
        <5>4. a.cand # None
          BY <5>1, NoneAssumption
        <5>5. a # Ballot(v, t, c)
          BY <3>2
        <5> QED BY <2>1, <4>1, <5>1, <5>2, <5>3, <5>4, <5>5 DEF Ballot
      <4>2. Box!CastVote(v, c)
        <5>1. Ballot(v, t, c) \in ballots'
          BY <2>1
        <5> QED BY <2>1, <4>1, <5>1 DEF Box!CastVote, Ballot
      <4> QED BY <4>2 DEF Box!Next
    <3> QED BY <3>1, <3>2
  <2>2. ASSUME NEW i \in Voters, QuietStep(i) PROVE UNCHANGED <<ballots, elected>>
    BY <2>2 DEF QuietStep
  <2>3. ASSUME NEW i \in Voters, VotesForItself(i)
        PROVE  [Box!Next]_<<ballots, elected>>
    <3>1. CurrentTerm(eng[i]) \in Nat
      BY EngineFields DEF TypeOK
    <3>2. /\ ballots' = ballots \cup {Ballot(i, CurrentTerm(eng[i]) + 1, i)}
          /\ elected' = elected
      BY <2>3 DEF VotesForItself
    <3> QED BY <2>1, <3>1, <3>2
  <2>4. ASSUME NEW r \in rpcs, VotesForAnother(r)
        PROVE  [Box!Next]_<<ballots, elected>>
    <3>1. /\ r.req.term >= CurrentTerm(eng[r.to])
          /\ r.req.term = CurrentTerm(eng[r.to]) =>
                 VotedFor(eng[r.to]) \in {None, r.req.candidate_id}
          /\ ballots' = ballots \cup {Ballot(r.to, r.req.term, r.req.candidate_id)}
          /\ elected' = elected
      BY <2>4 DEF VotesForAnother
    <3>2. r.to \in Voters /\ r.req.term \in Nat /\ r.req.candidate_id \in Voters
      BY <2>4 DEF VotesForAnother, RequestVote, TypeOK, Rpc
    <3> QED BY <2>1, <3>1, <3>2
  <2>5. ASSUME NEW r \in rpcs, CountsGrant(r.from, r)
        PROVE  [Box!Next]_<<ballots, elected>>
    <3>1. r.from \in Voters
      BY DEF TypeOK, Rpc
    <3>2. /\ ballots' = ballots
          /\ \/ elected' = elected
             \/ \E t : elected' = elected \cup {[term |-> t, node |-> r.from]}
      BY <2>5 DEF CountsGrant
    <3>3. ASSUME NEW t, elected' = elected \cup {[term |-> t, node |-> r.from]}
          PROVE  Box!Elect(r.from)
      <4> DEFINE x == [term |-> t, node |-> r.from]
      <4>1. x \in elected' /\ x.node = r.from /\ x.term = t
        BY <3>3
      <4>2. PICK Q \in SUBSET Voters :
              /\ Cardinality(Q) >= Quorum
              /\ \A v \in Q : Ballot(v, x.term, x.node) \in ballots
        BY <3>2, <4>1 DEF ElectionInv, ElectedByQuorum
      <4> QED BY <3>2, <3>3, <4>1, <4>2 DEF Box!Elect, Majorities, Ballot
    <3> QED BY <3>1, <3>2, <3>3 DEF Box!Next
  <2>6. CASE Next
    BY <2>2, <2>3, <2>4, <2>5, <2>6, BoundsAssumption, StepKinds
  <2>7. CASE UNCHANGED vars
    BY <2>7 DEF vars
  <2> QED BY <2>6, <2>7
<1> QED BY <1>1, <1>2, TypeCorrect, ElectionInvariant, PTL DEF Spec, ElectsByBallot, Box!Spec

-----------------------------------------------------------------------------
(***************************************************************************)
(* What holds of every node and every RPC by itself.                       *)
(***************************************************************************)

\* The two RPCs are one request, perhaps at two moments of its life.
SameRpc(x, y) == x.from = y.from /\ x.to = y.to /\ x.req = y.req

\* An AppendEntries of the given term to p in the pending table of i.
PendingAppend(r, i, p, term) ==
    /\ r.from = i /\ r.to = p /\ r.waiting
    /\ r.req \in AppendEntries /\ r.req.term = term

NodesOk == \A i \in Voters : NodeOk(eng[i], i)

\* Requests are consecutive, and answers are of the request's kind and not
\* of an earlier term.
RpcsOk ==
    \A r \in rpcs :
        /\ r.req \in AppendEntries => Consecutive(r.req)
        /\ r.resp # None =>
              \/ r.req \in RequestVote /\ r.resp \in RequestVoteResp
              \/ /\ r.req \in AppendEntries /\ r.resp \in AppendEntriesResp
                 /\ r.resp.term >= r.req.term

\* A peer that counts as busy is busy with an AppendEntries of this term.
MarksOk ==
    \A i \in Voters : \A p \in eng[i].ae_inflight :
        /\ eng[i].last_ae[p] # None
        /\ \E r \in rpcs : PendingAppend(r, i, p, CurrentTerm(eng[i]))

\* What has been handed out is what is committed, in order.
AppliedOk ==
    \A i \in Voters : /\ Len(applied[i]) = eng[i].commit_index
                      /\ Contiguous(applied[i])

NodeInv == NodesOk /\ RpcsOk /\ MarksOk /\ AppliedOk

-----------------------------------------------------------------------------
(***************************************************************************)
(* What a step of node i does, in the terms of the proofs below.           *)
(***************************************************************************)

\* Node i alone changes, and stays in order.
Moves(i) ==
    /\ eng'[i] \in Engine /\ NodeOk(eng'[i], i)
    /\ \A j \in Voters : j # i => eng'[j] = eng[j]

\* Terms never go back; a candidate starts in a new term, a leader as the
\* candidate of its term.
RoleStep(e, f) ==
    /\ CurrentTerm(f) >= CurrentTerm(e)
    /\ f.role # Follower =>
          \/ /\ CurrentTerm(f) = CurrentTerm(e)
             /\ f.role = e.role \/ (e.role = Candidate /\ f.role = Leader)
          \/ f.role = Candidate /\ CurrentTerm(f) = CurrentTerm(e) + 1

\* Requests are carried on, or are i's own and tell what i is.
RequestStep(i) ==
    \A x \in rpcs' :
        \/ \E y \in rpcs : SameRpc(x, y)
        \/ /\ FreshRpc(x, i)
           /\ \/ /\ x.req \in AppendEntries
                 /\ eng[i].role = Leader /\ eng'[i].role = Leader
                 /\ x.req.term = CurrentTerm(eng'[i])
                 /\ FragmentOf(x.req, Log(eng'[i]))
                 /\ x.req.leader_commit = eng'[i].commit_index
              \/ eng'[i].role = Candidate /\ x.req = VoteRequest(eng'[i], i)

\* Answers are carried on, or are i's own and of the request's kind.
AnswerStep(i) ==
    \A x \in rpcs' : x.resp # None =>
        \/ \E y \in rpcs : SameRpc(x, y) /\ y.resp = x.resp
        \/ /\ x.to = i
           /\ \/ x.req \in RequestVote /\ x.resp \in RequestVoteResp
              \/ /\ x.req \in AppendEntries /\ x.resp \in AppendEntriesResp
                 /\ x.resp.term >= x.req.term

\* The successful answer to an AppendEntries.
Acks(r) == r.req \in AppendEntries /\ r.resp # None /\ r.resp.success

\* x is no new success.
OldAck(x) == \E y \in rpcs : SameRpc(x, y) /\ y.resp = x.resp

\* Node i keeps its log, or appends to it as a leader.
KeepsLog(i) ==
    /\ \/ /\ Log(eng'[i]) = Log(eng[i])
          /\ CommitsByCounting(eng[i], i, eng'[i])
       \/ /\ eng[i].role = Leader /\ eng'[i].role = Leader
          /\ CurrentTerm(eng'[i]) = CurrentTerm(eng[i])
          /\ GrownByOne(Log(eng[i]), Log(eng'[i]), CurrentTerm(eng[i]))
          /\ eng'[i].commit_index = eng[i].commit_index
    /\ \A x \in rpcs' : Acks(x) => OldAck(x)

\* Node i accepts the AppendEntries r.
Accepts(i, r) ==
    /\ r.to = i /\ r.req \in AppendEntries
    /\ eng'[i].role = Follower
    /\ CurrentTerm(eng'[i]) = r.req.term
    /\ Accepted(Log(eng[i]), r.req, Log(eng'[i]))
    /\ eng'[i].commit_index > eng[i].commit_index =>
          /\ eng'[i].commit_index <= r.req.leader_commit
          /\ eng'[i].commit_index <= LastNew(r.req)
    /\ \A x \in rpcs' : Acks(x) =>
          \/ OldAck(x)
          \/ x.to = i /\ x.req = r.req /\ x.resp.term = r.req.term

LogStep(i) == KeepsLog(i) \/ \E r \in rpcs : Accepts(i, r)

\* match_index of a leader starts at 0 and is raised by successes only; to
\* the end of the acknowledged request, unless the success is another's.
MatchStep(i) ==
    eng'[i].role = Leader => \A p \in OtherVoters(i) :
        \/ eng'[i].match_index[p] = 0
        \/ /\ eng[i].role = Leader /\ CurrentTerm(eng'[i]) = CurrentTerm(eng[i])
           /\ eng'[i].match_index[p] = eng[i].match_index[p]
        \/ \E r \in rpcs : /\ Acks(r) /\ r.to = p
                           /\ r.resp.term = CurrentTerm(eng'[i])
                           /\ mixup' \/ eng'[i].match_index[p] = LastNew(r.req)

\* Nobody's pending requests are lost but i's own, and those only with the
\* mark that they are under way.
MarkStep(i) ==
    /\ \A y \in rpcs : y.from # i /\ y.waiting =>
          \E x \in rpcs' : SameRpc(x, y) /\ x.waiting
    /\ \A p \in eng'[i].ae_inflight :
          /\ eng'[i].last_ae[p] # None
          /\ \E x \in rpcs' : PendingAppend(x, i, p, CurrentTerm(eng'[i]))

\* What is committed is handed out.
ApplyStep(i) ==
    \E apply \in Seq(LogEntry) :
        /\ Handed(eng[i], eng'[i], apply)
        /\ applied' = [applied EXCEPT ![i] = applied[i] \o apply]

\* Only a candidate is elected.
ElectedStep(i) ==
    /\ elected \subseteq elected'
    /\ \A x \in elected' : x \in elected \/
          /\ x = [term |-> CurrentTerm(eng'[i]), node |-> i]
          /\ eng[i].role = Candidate /\ eng'[i].role = Leader
          /\ CurrentTerm(eng'[i]) = CurrentTerm(eng[i])

\* Node i votes for itself in a new term, or for a candidate whose request
\* shows a log that is no less up-to-date.
BallotStep(i) ==
    /\ ballots \subseteq ballots'
    /\ \A b \in ballots' : b \in ballots \/
          /\ b.voter = i /\ b.term = CurrentTerm(eng'[i])
          /\ Log(eng'[i]) = Log(eng[i])
          /\ \/ /\ b.cand = i /\ eng'[i].role = Candidate
                /\ CurrentTerm(eng'[i]) = CurrentTerm(eng[i]) + 1
             \/ \E r \in rpcs :
                   /\ r.to = i /\ r.from = b.cand
                   /\ r.req \in RequestVote /\ r.req.term = b.term
                   /\ LogIsUpToDate(eng[i].storage, r.req.last_log_index,
                                    r.req.last_log_term)
                   /\ eng'[i].role = Follower

NodeStep(i) ==
    /\ Moves(i) /\ RoleStep(eng[i], eng'[i])
    /\ RequestStep(i) /\ AnswerStep(i)
    /\ LogStep(i) /\ MatchStep(i) /\ MarkStep(i) /\ ApplyStep(i)
    /\ ElectedStep(i) /\ BallotStep(i)
    /\ mixup => mixup'

-----------------------------------------------------------------------------
(* One lemma per action.                                                   *)

\* The state of the engines after a step of node i.
LEMMA EngineAfter ==
    ASSUME TypeOK, NEW i \in Voters, NEW f, eng' = [eng EXCEPT ![i] = f]
    PROVE  eng'[i] = f /\ \A j \in Voters : j # i => eng'[j] = eng[j]
BY DEF TypeOK

\* A step that touches neither votes nor elections.
LEMMA NoElection ==
    ASSUME NEW i, ballots' = ballots, elected' = elected
    PROVE  ElectedStep(i) /\ BallotStep(i)
BY DEF ElectedStep, BallotStep

\* A step that hands nothing out.
LEMMA NoApply ==
    ASSUME TypeOK, NEW i \in Voters, eng'[i] \in Engine,
           eng'[i].commit_index = eng[i].commit_index,
           applied' = applied
    PROVE  ApplyStep(i)
<1>1. eng[i].commit_index \in Nat
  BY EngineFields DEF TypeOK
<1>2. Handed(eng[i], eng'[i], <<>>)
  BY <1>1 DEF Handed
<1>3. applied[i] \in Seq(LogEntry) /\ <<>> \in Seq(LogEntry)
  BY DEF TypeOK
<1>4. applied[i] \o <<>> = applied[i]
  BY <1>3
<1>5. applied' = [applied EXCEPT ![i] = applied[i] \o <<>>]
  BY <1>4 DEF TypeOK
<1> QED BY <1>2, <1>3, <1>5 DEF ApplyStep

\* execute_actions with AppendEntries: the engine only loses marks, of peers
\* to which nothing was sent after all.
LEMMA ReplicateOk ==
    ASSUME BoundsAssumption, TypeOK, NEW i \in Voters, NEW rs \in SUBSET Rpc,
           NEW s, s.eng \in Engine, NodeOk(s.eng, i),
           \A y \in s.sends : y.to \in OtherVoters(i) /\ y.msg \in AppendEntries,
           Replicate(i, rs, s)
    PROVE  /\ Moves(i) /\ SameRecord(s.eng, eng'[i])
           /\ eng'[i].role = s.eng.role /\ eng'[i].storage = s.eng.storage
           /\ eng'[i].match_index = s.eng.match_index
           /\ eng'[i].last_ae = s.eng.last_ae
           /\ eng'[i].ae_inflight \subseteq s.eng.ae_inflight
           /\ rs \subseteq rpcs'
           /\ \A x \in rpcs' : x \in rs \/ (FreshRpc(x, i) /\ Carries(x, s.sends))
           /\ \A y \in s.sends : y.to \in eng'[i].ae_inflight =>
                 \E x \in rpcs' : FreshRpc(x, i) /\ x.to = y.to /\ x.req = y.msg
<1>1. PICK conn \in Connections(rs, i) :
        /\ eng' = [eng EXCEPT ![i] = AfterTransmit(s.eng, s.sends, conn)]
        /\ rpcs' = rs \cup Opened(rs, i, Transmitted(s.sends, conn))
  BY DEF Replicate
<1> DEFINE f == AfterTransmit(s.eng, s.sends, conn)
           S == s.eng.ae_inflight \ {y.to : y \in {x \in s.sends : x.to \notin conn}}
           sent == Transmitted(s.sends, conn)
<1>2. OnlyMarks(s.eng, f, S) /\ S \subseteq s.eng.ae_inflight /\ S \in SUBSET Voters
  BY DEF OnlyMarks, AfterTransmit, Engine
<1>3. \A y \in s.sends : y.to \in S => y \in sent
  BY DEF Transmitted
<1>4. \A x \in sent : x \in s.sends /\ x.to \in conn /\ x.msg \in Request
  BY DEF Transmitted, Request
<1>5. \A r \in Opened(rs, i, sent) : FreshRpc(r, i) /\ Carries(r, sent)
  BY <1>4, OpenedFacts
<1>6. \A y \in sent : \E x \in Opened(rs, i, sent) : x.to = y.to /\ x.req = y.msg
  <2> TAKE y \in sent
  <2> DEFINE x == [id |-> Min(FreeIds(rs, i, y.to)), from |-> i, to |-> y.to,
                   req |-> y.msg, resp |-> None, waiting |-> TRUE]
  <2>1. x \in Opened(rs, i, sent)
    BY DEF Opened
  <2>2. x.to = y.to /\ x.req = y.msg
    OBVIOUS
  <2> QED BY <2>1, <2>2
<1>7. eng'[i] = f /\ \A j \in Voters : j # i => eng'[j] = eng[j]
  BY <1>1, EngineAfter
<1> HIDE DEF f, S, sent
<1>8. /\ f \in Engine /\ NodeOk(f, i) /\ SameRecord(s.eng, f)
      /\ f.role = s.eng.role /\ f.storage = s.eng.storage
      /\ f.match_index = s.eng.match_index /\ f.last_ae = s.eng.last_ae
      /\ f.ae_inflight = S
  BY <1>2, FreePeerOk
<1>9. rpcs' = rs \cup Opened(rs, i, sent)
  BY <1>1 DEF sent
<1>10. \A x \in rpcs' : x \in rs \/ (FreshRpc(x, i) /\ Carries(x, s.sends))
  BY <1>4, <1>5, <1>9 DEF Carries
<1>11. \A y \in s.sends : y.to \in S =>
           \E x \in rpcs' : FreshRpc(x, i) /\ x.to = y.to /\ x.req = y.msg
  BY <1>3, <1>5, <1>6, <1>9
<1> QED BY <1>2, <1>7, <1>8, <1>9, <1>10, <1>11 DEF Moves

\* A leader that sends AppendEntries, after it has perhaps appended one entry.
LEMMA LeaderSendsOk ==
    ASSUME BoundsAssumption, TypeOK, NodeInv, NEW i \in Voters, eng[i].role = Leader,
           NEW s, s.eng \in Engine, NodeOk(s.eng, i), SameOffice(eng[i], s.eng),
           \/ Log(s.eng) = Log(eng[i])
           \/ GrownByOne(Log(eng[i]), Log(s.eng), CurrentTerm(eng[i])),
           s.eng.commit_index = eng[i].commit_index,
           s.eng.match_index = eng[i].match_index,
           s.eng.ae_inflight = eng[i].ae_inflight \cup {x.to : x \in s.sends},
           \A p \in Voters : eng[i].last_ae[p] # None => s.eng.last_ae[p] # None,
           \A x \in s.sends : /\ x.to \in OtherVoters(i) /\ x.msg \in AppendEntries
                              /\ x.msg.term = CurrentTerm(eng[i])
                              /\ FragmentOf(x.msg, Log(s.eng))
                              /\ x.msg.leader_commit = eng[i].commit_index
                              /\ s.eng.last_ae[x.to] # None,
           Replicate(i, rpcs, s),
           UNCHANGED <<applied, ballots, elected, mixup>>
    PROVE  NodeStep(i)
<1>0. /\ rpcs \in SUBSET Rpc /\ eng[i] \in Engine /\ CurrentTerm(eng[i]) \in Nat
      /\ eng[i].commit_index \in Nat /\ eng[i].ae_inflight \in SUBSET Voters
  BY EngineFields DEF TypeOK, Engine
<1>1. /\ Moves(i) /\ SameRecord(s.eng, eng'[i])
      /\ eng'[i].role = s.eng.role /\ eng'[i].storage = s.eng.storage
      /\ eng'[i].match_index = s.eng.match_index
      /\ eng'[i].last_ae = s.eng.last_ae
      /\ eng'[i].ae_inflight \subseteq s.eng.ae_inflight
      /\ rpcs \subseteq rpcs'
      /\ \A x \in rpcs' : x \in rpcs \/ (FreshRpc(x, i) /\ Carries(x, s.sends))
      /\ \A y \in s.sends : y.to \in eng'[i].ae_inflight =>
            \E x \in rpcs' : FreshRpc(x, i) /\ x.to = y.to /\ x.req = y.msg
  BY <1>0, ReplicateOk
<1>2. /\ eng'[i].role = Leader /\ CurrentTerm(eng'[i]) = CurrentTerm(eng[i])
      /\ eng'[i].commit_index = eng[i].commit_index
      /\ Log(eng'[i]) = Log(s.eng)
  BY <1>1 DEF SameOffice, SameRecord, CurrentTerm
<1>3. RoleStep(eng[i], eng'[i])
  BY <1>0, <1>2 DEF RoleStep
<1>4. RequestStep(i)
  <2> SUFFICES ASSUME NEW x \in rpcs', x \notin rpcs
               PROVE  /\ FreshRpc(x, i) /\ x.req \in AppendEntries
                      /\ x.req.term = CurrentTerm(eng'[i])
                      /\ FragmentOf(x.req, Log(eng'[i]))
                      /\ x.req.leader_commit = eng'[i].commit_index
    BY <1>2 DEF RequestStep, SameRpc
  <2>1. FreshRpc(x, i) /\ \E y \in s.sends : x.req = y.msg
    BY <1>1 DEF Carries
  <2> QED BY <1>2, <2>1
<1>5. AnswerStep(i) /\ \A x \in rpcs' : Acks(x) => OldAck(x)
  BY <1>1 DEF AnswerStep, Acks, OldAck, SameRpc, FreshRpc
<1>6. LogStep(i)
  <2>1. CommitsByCounting(eng[i], i, eng'[i])
    BY <1>0, <1>2 DEF CommitsByCounting
  <2> QED BY <1>2, <1>5, <2>1 DEF LogStep, KeepsLog
<1>7. MatchStep(i)
  BY <1>1, <1>2 DEF MatchStep
<1>8. MarkStep(i)
  <2>1. \A y \in rpcs : y \in rpcs' /\ SameRpc(y, y)
    BY <1>1 DEF SameRpc
  <2>2. ASSUME NEW p \in eng'[i].ae_inflight
        PROVE  /\ eng'[i].last_ae[p] # None
               /\ \E x \in rpcs' : PendingAppend(x, i, p, CurrentTerm(eng'[i]))
    <3>1. p \in eng[i].ae_inflight \/ \E y \in s.sends : y.to = p
      BY <1>1
    <3>2. CASE p \in eng[i].ae_inflight
      BY <1>0, <1>1, <1>2, <3>2 DEF NodeInv, MarksOk
    <3>3. ASSUME NEW y \in s.sends, y.to = p
          PROVE  /\ s.eng.last_ae[p] # None
                 /\ \E x \in rpcs' : PendingAppend(x, i, p, CurrentTerm(eng'[i]))
      <4>1. PICK x \in rpcs' : FreshRpc(x, i) /\ x.to = p /\ x.req = y.msg
        BY <1>1, <2>2, <3>3
      <4> QED BY <1>2, <3>3, <4>1 DEF FreshRpc, PendingAppend
    <3> QED BY <1>1, <3>1, <3>2, <3>3
  <2> QED BY <2>1, <2>2 DEF MarkStep
<1>9. ApplyStep(i)
  BY <1>1, <1>2, NoApply DEF Moves
<1> QED BY <1>1, <1>3, <1>4, <1>5, <1>6, <1>7, <1>8, <1>9, NoElection DEF NodeStep

\* tick on a leader.
LEMMA HeartbeatOk ==
    ASSUME BoundsAssumption, TypeOK, NodeInv, NEW i \in Voters, Heartbeat(i)
    PROVE  NodeStep(i)
<1> DEFINE e == eng[i]
           peers == OtherVoters(i)
           s == SendAppendEntries(e, i, peers)
<1>1. /\ e \in Engine /\ NodeOk(e, i) /\ e.role = Leader
      /\ peers \in SUBSET OtherVoters(i) /\ peers \in SUBSET Voters
  BY DEF TypeOK, NodeInv, NodesOk, Heartbeat, OtherVoters
<1>2. Replicate(i, rpcs, s) /\ UNCHANGED <<applied, ballots, elected, mixup>>
  BY DEF Heartbeat
<1> HIDE DEF e, peers
<1>3. /\ s.eng \in Engine /\ SameOffice(e, s.eng)
      /\ \A x \in s.sends : /\ x.to \in peers /\ x.msg \in AppendEntries
                            /\ x.msg.term = CurrentTerm(e)
  BY <1>1, SendFacts
<1>4. /\ NodeOk(s.eng, i) /\ SameRecord(e, s.eng)
      /\ s.eng.match_index = e.match_index
      /\ s.eng.ae_inflight = e.ae_inflight \cup {x.to : x \in s.sends}
      /\ \A x \in s.sends : /\ FragmentOf(x.msg, Log(e))
                            /\ x.msg.leader_commit = e.commit_index
                            /\ s.eng.last_ae[x.to] # None
      /\ \A p \in Voters : e.last_ae[p] # None => s.eng.last_ae[p] # None
  BY <1>1, SendOk
<1>5. Log(s.eng) = Log(e) /\ s.eng.commit_index = e.commit_index
  BY <1>4 DEF SameRecord
<1> HIDE DEF s
<1>6. \A x \in s.sends : /\ x.to \in OtherVoters(i) /\ x.msg \in AppendEntries
                         /\ x.msg.term = CurrentTerm(e)
                         /\ FragmentOf(x.msg, Log(s.eng))
                         /\ x.msg.leader_commit = e.commit_index
                         /\ s.eng.last_ae[x.to] # None
  BY <1>1, <1>3, <1>4, <1>5
<1> QED BY <1>1, <1>2, <1>3, <1>4, <1>5, <1>6, LeaderSendsOk DEF e

\* propose on a leader.
LEMMA ClientProposeOk ==
    ASSUME BoundsAssumption, TypeOK, NodeInv, NEW i \in Voters, NEW data \in Data,
           ClientPropose(i, data)
    PROVE  NodeStep(i)
<1> DEFINE e == eng[i]
           s == Propose(e, i, data)
<1>1. e \in Engine /\ NodeOk(e, i) /\ e.role = Leader
  BY DEF TypeOK, NodeInv, NodesOk, ClientPropose
<1>2. Replicate(i, rpcs, s) /\ UNCHANGED <<applied, ballots, elected, mixup>>
  BY DEF ClientPropose
<1> HIDE DEF e
<1>3. /\ s.eng \in Engine /\ SameOffice(e, s.eng)
      /\ \A x \in s.sends : /\ x.to \in OtherVoters(i) /\ x.msg \in AppendEntries
                            /\ x.msg.term = CurrentTerm(e)
  BY <1>1, ProposeFacts
<1>4. /\ NodeOk(s.eng, i)
      /\ GrownByOne(Log(e), Log(s.eng), CurrentTerm(e))
      /\ s.eng.commit_index = e.commit_index
      /\ s.eng.match_index = e.match_index
      /\ s.eng.ae_inflight = e.ae_inflight \cup {x.to : x \in s.sends}
      /\ \A x \in s.sends : /\ FragmentOf(x.msg, Log(s.eng))
                            /\ x.msg.leader_commit = e.commit_index
                            /\ s.eng.last_ae[x.to] # None
      /\ \A p \in Voters : e.last_ae[p] # None => s.eng.last_ae[p] # None
  BY <1>1, ProposeOk
<1> HIDE DEF s
<1>5. \A x \in s.sends : /\ x.to \in OtherVoters(i) /\ x.msg \in AppendEntries
                         /\ x.msg.term = CurrentTerm(e)
                         /\ FragmentOf(x.msg, Log(s.eng))
                         /\ x.msg.leader_commit = e.commit_index
                         /\ s.eng.last_ae[x.to] # None
  BY <1>3, <1>4
<1> QED BY <1>1, <1>2, <1>3, <1>4, <1>5, LeaderSendsOk DEF e

\* A node that keeps its record, in a step that brings no successful answer.
LEMMA KeepsRecord ==
    ASSUME TypeOK, NEW i \in Voters, eng'[i] \in Engine, SameRecord(eng[i], eng'[i]),
           \A x \in rpcs' : Acks(x) => OldAck(x),
           applied' = applied
    PROVE  LogStep(i) /\ ApplyStep(i)
<1>1. eng[i].commit_index \in Nat
  BY EngineFields DEF TypeOK
<1>2. CommitsByCounting(eng[i], i, eng'[i])
  BY <1>1 DEF SameRecord, CommitsByCounting
<1>3. KeepsLog(i)
  BY <1>2 DEF KeepsLog, SameRecord
<1>4. ApplyStep(i)
  BY NoApply DEF SameRecord
<1> QED BY <1>3, <1>4 DEF LogStep

\* start_election.
LEMMA ElectionTimeoutOk ==
    ASSUME BoundsAssumption, TypeOK, NodeInv, NEW i \in Voters, ElectionTimeout(i)
    PROVE  NodeStep(i)
<1> DEFINE e == eng[i]
           f == StartElection(e, i)
           m == VoteRequest(f, i)
<1>1. /\ e \in Engine /\ NodeOk(e, i) /\ e.role # Leader /\ CurrentTerm(e) \in Nat
      /\ rpcs \in SUBSET Rpc
  BY EngineFields DEF TypeOK, NodeInv, NodesOk, ElectionTimeout
<1>2. PICK conn \in Connections(rpcs, i) :
        rpcs' = rpcs \cup Opened(rpcs, i, {[to |-> p, msg |-> m] : p \in conn})
  BY DEF ElectionTimeout
<1>3. /\ eng' = [eng EXCEPT ![i] = f]
      /\ ballots' = ballots \cup {Ballot(i, CurrentTerm(f), i)}
      /\ UNCHANGED <<applied, elected, mixup>>
  BY DEF ElectionTimeout, Ballot
<1>4. eng'[i] = f /\ \A j \in Voters : j # i => eng'[j] = eng[j]
  BY <1>3, EngineAfter
<1> HIDE DEF e
<1>5. /\ f \in Engine /\ f.role = Candidate
      /\ CurrentTerm(f) = CurrentTerm(e) + 1 /\ m \in RequestVote
      /\ NodeOk(f, i) /\ SameRecord(e, f)
  BY <1>1, StartElectionFacts, StartElectionOk
<1> DEFINE sends == {[to |-> p, msg |-> m] : p \in conn}
<1> HIDE DEF f
<1>6. m = VoteRequest(eng'[i], i)
  BY <1>4
<1> HIDE DEF m
<1>7. \A s \in sends : s.to \in conn /\ s.msg \in Request /\ s.msg = m
  BY <1>5 DEF Request
<1>8. rpcs' = rpcs \cup Opened(rpcs, i, sends)
  BY <1>2
<1> HIDE DEF sends
<1>9. \A x \in rpcs' : x \in rpcs \/ (FreshRpc(x, i) /\ x.req = m)
  <2>1. \A x \in Opened(rpcs, i, sends) : FreshRpc(x, i) /\ Carries(x, sends)
    BY <1>1, <1>7, OpenedFacts
  <2> QED BY <1>7, <1>8, <2>1 DEF Carries
<1>10. eng'[i].role = Candidate /\ eng'[i].role # Leader /\ eng'[i].role # Follower
  BY <1>4, <1>5 DEF Candidate, Leader, Follower
<1>11. Moves(i) /\ RoleStep(eng[i], eng'[i])
  BY <1>1, <1>4, <1>5, <1>10 DEF Moves, RoleStep, e
<1>12. RequestStep(i)
  BY <1>6, <1>9, <1>10 DEF RequestStep, SameRpc
<1>13. AnswerStep(i) /\ \A x \in rpcs' : Acks(x) => OldAck(x)
  BY <1>9 DEF AnswerStep, Acks, OldAck, SameRpc, FreshRpc
<1>14. LogStep(i) /\ ApplyStep(i)
  BY <1>3, <1>4, <1>5, <1>13, KeepsRecord DEF e
<1>15. MatchStep(i)
  BY <1>10 DEF MatchStep
<1>16. MarkStep(i)
  <2>1. eng'[i].ae_inflight = {}
    BY <1>4, <1>5, <1>10 DEF NodeOk, NoBooks
  <2>2. \A y \in rpcs : y \in rpcs' /\ SameRpc(y, y)
    BY <1>8 DEF SameRpc
  <2> QED BY <2>1, <2>2 DEF MarkStep
<1>17. ElectedStep(i)
  BY <1>3 DEF ElectedStep
<1>18. BallotStep(i)
  <2>1. /\ Ballot(i, CurrentTerm(f), i).voter = i /\ Ballot(i, CurrentTerm(f), i).cand = i
        /\ Ballot(i, CurrentTerm(f), i).term = CurrentTerm(eng'[i])
    BY <1>4 DEF Ballot
  <2>2. Log(eng'[i]) = Log(eng[i]) /\ CurrentTerm(eng'[i]) = CurrentTerm(eng[i]) + 1
    BY <1>4, <1>5 DEF SameRecord, e
  <2> QED BY <1>3, <1>10, <2>1, <2>2 DEF BallotStep
<1> QED BY <1>3, <1>11, <1>12, <1>13, <1>14, <1>15, <1>16, <1>17, <1>18 DEF NodeStep

\* Answering r keeps everybody's pending requests.
LEMMA AnsweredOk ==
    ASSUME TypeOK, NEW r \in rpcs, NEW reply \in Response, rpcs' = Answered(r, reply)
    PROVE  /\ \A x \in rpcs' : x \in rpcs \/ (SameRpc(x, r) /\ x.resp = reply)
           /\ \A y \in rpcs : y.waiting => \E x \in rpcs' : SameRpc(x, y) /\ x.waiting
<1> DEFINE a == [r EXCEPT !.resp = reply]
<1>1. SameRpc(a, r) /\ a.resp = reply /\ a.waiting = r.waiting
  BY DEF TypeOK, Rpc, SameRpc
<1> HIDE DEF a
<1>2. rpcs' = (rpcs \ {r}) \cup {x \in {a} : x.waiting}
  BY DEF Answered, a
<1>3. \A y \in rpcs : SameRpc(y, y)
  BY DEF SameRpc
<1> QED BY <1>1, <1>2, <1>3

\* A node that closed its books, or did not change them, has its marks right.
LEMMA MarksKept ==
    ASSUME TypeOK, NodeInv, NEW i \in Voters,
           eng'[i].ae_inflight # {} => eng'[i] = eng[i],
           \A y \in rpcs : y.waiting /\ (y.from # i \/ y.req \in AppendEntries) =>
               \E x \in rpcs' : SameRpc(x, y) /\ x.waiting
    PROVE  MarkStep(i)
<1>1. ASSUME NEW p \in eng'[i].ae_inflight
      PROVE  /\ eng'[i].last_ae[p] # None
             /\ \E x \in rpcs' : PendingAppend(x, i, p, CurrentTerm(eng'[i]))
  <2>1. eng'[i] = eng[i]
    BY <1>1
  <2>2. p \in eng[i].ae_inflight
    BY <1>1, <2>1
  <2>3. PICK y \in rpcs : PendingAppend(y, i, p, CurrentTerm(eng[i]))
    BY <2>2 DEF NodeInv, MarksOk
  <2>4. PICK x \in rpcs' : SameRpc(x, y) /\ x.waiting
    BY <2>3 DEF PendingAppend
  <2>5. PendingAppend(x, i, p, CurrentTerm(eng'[i]))
    BY <2>1, <2>3, <2>4 DEF PendingAppend, SameRpc
  <2> QED BY <2>1, <2>2, <2>5 DEF NodeInv, MarksOk
<1> QED BY <1>1 DEF MarkStep

\* handle_request_vote.
LEMMA OnRequestVoteOk ==
    ASSUME TypeOK, GrantsWereCast, NodeInv, NEW r \in rpcs, OnRequestVote(r)
    PROVE  NodeStep(r.to)
<1> DEFINE i == r.to
           e == eng[i]
           h == HandleRequestVote(e, r.req)
<1>1. /\ r \in Rpc /\ i \in Voters /\ e \in Engine /\ r.req \in RequestVote
      /\ NodeOk(e, i) /\ r.req.candidate_id = r.from /\ r.req.candidate_id # i
      /\ CurrentTerm(e) \in Nat /\ r.req.term \in Nat
  BY EngineFields DEF OnRequestVote, TypeOK, Rpc, Request, AppendEntries, RequestVote,
                      NodeInv, NodesOk, GrantsWereCast, OtherVoters
<1>2. /\ eng' = [eng EXCEPT ![i] = h.eng] /\ rpcs' = Answered(r, h.reply)
      /\ ballots' = ballots \cup
            {b \in {[voter |-> r.to, term |-> r.req.term, cand |-> r.req.candidate_id]} :
                h.reply.vote_granted}
      /\ UNCHANGED <<applied, elected, mixup>>
  BY DEF OnRequestVote
<1> HIDE DEF i, e
<1>3. eng'[i] = h.eng /\ \A j \in Voters : j # i => eng'[j] = eng[j]
  BY <1>1, <1>2, EngineAfter
<1>4. /\ h.eng \in Engine /\ h.reply \in RequestVoteResp
      /\ h.reply.vote_granted =>
            /\ CurrentTerm(h.eng) = r.req.term /\ r.req.term >= CurrentTerm(e)
            /\ h.eng.role = Follower
      /\ ~h.reply.vote_granted => CastsNoVote(e, h.eng) /\ KeepsOffice(e, h.eng)
  BY <1>1, HandleRequestVoteFacts
<1>5. /\ NodeOk(h.eng, i) /\ SameRecord(e, h.eng)
      /\ h.reply.vote_granted =>
             LogIsUpToDate(e.storage, r.req.last_log_index, r.req.last_log_term)
      /\ h.eng.ae_inflight # {} \/ h.eng.role = Leader => h.eng = e
  BY <1>1, HandleRequestVoteOk
<1> HIDE DEF h
<1>6. /\ \A x \in rpcs' : x \in rpcs \/ (SameRpc(x, r) /\ x.resp = h.reply)
      /\ \A y \in rpcs : y.waiting => \E x \in rpcs' : SameRpc(x, y) /\ x.waiting
  BY <1>2, <1>4, AnsweredOk DEF Response
<1>7. \A x \in rpcs : SameRpc(x, x)
  BY DEF SameRpc
<1>8. Moves(i) /\ RoleStep(e, eng'[i])
  <2>1. RoleStep(e, h.eng)
    BY <1>1, <1>4 DEF RoleStep, CastsNoVote, KeepsOffice
  <2> QED BY <1>3, <1>4, <1>5, <2>1 DEF Moves
<1>9. RequestStep(i)
  BY <1>6, <1>7 DEF RequestStep
<1>10. AnswerStep(i)
  <2> SUFFICES ASSUME NEW x \in rpcs', x \notin rpcs
               PROVE  x.to = i /\ x.req \in RequestVote /\ x.resp \in RequestVoteResp
    BY <1>7 DEF AnswerStep
  <2> QED BY <1>1, <1>4, <1>6 DEF SameRpc, i
<1>11. \A x \in rpcs' : Acks(x) => OldAck(x)
  <2>1. r.req \notin AppendEntries
    BY <1>1 DEF RequestVote, AppendEntries
  <2> QED BY <1>6, <1>7, <2>1 DEF Acks, OldAck, SameRpc
<1>12. LogStep(i) /\ ApplyStep(i)
  BY <1>1, <1>2, <1>3, <1>4, <1>5, <1>11, KeepsRecord DEF e
<1>13. MarkStep(i)
  BY <1>1, <1>3, <1>5, <1>6, MarksKept DEF e
<1>14. MatchStep(i)
  BY <1>3, <1>5 DEF MatchStep, e
<1>15. ElectedStep(i)
  BY <1>2 DEF ElectedStep
<1>16. BallotStep(i)
  <2> SUFFICES ASSUME NEW b \in ballots', b \notin ballots
               PROVE  /\ b.voter = i /\ b.term = CurrentTerm(eng'[i])
                      /\ Log(eng'[i]) = Log(eng[i])
                      /\ r.to = i /\ r.from = b.cand
                      /\ r.req \in RequestVote /\ r.req.term = b.term
                      /\ LogIsUpToDate(eng[i].storage, r.req.last_log_index,
                                       r.req.last_log_term)
                      /\ eng'[i].role = Follower
    BY <1>2 DEF BallotStep
  <2>1. /\ h.reply.vote_granted
        /\ b = [voter |-> i, term |-> r.req.term, cand |-> r.req.candidate_id]
    BY <1>2 DEF i
  <2>2. b.voter = i /\ b.term = r.req.term /\ b.cand = r.req.candidate_id
    BY <2>1
  <2> QED BY <1>1, <1>3, <1>4, <1>5, <2>1, <2>2 DEF SameRecord, i, e
<1> QED BY <1>2, <1>8, <1>9, <1>10, <1>12, <1>13, <1>14, <1>15, <1>16 DEF NodeStep, i, e

\* handle_request_vote_resp.
LEMMA OnRequestVoteRespOk ==
    ASSUME TypeOK, NodeInv, NEW r \in rpcs, OnRequestVoteResp(r)
    PROVE  NodeStep(r.from)
<1> DEFINE i == r.from
           e == eng[i]
           f == HandleRequestVoteResp(e, i, r.to, r.resp)
<1>1. /\ r \in Rpc /\ i \in Voters /\ r.to \in Voters /\ e \in Engine
      /\ r.resp \in RequestVoteResp /\ r.resp # None /\ NodeOk(e, i)
      /\ CurrentTerm(e) \in Nat
  BY EngineFields DEF OnRequestVoteResp, TypeOK, Rpc, Response, AppendEntriesResp,
                      NodeInv, NodesOk
<1>2. /\ eng' = [eng EXCEPT ![i] = f]
      /\ rpcs' = rpcs \ {r}
      /\ elected' = elected \cup {x \in {[term |-> CurrentTerm(f), node |-> i]} :
                                      e.role # Leader /\ f.role = Leader}
      /\ UNCHANGED <<applied, ballots, mixup>>
  BY DEF OnRequestVoteResp
<1> HIDE DEF i, e
<1>3. eng'[i] = f /\ \A j \in Voters : j # i => eng'[j] = eng[j]
  BY <1>1, <1>2, EngineAfter
<1>4. /\ f \in Engine /\ CastsNoVote(e, f)
      /\ \/ KeepsOffice(e, f)
         \/ /\ e.role = Candidate /\ CurrentTerm(f) = CurrentTerm(e)
            /\ f.role = Candidate \/ f.role = Leader
  <2>1. /\ f \in Engine /\ CastsNoVote(e, f)
        /\ \/ KeepsOffice(e, f) /\ (f.leader = None \/ SameOffice(e, f))
           \/ CountsVote(e, i, r.to, r.resp, f)
    BY <1>1, HandleRequestVoteRespFacts
  <2> QED BY <2>1 DEF CountsVote
<1>5. /\ NodeOk(f, i) /\ SameRecord(e, f)
      /\ f.ae_inflight # {} => f = e
      /\ f.role = Leader => f = e \/ f.match_index = [v \in Voters |-> 0]
  BY <1>1, HandleRequestVoteRespOk
<1> HIDE DEF f
<1>6. r.req \in RequestVote /\ r.req \notin AppendEntries
  BY <1>1 DEF NodeInv, RpcsOk, RequestVoteResp, AppendEntriesResp, RequestVote, AppendEntries
<1>7. \A x \in rpcs' : x \in rpcs /\ SameRpc(x, x)
  BY <1>2 DEF SameRpc
<1>8. Moves(i) /\ RoleStep(e, eng'[i])
  <2>1. RoleStep(e, f)
    BY <1>1, <1>4 DEF RoleStep, CastsNoVote, KeepsOffice
  <2> QED BY <1>3, <1>4, <1>5, <2>1 DEF Moves
<1>9. RequestStep(i) /\ AnswerStep(i) /\ \A x \in rpcs' : Acks(x) => OldAck(x)
  BY <1>7 DEF RequestStep, AnswerStep, OldAck
<1>10. LogStep(i) /\ ApplyStep(i)
  BY <1>1, <1>2, <1>3, <1>4, <1>5, <1>9, KeepsRecord DEF e
<1>11. MatchStep(i)
  <2>1. ASSUME f.role = Leader, f = e \/ f.match_index = [v \in Voters |-> 0]
        PROVE  MatchStep(i)
    BY <1>3, <2>1 DEF MatchStep, e, OtherVoters
  <2> QED BY <1>3, <1>5, <2>1 DEF MatchStep
<1>12. MarkStep(i)
  <2>1. \A y \in rpcs : y.waiting /\ (y.from # i \/ y.req \in AppendEntries) =>
               \E x \in rpcs' : SameRpc(x, y) /\ x.waiting
    BY <1>2, <1>6 DEF SameRpc, i
  <2> QED BY <1>1, <1>3, <1>5, <2>1, MarksKept DEF e
<1>13. ElectedStep(i)
  <2>1. e.role # Leader /\ f.role = Leader =>
            e.role = Candidate /\ CurrentTerm(f) = CurrentTerm(e)
    BY <1>4 DEF KeepsOffice, Leader, Follower
  <2> QED BY <1>2, <1>3, <2>1 DEF ElectedStep, e
<1>14. BallotStep(i)
  BY <1>2 DEF BallotStep
<1> QED BY <1>2, <1>8, <1>9, <1>10, <1>11, <1>12, <1>13, <1>14 DEF NodeStep, i, e

\* fail_pending and fail_peer_pending.
LEMMA GiveUpOk ==
    ASSUME TypeOK, NodeInv, NEW i \in Voters, NEW p \in Voters, NEW rs \in SUBSET rpcs,
           \A r \in rs : r.from = i /\ r.to = p,
           GiveUp(i, p, rs)
    PROVE  NodeStep(i)
<1> DEFINE e == eng[i]
           f == IF \E r \in rs : r.req.kind = "AppendEntries"
                THEN HandleRpcFailure(e, p, "AppendEntries") ELSE e
           S == IF \E r \in rs : r.req.kind = "AppendEntries"
                THEN e.ae_inflight \ {p} ELSE e.ae_inflight
<1>1. e \in Engine /\ NodeOk(e, i) /\ e.ae_inflight \in SUBSET Voters /\ CurrentTerm(e) \in Nat
  BY EngineFields DEF TypeOK, NodeInv, NodesOk, Engine
<1>2. /\ eng' = [eng EXCEPT ![i] = f]
      /\ rpcs' = (rpcs \ rs) \cup {[r EXCEPT !.waiting = FALSE] :
                                      r \in {x \in rs : x.resp = None}}
      /\ UNCHANGED <<applied, ballots, elected, mixup>>
  BY DEF GiveUp
<1>3. OnlyMarks(e, f, S) /\ S \subseteq e.ae_inflight /\ S \in SUBSET Voters
  <2>1. HandleRpcFailure(e, p, "AppendEntries") = [e EXCEPT !.ae_inflight = e.ae_inflight \ {p}]
    BY DEF HandleRpcFailure
  <2>2. e = [e EXCEPT !.ae_inflight = e.ae_inflight]
    BY <1>1 DEF Engine
  <2> QED BY <1>1, <2>1, <2>2 DEF OnlyMarks
<1>4. eng'[i] = f /\ \A j \in Voters : j # i => eng'[j] = eng[j]
  BY <1>2, EngineAfter
<1>5. \A r \in rs : r.req.kind = "AppendEntries" <=> r.req \in AppendEntries
  BY DEF TypeOK, Rpc, Request, RequestVote, AppendEntries
<1>6. ASSUME NEW q \in S, NEW y \in rs, y.to = q PROVE y.req \notin AppendEntries
  BY <1>5, <1>6
<1> HIDE DEF f, S
<1>7. /\ f \in Engine /\ NodeOk(f, i) /\ SameRecord(e, f)
      /\ f.role = e.role /\ f.storage = e.storage
      /\ f.match_index = e.match_index /\ f.last_ae = e.last_ae
      /\ f.ae_inflight = S
  BY <1>1, <1>3, FreePeerOk
<1>8. \A x \in rpcs' : \E y \in rpcs : SameRpc(x, y) /\ y.resp = x.resp
  <2> TAKE x \in rpcs'
  <2>1. CASE x \in rpcs
    BY <2>1 DEF SameRpc
  <2>2. CASE x \notin rpcs
    <3>1. PICK r \in rs : x = [r EXCEPT !.waiting = FALSE]
      BY <1>2, <2>2
    <3>2. r \in Rpc
      BY DEF TypeOK
    <3>3. SameRpc(x, r) /\ r.resp = x.resp
      BY <3>1, <3>2 DEF Rpc, SameRpc
    <3> QED BY <3>3
  <2> QED BY <2>1, <2>2
<1>9. CurrentTerm(f) = CurrentTerm(e)
  BY <1>7 DEF CurrentTerm
<1>10. Moves(i) /\ RoleStep(e, eng'[i])
  BY <1>1, <1>4, <1>7, <1>9 DEF Moves, RoleStep
<1>11. RequestStep(i) /\ AnswerStep(i) /\ \A x \in rpcs' : Acks(x) => OldAck(x)
  BY <1>8 DEF RequestStep, AnswerStep, OldAck
<1>12. LogStep(i) /\ ApplyStep(i)
  BY <1>2, <1>4, <1>7, <1>11, KeepsRecord
<1>13. MatchStep(i)
  BY <1>4, <1>7, <1>9 DEF MatchStep
<1>14. MarkStep(i)
  <2>1. \A y \in rpcs : y.from # i => y \in rpcs' /\ SameRpc(y, y)
    BY <1>2 DEF SameRpc
  <2>2. ASSUME NEW q \in S
        PROVE  /\ e.last_ae[q] # None
               /\ \E x \in rpcs' : PendingAppend(x, i, q, CurrentTerm(f))
    <3>1. q \in e.ae_inflight
      BY <1>3
    <3>2. PICK y \in rpcs : PendingAppend(y, i, q, CurrentTerm(e))
      BY <3>1 DEF NodeInv, MarksOk
    <3>3. y \notin rs
      BY <1>6, <3>2 DEF PendingAppend
    <3> QED BY <1>2, <1>9, <3>1, <3>2, <3>3 DEF NodeInv, MarksOk
  <2> QED BY <1>4, <1>7, <2>1, <2>2 DEF MarkStep
<1> QED BY <1>2, <1>10, <1>11, <1>12, <1>13, <1>14, NoElection DEF NodeStep

\* A lost request.
LEMMA RequestLostOk ==
    ASSUME TypeOK, NodeInv, NEW r \in rpcs, RequestLost(r)
    PROVE  NodeStep(r.from)
<1> DEFINE i == r.from
<1>1. /\ i \in Voters /\ eng[i] \in Engine /\ NodeOk(eng[i], i)
      /\ CurrentTerm(eng[i]) \in Nat
  BY EngineFields DEF TypeOK, Rpc, NodeInv, NodesOk
<1>2. /\ UNCHANGED <<eng, applied, ballots, elected, mixup>>
      /\ rpcs' = rpcs \ {r} /\ ~r.waiting
  BY DEF RequestLost
<1> HIDE DEF i
<1>3. \A x \in rpcs' : x \in rpcs /\ SameRpc(x, x)
  BY <1>2 DEF SameRpc
<1>4. Moves(i) /\ RoleStep(eng[i], eng'[i])
  BY <1>1, <1>2 DEF Moves, RoleStep
<1>5. RequestStep(i) /\ AnswerStep(i) /\ \A x \in rpcs' : Acks(x) => OldAck(x)
  BY <1>3 DEF RequestStep, AnswerStep, OldAck
<1>6. LogStep(i) /\ ApplyStep(i)
  BY <1>1, <1>2, <1>5, KeepsRecord DEF SameRecord
<1>7. MatchStep(i)
  BY <1>2 DEF MatchStep
<1>8. MarkStep(i)
  <2>1. \A y \in rpcs : y.waiting => y \in rpcs' /\ SameRpc(y, y)
    BY <1>2 DEF SameRpc
  <2> QED BY <1>1, <1>2, <2>1, MarksKept
<1> QED BY <1>2, <1>4, <1>5, <1>6, <1>7, <1>8, NoElection DEF NodeStep, i

\* handle_append_entries.
LEMMA OnAppendEntriesOk ==
    ASSUME TypeOK, NodeInv, NEW r \in rpcs, OnAppendEntries(r)
    PROVE  NodeStep(r.to)
<1> DEFINE i == r.to
           e == eng[i]
           m == r.req
           h == HandleAppendEntries(e, m)
<1>1. /\ r \in Rpc /\ i \in Voters /\ e \in Engine /\ m \in AppendEntries
      /\ NodeOk(e, i) /\ Consecutive(m)
      /\ CurrentTerm(e) \in Nat /\ m.term \in Nat
  BY EngineFields DEF OnAppendEntries, TypeOK, Rpc, Request, RequestVote, AppendEntries,
                      NodeInv, NodesOk, RpcsOk
<1>2. /\ eng' = [eng EXCEPT ![i] = h.eng] /\ rpcs' = Answered(r, h.reply)
      /\ applied' = [applied EXCEPT ![i] = applied[i] \o h.apply]
      /\ UNCHANGED <<ballots, elected, mixup>>
  BY DEF OnAppendEntries, Hand
<1>m. SameRpc(r, r) /\ r.req = m /\ r.to = i
  BY DEF SameRpc
<1> HIDE DEF i, e, m
<1>3. eng'[i] = h.eng /\ \A j \in Voters : j # i => eng'[j] = eng[j]
  BY <1>1, <1>2, EngineAfter
<1>4. /\ h.eng \in Engine /\ h.reply \in AppendEntriesResp /\ h.apply \in Seq(LogEntry)
      /\ CastsNoVote(e, h.eng)
      /\ \/ h.eng = e
         \/ h.eng.role = Follower
  BY <1>1, HandleAppendEntriesFacts
<1>5. /\ NodeOk(h.eng, i)
      /\ Handed(e, h.eng, h.apply)
      /\ h.reply.term = CurrentTerm(h.eng) /\ CurrentTerm(h.eng) >= m.term
      /\ h.eng.ae_inflight # {} => h.eng = e
      /\ ~h.reply.success => SameRecord(e, h.eng)
      /\ h.reply.success =>
           /\ CurrentTerm(h.eng) = m.term
           /\ h.eng.role = Follower
           /\ Accepted(Log(e), m, Log(h.eng))
           /\ h.eng.commit_index > e.commit_index =>
                 /\ h.eng.commit_index <= m.leader_commit
                 /\ h.eng.commit_index <= LastNew(m)
  BY <1>1, HandleAppendEntriesOk
<1> HIDE DEF h
<1>6. /\ \A x \in rpcs' : x \in rpcs \/ (SameRpc(x, r) /\ x.resp = h.reply)
      /\ \A y \in rpcs : y.waiting => \E x \in rpcs' : SameRpc(x, y) /\ x.waiting
  BY <1>2, <1>4, AnsweredOk DEF Response
<1>7. \A x \in rpcs : SameRpc(x, x)
  BY DEF SameRpc
<1>8. Moves(i) /\ RoleStep(e, eng'[i])
  <2>1. RoleStep(e, h.eng)
    BY <1>1, <1>4 DEF RoleStep, CastsNoVote
  <2> QED BY <1>3, <1>4, <1>5, <2>1 DEF Moves
<1>9. RequestStep(i)
  BY <1>6, <1>7 DEF RequestStep
<1>10. AnswerStep(i)
  <2> SUFFICES ASSUME NEW x \in rpcs', x \notin rpcs
               PROVE  /\ x.to = i /\ x.req \in AppendEntries /\ x.resp \in AppendEntriesResp
                      /\ x.resp.term >= x.req.term
    BY <1>7 DEF AnswerStep
  <2> QED BY <1>1, <1>4, <1>5, <1>6, <1>m DEF SameRpc
<1>11. LogStep(i)
  <2>1. CASE h.reply.success
    <3>1. \A x \in rpcs' : Acks(x) =>
              OldAck(x) \/ (x.to = i /\ x.req = r.req /\ x.resp.term = r.req.term)
      BY <1>5, <1>6, <1>7, <1>m, <2>1 DEF OldAck, SameRpc
    <3>2. Accepts(i, r)
      BY <1>1, <1>3, <1>5, <1>m, <2>1, <3>1 DEF Accepts, e
    <3> QED BY <3>2 DEF LogStep
  <2>2. CASE ~h.reply.success
    <3>1. \A x \in rpcs' : Acks(x) => OldAck(x)
      BY <1>6, <1>7, <2>2 DEF Acks, OldAck
    <3>2. CommitsByCounting(e, i, h.eng)
      BY <1>1, <1>5, <2>2, EngineFields DEF SameRecord, CommitsByCounting
    <3>3. KeepsLog(i)
      BY <1>3, <1>5, <2>2, <3>1, <3>2 DEF KeepsLog, SameRecord, e
    <3> QED BY <3>3 DEF LogStep
  <2> QED BY <2>1, <2>2
<1>12. MatchStep(i)
  BY <1>3, <1>4 DEF MatchStep, e, Leader, Follower
<1>13. MarkStep(i)
  BY <1>1, <1>3, <1>5, <1>6, MarksKept DEF e
<1>14. ApplyStep(i)
  BY <1>2, <1>3, <1>4, <1>5 DEF ApplyStep, e
<1> QED BY <1>2, <1>8, <1>9, <1>10, <1>11, <1>12, <1>13, <1>14, NoElection
        DEF NodeStep, i, e

\* handle_append_entries_resp.
LEMMA OnAppendEntriesRespOk ==
    ASSUME BoundsAssumption, TypeOK, NodeInv, NEW r \in rpcs, OnAppendEntriesResp(r)
    PROVE  NodeStep(r.from)
<1> DEFINE i == r.from
           from == r.to
           e == eng[i]
           m == r.resp
           h == HandleAppendEntriesResp(e, i, from, m)
           rs == rpcs \ {r}
<1>1. /\ r \in Rpc /\ i \in Voters /\ e \in Engine /\ from \in OtherVoters(i)
      /\ m \in AppendEntriesResp /\ rs \in SUBSET Rpc /\ rs \in SUBSET rpcs
      /\ NodeOk(e, i) /\ from \in Voters /\ m # None
      /\ CurrentTerm(e) \in Nat /\ m.term \in Nat
  BY EngineFields DEF OnAppendEntriesResp, TypeOK, Rpc, Response, RequestVoteResp,
                      AppendEntriesResp, NodeInv, NodesOk
<1>2. /\ Replicate(i, rs, h)
      /\ applied' = [applied EXCEPT ![i] = applied[i] \o h.apply]
      /\ ballots' = ballots /\ elected' = elected
      /\ mixup' = (mixup \/ Misattributed(r))
  BY DEF OnAppendEntriesResp, Hand
<1>3. r.req \in AppendEntries /\ m.term >= r.req.term
  BY <1>1 DEF NodeInv, RpcsOk, RequestVoteResp, AppendEntriesResp
<1>4. \A y \in rpcs : y # r => y \in rs /\ SameRpc(y, y)
  BY DEF SameRpc
<1> HIDE DEF i, from, e, m, rs
<1>5. /\ h.eng \in Engine /\ h.apply \in Seq(LogEntry)
      /\ CastsNoVote(e, h.eng)
      /\ h.eng.role = Follower \/ SameOffice(e, h.eng)
      /\ \A x \in h.sends : /\ x.to \in OtherVoters(i) /\ x.msg \in AppendEntries
                            /\ x.msg.term = CurrentTerm(e)
  BY <1>1, HandleAppendEntriesRespFacts
<1>6. /\ NodeOk(h.eng, i) /\ Log(h.eng) = Log(e)
      /\ Handed(e, h.eng, h.apply)
      /\ \A x \in h.sends : /\ FragmentOf(x.msg, Log(e))
                            /\ x.msg.leader_commit = h.eng.commit_index
                            /\ x.to = from /\ h.eng.last_ae[from] # None
      /\ BooksAfterResp(e, i, from, m, h)
      /\ CommitsByCounting(e, i, h.eng)
  BY <1>1, HandleAppendEntriesRespOk
<1> HIDE DEF h
<1>7. \A x \in h.sends : x.to \in OtherVoters(i) /\ x.msg \in AppendEntries
  BY <1>5
<1> DEFINE f == eng'[i]
<1>8. /\ Moves(i) /\ SameRecord(h.eng, f)
      /\ f.role = h.eng.role /\ f.storage = h.eng.storage
      /\ f.match_index = h.eng.match_index
      /\ f.last_ae = h.eng.last_ae
      /\ f.ae_inflight \subseteq h.eng.ae_inflight
      /\ rs \subseteq rpcs'
      /\ \A x \in rpcs' : x \in rs \/ (FreshRpc(x, i) /\ Carries(x, h.sends))
      /\ \A y \in h.sends : y.to \in f.ae_inflight =>
            \E x \in rpcs' : FreshRpc(x, i) /\ x.to = y.to /\ x.req = y.msg
  BY <1>1, <1>2, <1>5, <1>6, <1>7, ReplicateOk
<1>9. /\ CurrentTerm(f) = CurrentTerm(h.eng) /\ Log(f) = Log(e)
      /\ f.commit_index = h.eng.commit_index
  BY <1>6, <1>8 DEF CurrentTerm, SameRecord
<1>e. e = eng[i]
  BY DEF e
<1> HIDE DEF f
<1>10. ASSUME h.eng.role = Leader PROVE e.role = Leader /\ CurrentTerm(h.eng) = CurrentTerm(e)
  BY <1>5, <1>10 DEF SameOffice, CurrentTerm, Leader, Follower
<1>11. ASSUME NEW x \in h.sends PROVE h.eng.role = Leader
  <2> SUFFICES ASSUME h.eng.role # Leader PROVE FALSE
    OBVIOUS
  <2>1. h.eng.last_ae = [v \in Voters |-> None]
    BY <1>6 DEF NodeOk, NoBooks
  <2> QED BY <1>1, <1>6, <1>11, <2>1
<1>12. RoleStep(e, f)
  <2>1. RoleStep(e, h.eng)
    BY <1>1, <1>5 DEF RoleStep, CastsNoVote, SameOffice, CurrentTerm
  <2> QED BY <1>8, <1>9, <2>1 DEF RoleStep
<1>13. RequestStep(i)
  <2> SUFFICES ASSUME NEW x \in rpcs', x \notin rs
               PROVE  /\ FreshRpc(x, i) /\ x.req \in AppendEntries
                      /\ e.role = Leader /\ f.role = Leader
                      /\ x.req.term = CurrentTerm(f)
                      /\ FragmentOf(x.req, Log(f))
                      /\ x.req.leader_commit = f.commit_index
    BY <1>1 DEF RequestStep, SameRpc, e, f
  <2>1. FreshRpc(x, i) /\ \E y \in h.sends : x.req = y.msg
    BY <1>8 DEF Carries
  <2> QED BY <1>5, <1>6, <1>8, <1>9, <1>10, <1>11, <2>1
<1>14. AnswerStep(i) /\ \A x \in rpcs' : Acks(x) => OldAck(x)
  BY <1>1, <1>8 DEF AnswerStep, Acks, OldAck, SameRpc, FreshRpc
<1>15. LogStep(i)
  <2>1. CommitsByCounting(e, i, f)
    BY <1>6, <1>8, <1>9 DEF CommitsByCounting
  <2> QED BY <1>9, <1>14, <2>1 DEF LogStep, KeepsLog, e, f
<1>16. MatchStep(i)
  <2> SUFFICES ASSUME f.role = Leader, NEW p \in OtherVoters(i)
               PROVE  \/ /\ e.role = Leader /\ CurrentTerm(f) = CurrentTerm(e)
                         /\ f.match_index[p] = e.match_index[p]
                      \/ /\ Acks(r) /\ r.to = p
                         /\ r.resp.term = CurrentTerm(f)
                         /\ mixup' \/ f.match_index[p] = LastNew(r.req)
    BY DEF MatchStep, e, f
  <2>1. e.role = Leader /\ CurrentTerm(f) = CurrentTerm(e) /\ p \in Voters
    BY <1>8, <1>9, <1>10 DEF OtherVoters
  <2>2. CASE f.match_index = e.match_index
    BY <2>1, <2>2
  <2>3. CASE f.match_index # e.match_index
    <3>1. /\ m.success /\ m.term = CurrentTerm(e) /\ e.last_ae[from] # None
          /\ f.match_index = [e.match_index EXCEPT ![from] = Matched(e, from)]
      BY <1>6, <1>8, <2>3 DEF BooksAfterResp
    <3>2. e.match_index \in [Voters -> Nat]
      BY <1>1, EngineFields
    <3>3. CASE p # from
      BY <2>1, <3>1, <3>2, <3>3
    <3>4. CASE p = from
      <4>1. f.match_index[p] = Matched(e, from)
        BY <2>1, <3>1, <3>2, <3>4
      <4>2. Acks(r) /\ r.to = p /\ r.resp.term = CurrentTerm(f)
        BY <1>1, <1>3, <2>1, <3>1, <3>4 DEF Acks, m, from
      <4>3. ASSUME ~mixup' PROVE Matched(e, from) = LastNew(r.req)
        <5>1. ~Misattributed(r)
          BY <1>2, <4>3
        <5>2. e.last_ae[from] = [prev |-> r.req.prev_log_index, len |-> Len(r.req.entries)]
          BY <2>1, <3>1, <5>1 DEF Misattributed, e, i, from, m
        <5> QED BY <5>2 DEF Matched, LastNew
      <4> QED BY <4>1, <4>2, <4>3
    <3> QED BY <3>3, <3>4
  <2> QED BY <2>2, <2>3
<1>17. MarkStep(i)
  <2>1. \A y \in rpcs : y.from # i => y \in rpcs' /\ SameRpc(y, y)
    BY <1>4, <1>8 DEF i
  <2>2. ASSUME NEW p \in f.ae_inflight
        PROVE  f.last_ae[p] # None /\ \E x \in rpcs' : PendingAppend(x, i, p, CurrentTerm(f))
    <3>0. p \in h.eng.ae_inflight
      BY <1>8, <2>2
    <3>1. h.eng.role = Leader
      BY <1>6, <3>0 DEF NodeOk, NoBooks
    <3>2. e.role = Leader /\ CurrentTerm(f) = CurrentTerm(e)
      BY <1>9, <1>10, <3>1
    <3>3. CASE \E x \in h.sends : x.to = p
      <4>1. PICK y \in h.sends : y.to = p
        BY <3>3
      <4>2. PICK x \in rpcs' : FreshRpc(x, i) /\ x.to = p /\ x.req = y.msg
        BY <1>8, <2>2, <4>1
      <4>3. PendingAppend(x, i, p, CurrentTerm(f))
        BY <1>5, <3>2, <4>1, <4>2 DEF FreshRpc, PendingAppend
      <4> QED BY <1>6, <1>8, <4>1, <4>3
    <3>4. CASE ~\E x \in h.sends : x.to = p
      <4>1. p \in e.ae_inflight /\ p \in Voters
        <5>1. h.eng.ae_inflight \subseteq e.ae_inflight \cup {x.to : x \in h.sends}
          BY <1>6 DEF BooksAfterResp
        <5>2. p \in e.ae_inflight
          BY <3>0, <3>4, <5>1
        <5>3. e.ae_inflight \subseteq Voters
          BY <1>1 DEF Engine
        <5> QED BY <5>2, <5>3
      <4>2. e.last_ae[p] # None
        BY <1>1, <1>e, <4>1 DEF NodeInv, MarksOk
      <4>3. f.last_ae[p] # None
        BY <1>6, <1>8, <3>0, <4>1, <4>2 DEF BooksAfterResp
      <4>4. PICK y \in rpcs : PendingAppend(y, i, p, CurrentTerm(e))
        BY <1>1, <1>e, <4>1 DEF NodeInv, MarksOk
      <4>5. y # r
        <5> SUFFICES ASSUME y = r PROVE FALSE
          OBVIOUS
        <5>1. p = from /\ r.req.term = CurrentTerm(e)
          BY <4>4 DEF PendingAppend, from
        <5>2. m.term >= CurrentTerm(e)
          BY <1>3, <5>1
        <5> QED BY <1>6, <3>0, <3>4, <4>2, <5>1, <5>2 DEF BooksAfterResp
      <4> QED BY <1>4, <1>8, <3>2, <4>3, <4>4, <4>5
    <3> QED BY <3>3, <3>4
  <2> QED BY <2>1, <2>2 DEF MarkStep, f
<1>18. ApplyStep(i)
  <2>1. Handed(e, f, h.apply)
    BY <1>6, <1>9 DEF Handed
  <2> QED BY <1>2, <1>5, <2>1 DEF ApplyStep, e, f
<1>19. mixup => mixup'
  BY <1>2
<1> QED BY <1>2, <1>8, <1>12, <1>13, <1>14, <1>15, <1>16, <1>17, <1>18, <1>19, NoElection
        DEF NodeStep, i, e, f

\* Every step of the cluster is the step of one node.
LEMMA StepsAreNodeSteps ==
    ASSUME TypeOK, GrantsWereCast, NodeInv, Next
    PROVE  \E i \in Voters : NodeStep(i)
<1>1. ASSUME NEW r \in rpcs PROVE r.from \in Voters /\ r.to \in Voters
  BY DEF TypeOK, Rpc
<1>2. ASSUME NEW i \in Voters, NEW p \in OtherVoters(i), ConnectionLost(i, p)
      PROVE  NodeStep(i)
  <2> DEFINE rs == {r \in rpcs : r.from = i /\ r.to = p /\ r.waiting}
  <2>1. GiveUp(i, p, rs) /\ p \in Voters /\ rs \in SUBSET rpcs
        /\ \A r \in rs : r.from = i /\ r.to = p
    BY <1>2 DEF ConnectionLost, OtherVoters
  <2> HIDE DEF rs
  <2> QED BY <2>1, GiveUpOk
<1>3. ASSUME NEW r \in rpcs, RpcFails(r) PROVE NodeStep(r.from)
  <2> DEFINE rs == {r}
             i == r.from
             p == r.to
  <2>1. GiveUp(i, p, rs) /\ i \in Voters /\ p \in Voters /\ rs \in SUBSET rpcs
        /\ \A x \in rs : x.from = i /\ x.to = p
    BY <1>1, <1>3 DEF RpcFails
  <2> HIDE DEF rs, i, p
  <2>2. NodeStep(i)
    BY <2>1, GiveUpOk
  <2> QED BY <2>2 DEF i
<1> QED BY <1>1, <1>2, <1>3, BoundsAssumption, ElectionTimeoutOk, HeartbeatOk,
           ClientProposeOk, OnRequestVoteOk, OnAppendEntriesOk, OnRequestVoteRespOk,
           OnAppendEntriesRespOk, RequestLostOk DEF Next

-----------------------------------------------------------------------------
(***************************************************************************)
(* The node invariant, and what it says about the books, the marks and the *)
(* entries handed out.                                                     *)
(***************************************************************************)

\* A sequence of consecutive entries, continued.
LEMMA ContiguousContinues ==
    ASSUME NEW s \in Seq(LogEntry), NEW t \in Seq(LogEntry), Contiguous(s),
           \A k \in 1 .. Len(t) : t[k].index = Len(s) + k
    PROVE  Contiguous(s \o t) /\ Len(s \o t) = Len(s) + Len(t)
<1>1. Len(s) \in Nat /\ Len(t) \in Nat /\ Len(s \o t) = Len(s) + Len(t)
      /\ DOMAIN (s \o t) = 1 .. Len(s) + Len(t)
  OBVIOUS
<1>2. ASSUME NEW k \in 1 .. Len(s) + Len(t) PROVE (s \o t)[k].index = k
  <2>1. CASE k <= Len(s)
    <3>1. (s \o t)[k] = s[k] /\ k \in DOMAIN s
      BY <1>1, <2>1
    <3> QED BY <3>1 DEF Contiguous
  <2>2. CASE ~(k <= Len(s))
    <3>1. (s \o t)[k] = t[k - Len(s)] /\ k - Len(s) \in 1 .. Len(t)
      BY <1>1, <2>2
    <3>2. t[k - Len(s)].index = Len(s) + (k - Len(s))
      BY <3>1
    <3> QED BY <1>1, <3>1, <3>2
  <2> QED BY <2>1, <2>2
<1> QED BY <1>1, <1>2 DEF Contiguous

\* A step of a node keeps the node invariant.
LEMMA NodeStepKeepsNodeInv ==
    ASSUME TypeOK, NodeInv, NEW i \in Voters, NodeStep(i)
    PROVE  NodeInv'
<1>0. Moves(i) /\ RequestStep(i) /\ AnswerStep(i) /\ MarkStep(i) /\ ApplyStep(i)
  BY DEF NodeStep
<1>1. NodesOk'
  <2> SUFFICES ASSUME NEW j \in Voters PROVE NodeOk(eng'[j], j)
    BY DEF NodesOk, NodeOk, Log, VotedFor, NoBooks, BooksFit, Matched
  <2> QED BY <1>0 DEF Moves, NodeInv, NodesOk
<1>2. RpcsOk'
  <2> SUFFICES ASSUME NEW x \in rpcs'
               PROVE  /\ x.req \in AppendEntries => Consecutive(x.req)
                      /\ x.resp # None =>
                            \/ x.req \in RequestVote /\ x.resp \in RequestVoteResp
                            \/ /\ x.req \in AppendEntries /\ x.resp \in AppendEntriesResp
                               /\ x.resp.term >= x.req.term
    BY DEF RpcsOk, Consecutive
  <2>1. ASSUME x.req \in AppendEntries PROVE Consecutive(x.req)
    <3>1. CASE \E y \in rpcs : SameRpc(x, y)
      BY <2>1, <3>1 DEF SameRpc, NodeInv, RpcsOk
    <3>2. CASE FragmentOf(x.req, Log(eng'[i]))
      <4>1. Log(eng'[i]) \in Seq(LogEntry) /\ Contiguous(Log(eng'[i]))
        BY <1>0, EngineFields DEF Moves, NodeOk
      <4> QED BY <2>1, <3>2, <4>1, FragmentsAreConsecutive
    <3>3. CASE x.req = VoteRequest(eng'[i], i)
      BY <2>1, <3>3 DEF VoteRequest, AppendEntries
    <3> QED BY <1>0, <3>1, <3>2, <3>3 DEF RequestStep
  <2>2. ASSUME x.resp # None
        PROVE  \/ x.req \in RequestVote /\ x.resp \in RequestVoteResp
               \/ /\ x.req \in AppendEntries /\ x.resp \in AppendEntriesResp
                  /\ x.resp.term >= x.req.term
    BY <1>0, <2>2 DEF AnswerStep, SameRpc, NodeInv, RpcsOk
  <2> QED BY <2>1, <2>2
<1>3. MarksOk'
  <2> SUFFICES ASSUME NEW j \in Voters, NEW p \in eng'[j].ae_inflight
               PROVE  /\ eng'[j].last_ae[p] # None
                      /\ \E x \in rpcs' : PendingAppend(x, j, p, CurrentTerm(eng'[j]))
    BY DEF MarksOk, PendingAppend, CurrentTerm
  <2>1. CASE j = i
    BY <1>0, <2>1 DEF MarkStep
  <2>2. CASE j # i
    <3>1. eng'[j] = eng[j]
      BY <1>0, <2>2 DEF Moves
    <3>2. PICK y \in rpcs : PendingAppend(y, j, p, CurrentTerm(eng[j]))
      BY <3>1 DEF NodeInv, MarksOk
    <3>3. PICK x \in rpcs' : SameRpc(x, y) /\ x.waiting
      BY <1>0, <2>2, <3>2 DEF MarkStep, PendingAppend
    <3>4. PendingAppend(x, j, p, CurrentTerm(eng'[j]))
      BY <3>1, <3>2, <3>3 DEF PendingAppend, SameRpc
    <3> QED BY <3>1, <3>4 DEF NodeInv, MarksOk
  <2> QED BY <2>1, <2>2
<1>4. AppliedOk'
  <2> SUFFICES ASSUME NEW j \in Voters
               PROVE  /\ Len(applied'[j]) = eng'[j].commit_index
                      /\ Contiguous(applied'[j])
    BY DEF AppliedOk, Contiguous
  <2>1. PICK apply \in Seq(LogEntry) :
            /\ Handed(eng[i], eng'[i], apply)
            /\ applied' = [applied EXCEPT ![i] = applied[i] \o apply]
    BY <1>0 DEF ApplyStep
  <2>2. CASE j # i
    BY <1>0, <2>1, <2>2 DEF Moves, TypeOK, NodeInv, AppliedOk
  <2>3. CASE j = i
    <3> DEFINE old == applied[i]
               log == Log(eng'[i])
               c == eng[i].commit_index
    <3>1. /\ old \in Seq(LogEntry) /\ Contiguous(old) /\ Len(old) = c
          /\ applied'[i] = old \o apply
      BY <2>1 DEF TypeOK, NodeInv, AppliedOk
    <3>2. /\ log \in Seq(LogEntry) /\ Contiguous(log) /\ eng'[i].commit_index \in Nat
          /\ c \in Nat
      BY <1>0, EngineFields DEF Moves, NodeOk, TypeOK
    <3>3. /\ eng'[i].commit_index >= c
          /\ eng'[i].commit_index > c => eng'[i].commit_index <= Len(log)
          /\ Len(apply) = eng'[i].commit_index - c
          /\ \A k \in 1 .. Len(apply) : apply[k] = log[c + k]
      BY <2>1 DEF Handed
    <3> HIDE DEF old, log, c
    <3>4. ASSUME NEW k \in 1 .. Len(apply) PROVE apply[k].index = Len(old) + k
      <4>1. c + k \in DOMAIN log
        BY <3>2, <3>3
      <4> QED BY <3>1, <3>2, <3>3, <4>1 DEF Contiguous
    <3>5. Contiguous(old \o apply) /\ Len(old \o apply) = Len(old) + Len(apply)
      BY <3>1, <3>4, ContiguousContinues
    <3> QED BY <2>3, <3>1, <3>2, <3>3, <3>5
  <2> QED BY <2>2, <2>3
<1> QED BY <1>1, <1>2, <1>3, <1>4 DEF NodeInv

\* RaftEngine::new is in order.
LEMMA InitNodeInv == Init => NodeInv
<1> SUFFICES ASSUME Init PROVE NodeInv
  OBVIOUS
<1>1. \A i \in Voters :
          /\ Log(eng[i]) = <<>> /\ eng[i].role = Follower /\ NoBooks(eng[i])
          /\ eng[i].last_applied = 0 /\ eng[i].commit_index = 0
          /\ eng[i].ae_inflight = {}
  BY DEF Init, NewEngine, NewStorage, Log, NoBooks
<1>2. Contiguous(<<>>)
  BY DEF Contiguous
<1>3. NodesOk
  BY <1>1, <1>2 DEF NodesOk, NodeOk, Leader, Follower
<1>4. RpcsOk /\ MarksOk
  BY <1>1 DEF Init, RpcsOk, MarksOk
<1>5. AppliedOk
  BY <1>1, <1>2 DEF Init, AppliedOk
<1> QED BY <1>3, <1>4, <1>5 DEF NodeInv

\* A step that changes nothing keeps the node invariant.
LEMMA StutterKeepsNodeInv ==
    ASSUME NodeInv, UNCHANGED vars
    PROVE  NodeInv'
BY DEF vars, NodeInv, NodesOk, RpcsOk, MarksOk, AppliedOk, NodeOk, Log, VotedFor, NoBooks,
       BooksFit, Matched, Consecutive, PendingAppend, CurrentTerm, Contiguous

\* Every node and every RPC is in order by itself, in every reachable state.
THEOREM NodeInvariant == Spec => []NodeInv
<1>1. TypeOK /\ ElectionInv /\ NodeInv /\ [Next]_vars => NodeInv'
  <2> SUFFICES ASSUME TypeOK, ElectionInv, NodeInv, [Next]_vars PROVE NodeInv'
    OBVIOUS
  <2>1. CASE Next
    BY <2>1, StepsAreNodeSteps, NodeStepKeepsNodeInv DEF ElectionInv
  <2>2. CASE UNCHANGED vars
    BY <2>2, StutterKeepsNodeInv
  <2> QED BY <2>1, <2>2
<1> QED BY <1>1, InitNodeInv, TypeCorrect, ElectionInvariant, PTL DEF Spec

\* The books of a leader (next_index, match_index, last_ae) stay consistent
\* through successes, rejects, failures and stale answers in any order, for
\* every number of voters and every length of the log.
THEOREM BooksAreConsistent == Spec => []LeaderBookkeeping
<1>1. NodeInv => LeaderBookkeeping
  BY DEF NodeInv, NodesOk, NodeOk, BooksFit, LeaderBookkeeping
<1> QED BY <1>1, NodeInvariant, PTL

\* A peer counts as busy only while an AppendEntries to it is in the pending
\* table: the leader never loses a peer for good.
THEOREM MarksArePending == Spec => []InflightIsPending
<1>1. NodeInv => InflightIsPending
  BY DEF NodeInv, MarksOk, PendingAppend, InflightIsPending, AppendEntries
<1> QED BY <1>1, NodeInvariant, PTL

\* Granting a vote, which does not clear the books, never meets a leader:
\* only leaders ever have books.
THEOREM OnlyLeadersKeepBooks == Spec => []NoSilentStepDown
<1>1. TypeOK /\ NodeInv => NoSilentStepDown
  <2> SUFFICES ASSUME TypeOK, NodeInv, NEW i \in Voters, eng[i].role # Leader
               PROVE  eng[i] = ForgetPeers(eng[i])
    BY DEF NoSilentStepDown
  <2>1. eng[i] \in Engine /\ NoBooks(eng[i])
    BY DEF TypeOK, NodeInv, NodesOk, NodeOk
  <2> QED BY <2>1, NoBooksMeans
<1> QED BY <1>1, TypeCorrect, NodeInvariant, PTL

\* The application receives every index once and in order.
THEOREM AppliesInOrder == Spec => []AppliedWithoutGaps
<1>1. NodeInv => AppliedWithoutGaps
  BY DEF NodeInv, NodesOk, NodeOk, AppliedOk, Contiguous, AppliedWithoutGaps
<1> QED BY <1>1, NodeInvariant, PTL

\* The storage never refuses a write of the log, whose error the engine would
\* drop: what an AppendEntries of any age adds, and what a leader proposes,
\* continues the log.
THEOREM BatchesFit == Spec => []EveryBatchFits
<1>1. ASSUME TypeOK, NodeInv PROVE EveryBatchFits
  <2>1. ASSUME NEW r \in rpcs, r.req \in AppendEntries,
               PrevOk(eng[r.to].storage, r.req)
        PROVE  PersistOk(TruncateFrom(eng[r.to].storage,
                             r.req.prev_log_index + AppendFrom(eng[r.to].storage, r.req)),
                         SubSeq(r.req.entries, AppendFrom(eng[r.to].storage, r.req),
                                Len(r.req.entries)))
    <3>1. eng[r.to].storage \in Storage /\ Consecutive(r.req)
      BY <1>1, <2>1, EngineFields DEF TypeOK, Rpc, NodeInv, RpcsOk
    <3> QED BY <2>1, <3>1, AcceptedBatchFits
  <2>2. ASSUME NEW i \in Voters
        PROVE  PersistOk(eng[i].storage, <<[index |-> LastIndex(eng[i].storage) + 1]>>)
    <3> DEFINE st == eng[i].storage
               batch == <<[index |-> LastIndex(eng[i].storage) + 1]>>
    <3>1. st \in Storage /\ st.entries \in Seq(LogEntry) /\ Contiguous(st.entries)
      BY <1>1, EngineFields DEF TypeOK, NodeInv, NodesOk, NodeOk, Log, Storage
    <3>2. LastIndex(st) = Len(st.entries)
      BY <3>1, LastIndexIsLen
    <3>3. Len(batch) = 1 /\ batch[1].index = Len(st.entries) + 1
      BY <3>2
    <3>4. \A n \in 1 .. Len(batch) : batch[n].index = Len(st.entries) + n
      BY <3>3
    <3> HIDE DEF st, batch
    <3>5. Written(st.entries, batch) = Len(batch)
      <4> DEFINE entries == st.entries
      <4>1. entries \in Seq(LogEntry) /\ Len(batch) \in Nat
            /\ \A n \in 1 .. Len(batch) : batch[n].index = Len(entries) + n
        BY <3>1, <3>3, <3>4
      <4> HIDE DEF entries
      <4>2. Written(entries, batch) = Len(batch)
        BY <4>1, ContinuingBatchIsWritten
      <4> QED BY <4>2 DEF entries
    <3> QED BY <3>5 DEF PersistOk, st, batch
  <2> QED BY <2>1, <2>2 DEF EveryBatchFits
<1> QED BY <1>1, TypeCorrect, NodeInvariant, PTL

\* No message of any age makes a leader truncate or overwrite its log.
THEOREM LeadersOnlyAppend == Spec => LeaderAppendOnly
<1>1. ASSUME TypeOK, ElectionInv, NodeInv, Next PROVE LeadersAppend
  <2>1. PICK i \in Voters : NodeStep(i)
    BY <1>1, StepsAreNodeSteps DEF ElectionInv
  <2> SUFFICES ASSUME NEW j \in Voters, eng[j].role = Leader, eng'[j].role = Leader
               PROVE  /\ Len(Log(eng'[j])) >= Len(Log(eng[j]))
                      /\ AgreeUpTo(Log(eng[j]), Log(eng'[j]), Len(Log(eng[j])))
    BY DEF LeadersAppend
  <2>2. Len(Log(eng[j])) \in Nat
    BY <1>1, EngineFields DEF TypeOK
  <2>3. CASE Log(eng'[j]) = Log(eng[j])
    BY <2>2, <2>3 DEF AgreeUpTo
  <2>4. CASE Log(eng'[j]) # Log(eng[j])
    <3>1. j = i
      BY <2>1, <2>4 DEF NodeStep, Moves
    <3>2. GrownByOne(Log(eng[i]), Log(eng'[i]), CurrentTerm(eng[i]))
      BY <2>1, <2>4, <3>1 DEF NodeStep, LogStep, KeepsLog, Accepts, Leader, Follower
    <3> QED BY <2>2, <3>1, <3>2 DEF GrownByOne, AgreeUpTo
  <2> QED BY <2>3, <2>4
<1>2. ASSUME TypeOK, ElectionInv, NodeInv, [Next]_vars PROVE [LeadersAppend]_vars
  BY <1>1, <1>2
<1> QED BY <1>2, TypeCorrect, ElectionInvariant, NodeInvariant, PTL DEF Spec, LeaderAppendOnly
=============================================================================
