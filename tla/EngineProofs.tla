----------------------------- MODULE EngineProofs -----------------------------
(***************************************************************************)
(* What the operations of the storage and the handlers of the engine       *)
(* return, for every log, batch and message: their results have the types  *)
(* of the code, what they do to the log, to the term, the vote and the     *)
(* role, and to the books that a leader keeps about its peers.             *)
(***************************************************************************)
EXTENDS RaftEngine, WellFoundedInduction, TLAPS

-----------------------------------------------------------------------------
(* The least and the greatest element of a set of numbers.                 *)

\* A non-empty set of naturals has a least element, and Min is that element.
LEMMA MinOfNats ==
    ASSUME NEW S \in SUBSET Nat, S # {}
    PROVE  Min(S) \in S /\ \A y \in S : Min(S) <= y
<1> DEFINE Less == {ss \in Nat \X Nat : ss[1] < ss[2]}
<1>1. IsWellFoundedOn(Less, Nat)
  BY NatLessThanWellFounded, Zenon DEF OpToRel
<1>2. PICK x \in S : \A y \in S : ~(<<y, x>> \in Less)
  <2> HIDE DEF Less
  <2> QED BY <1>1, WFMin
<1>3. \A y \in S : x <= y
  <2> SUFFICES ASSUME NEW y \in S, y < x PROVE FALSE
    OBVIOUS
  <2>1. <<y, x>> \in Nat \X Nat /\ <<y, x>>[1] < <<y, x>>[2]
    OBVIOUS
  <2> QED BY <1>2, <2>1, Zenon
<1> QED BY <1>3 DEF Min

\* A non-empty set of naturals with an upper bound has a greatest element, and
\* Max is that element.
LEMMA MaxOfBounded ==
    ASSUME NEW S \in SUBSET Nat, S # {}, NEW b \in Nat, \A x \in S : x <= b
    PROVE  Max(S) \in S /\ \A y \in S : y <= Max(S)
<1> DEFINE T == {n \in Nat : b - n \in S}
<1>1. T \in SUBSET Nat /\ T # {}
  <2>1. PICK x \in S : TRUE
    OBVIOUS
  <2>2. b - x \in T
    BY <2>1
  <2> QED BY <2>2
<1>2. Min(T) \in T /\ \A y \in T : Min(T) <= y
  <2> HIDE DEF T
  <2> QED BY <1>1, MinOfNats
<1>3. b - Min(T) \in S /\ \A y \in S : y <= b - Min(T)
  <2>1. ASSUME NEW y \in S PROVE b - y \in T
    OBVIOUS
  <2> QED BY <1>2, <2>1
<1> QED BY <1>3 DEF Max

\* The greater of two numbers, as commit_index and match_index are raised.
LEMMA MaxOfTwo ==
    ASSUME NEW a \in Int, NEW b \in Int
    PROVE  Max({a, b}) = IF a >= b THEN a ELSE b
BY DEF Max

\* The lesser of two numbers, as the commit index is bounded.
LEMMA MinOfTwo ==
    ASSUME NEW a \in Int, NEW b \in Int
    PROVE  Min({a, b}) = IF a <= b THEN a ELSE b
BY DEF Min

-----------------------------------------------------------------------------
(* The storage.                                                            *)

\* persist writes a prefix of the batch, and every entry of that prefix fits.
LEMMA WrittenPrefix ==
    ASSUME NEW entries \in Seq(LogEntry), NEW batch \in Seq(LogEntry)
    PROVE  /\ Written(entries, batch) \in 0 .. Len(batch)
           /\ \A n \in 1 .. Written(entries, batch) : Fits(entries, batch, n)
<1> DEFINE Misfits == {n \in 1 .. Len(batch) : ~Fits(entries, batch, n)} \cup {Len(batch) + 1}
<1>1. Misfits \in SUBSET Nat /\ Misfits # {}
  OBVIOUS
<1>2. Min(Misfits) \in Misfits /\ \A y \in Misfits : Min(Misfits) <= y
  <2> HIDE DEF Misfits
  <2> QED BY <1>1, MinOfNats
<1>3. Written(entries, batch) = Min(Misfits) - 1
  BY DEF Written
<1>4. Min(Misfits) \in 1 .. Len(batch) + 1
  BY <1>2
<1>5. ASSUME NEW n \in 1 .. Min(Misfits) - 1 PROVE Fits(entries, batch, n)
  <2> HIDE DEF Misfits
  <2>1. n \notin Misfits
    BY <1>2, <1>4
  <2>2. n \in 1 .. Len(batch)
    BY <1>4
  <2> QED BY <2>1, <2>2 DEF Misfits
<1> HIDE DEF Misfits
<1> QED BY <1>3, <1>4, <1>5

\* A position of the resulting log that the batch did not write was in the
\* log before: growing past the old end writes every position on the way.
LEMMA UnwrittenIsOld ==
    ASSUME NEW entries \in Seq(LogEntry), NEW batch \in Seq(LogEntry),
           NEW m \in 1 .. Len(batch), \A n \in 1 .. m : Fits(entries, batch, n),
           NEW k \in 1 .. batch[m].index,
           \A n \in 1 .. m : batch[n].index # k
    PROVE  k \in 1 .. Len(entries)
<1> SUFFICES ASSUME k > Len(entries) PROVE FALSE
  OBVIOUS
<1> DEFINE Reached == {n \in 1 .. m : batch[n].index >= k}
<1>0. \A n \in 1 .. m : batch[n].index \in Nat
  <2>1. \A n \in 1 .. m : batch[n] \in LogEntry
    OBVIOUS
  <2> QED BY <2>1 DEF LogEntry
<1>1. Reached \in SUBSET Nat /\ Reached # {}
  BY <1>0
<1>2. PICK n \in Reached : \A y \in Reached : n <= y
  <2> HIDE DEF Reached
  <2> QED BY <1>1, MinOfNats
<1>3. n \in 1 .. m /\ batch[n].index > k
  BY <1>0, <1>2
<1>4. batch[n].index <= LenBefore(entries, batch, n) + 1
  <2>1. LenBefore(entries, batch, n) \in Nat
    BY <1>0, <1>3 DEF LenBefore
  <2> QED BY <1>3, <2>1 DEF Fits
<1>5. CASE n = 1
  BY <1>3, <1>4, <1>5, <1>0 DEF LenBefore
<1>6. CASE n # 1
  <2>1. n - 1 \in 1 .. m /\ n - 1 \notin Reached
    BY <1>2, <1>3, <1>6
  <2>2. batch[n - 1].index < k
    BY <1>0, <2>1
  <2> QED BY <1>0, <1>3, <1>4, <1>6, <2>1, <2>2 DEF LenBefore
<1> QED BY <1>5, <1>6

\* The last writer of a written position is one of its writers, and the last.
LEMMA LastWriterWrites ==
    ASSUME NEW batch \in Seq(LogEntry), NEW m \in 0 .. Len(batch), NEW k \in Nat,
           \E n \in 1 .. m : batch[n].index = k
    PROVE  /\ LastWriter(batch, m, k) \in 1 .. m
           /\ batch[LastWriter(batch, m, k)].index = k
           /\ \A n \in 1 .. m : batch[n].index = k => n <= LastWriter(batch, m, k)
<1> DEFINE Writers == {n \in 1 .. m : batch[n].index = k}
<1>1. Writers \in SUBSET Nat /\ Writers # {} /\ m \in Nat /\ \A x \in Writers : x <= m
  OBVIOUS
<1>2. Max(Writers) \in Writers /\ \A y \in Writers : y <= Max(Writers)
  <2> HIDE DEF Writers
  <2> QED BY <1>1, MaxOfBounded
<1> QED BY <1>2 DEF LastWriter

Contiguous(s) == \A k \in DOMAIN s : s[k].index = k

\* persist keeps the log a sequence of entries, and keeps the entry with index
\* k at position k.
LEMMA WriteEntriesType ==
    ASSUME NEW entries \in Seq(LogEntry), NEW batch \in Seq(LogEntry)
    PROVE  /\ WriteEntries(entries, batch) \in Seq(LogEntry)
           /\ Contiguous(entries) => Contiguous(WriteEntries(entries, batch))
<1> DEFINE m == Written(entries, batch)
           new == WriteEntries(entries, batch)
           wrote(k) == \E n \in 1 .. m : batch[n].index = k
<1>1. m \in 0 .. Len(batch) /\ \A n \in 1 .. m : Fits(entries, batch, n)
  BY WrittenPrefix
<1>2. CASE m = 0
  BY <1>2 DEF WriteEntries
<1>3. CASE m # 0
  <2>1. batch[m].index \in Nat
    <3>1. batch[m] \in LogEntry
      BY <1>1, <1>3
    <3> QED BY <3>1 DEF LogEntry
  <2>2. new = [k \in 1 .. batch[m].index |->
                 IF wrote(k) THEN batch[LastWriter(batch, m, k)] ELSE entries[k]]
    BY <1>3 DEF WriteEntries
  <2> HIDE DEF m, new
  <2>3. ASSUME NEW k \in 1 .. batch[m].index
        PROVE  new[k] \in LogEntry /\ (Contiguous(entries) => new[k].index = k)
    <3>1. CASE wrote(k)
      <4>1. LastWriter(batch, m, k) \in 1 .. m /\ batch[LastWriter(batch, m, k)].index = k
        BY <1>1, <2>1, <3>1, LastWriterWrites
      <4>2. new[k] = batch[LastWriter(batch, m, k)]
        BY <2>2, <3>1
      <4> QED BY <1>1, <4>1, <4>2
    <3>2. CASE ~wrote(k)
      <4>1. k \in 1 .. Len(entries)
        BY <1>1, <1>3, <2>1, <3>2, UnwrittenIsOld, SMTT(30)
      <4>2. new[k] = entries[k]
        BY <2>2, <3>2
      <4> QED BY <4>1, <4>2 DEF Contiguous
    <3> QED BY <3>1, <3>2
  <2>4. new \in Seq(LogEntry)
    <3>1. new \in [1 .. batch[m].index -> LogEntry]
      BY <2>2, <2>3
    <3> QED BY <2>1, <3>1
  <2>5. DOMAIN new = 1 .. batch[m].index
    BY <2>2
  <2> QED BY <2>3, <2>4, <2>5 DEF new, Contiguous
<1> QED BY <1>1, <1>2, <1>3

\* persist writes the whole of a batch that continues the log.
LEMMA ContinuingBatchIsWritten ==
    ASSUME NEW entries \in Seq(LogEntry), NEW batch, Len(batch) \in Nat,
           \A n \in 1 .. Len(batch) : batch[n].index = Len(entries) + n
    PROVE  Written(entries, batch) = Len(batch)
<1> DEFINE m == Written(entries, batch)
           Misfits == {n \in 1 .. Len(batch) : ~Fits(entries, batch, n)} \cup {Len(batch) + 1}
<1>0. Len(entries) \in Nat /\ Len(batch) \in Nat
  OBVIOUS
<1>1. ASSUME NEW n \in 1 .. Len(batch) PROVE Fits(entries, batch, n)
  <2>1. CASE n = 1
    BY <1>0, <2>1 DEF Fits, LenBefore
  <2>2. CASE n # 1
    <3>1. n - 1 \in 1 .. Len(batch)
      BY <1>0, <2>2
    <3>2. LenBefore(entries, batch, n) = Len(entries) + (n - 1)
      BY <2>2, <3>1 DEF LenBefore
    <3> QED BY <1>0, <3>2 DEF Fits
  <2> QED BY <2>1, <2>2
<1>2. m = Len(batch)
  <2>1. Misfits = {Len(batch) + 1}
    BY <1>1
  <2>2. Min({Len(batch) + 1}) = Len(batch) + 1
    <3>1. {Len(batch) + 1} \in SUBSET Nat /\ {Len(batch) + 1} # {}
      BY <1>0
    <3>2. Min({Len(batch) + 1}) \in {Len(batch) + 1}
      BY <3>1, MinOfNats
    <3> QED BY <3>2
  <2>3. m = Min(Misfits) - 1
    BY DEF Written
  <2> HIDE DEF Misfits, m
  <2> QED BY <1>0, <2>1, <2>2, <2>3
<1> QED BY <1>2

\* A batch that continues the log is written as a whole: persist appends it.
LEMMA WriteEntriesAppends ==
    ASSUME NEW entries \in Seq(LogEntry), NEW batch \in Seq(LogEntry),
           \A n \in 1 .. Len(batch) : batch[n].index = Len(entries) + n
    PROVE  /\ WriteEntries(entries, batch) \in Seq(LogEntry)
           /\ Len(WriteEntries(entries, batch)) = Len(entries) + Len(batch)
           /\ \A k \in 1 .. Len(entries) : WriteEntries(entries, batch)[k] = entries[k]
           /\ \A n \in 1 .. Len(batch) :
                  WriteEntries(entries, batch)[Len(entries) + n] = batch[n]
<1> DEFINE m == Written(entries, batch)
           new == WriteEntries(entries, batch)
           wrote(k) == \E n \in 1 .. m : batch[n].index = k
<1>0. Len(entries) \in Nat /\ Len(batch) \in Nat
  OBVIOUS
<1>1. m = Len(batch)
  BY <1>0, ContinuingBatchIsWritten
<1>2. CASE Len(batch) = 0
  BY <1>1, <1>2 DEF WriteEntries
<1>3. CASE Len(batch) # 0
  <2> DEFINE last == Len(entries) + Len(batch)
  <2>1. batch[m].index = last /\ last \in Nat
    BY <1>0, <1>1, <1>3
  <2>2. new = [k \in 1 .. batch[m].index |->
                 IF wrote(k) THEN batch[LastWriter(batch, m, k)] ELSE entries[k]]
    BY <1>1, <1>3 DEF WriteEntries
  <2>3. new = [k \in 1 .. last |->
                 IF wrote(k) THEN batch[LastWriter(batch, m, k)] ELSE entries[k]]
    BY <2>1, <2>2
  <2>4. ASSUME NEW k \in 1 .. Len(entries) PROVE new[k] = entries[k]
    <3>1. ~wrote(k)
      BY <1>0, <1>1
    <3>2. k \in 1 .. last
      BY <1>0
    <3> HIDE DEF new, wrote, last
    <3> QED BY <2>3, <3>1, <3>2
  <2>5. ASSUME NEW n \in 1 .. Len(batch) PROVE new[Len(entries) + n] = batch[n]
    <3> DEFINE k == Len(entries) + n
    <3>1. k \in 1 .. last /\ wrote(k) /\ k \in Nat /\ m \in 0 .. Len(batch)
      BY <1>0, <1>1
    <3>2. LastWriter(batch, m, k) \in 1 .. m /\ batch[LastWriter(batch, m, k)].index = k
      <4> HIDE DEF k, m
      <4> QED BY <3>1, LastWriterWrites
    <3>3. LastWriter(batch, m, k) = n
      BY <1>0, <1>1, <3>2
    <3>4. new[k] = batch[LastWriter(batch, m, k)]
      <4> HIDE DEF new, wrote, last, k
      <4> QED BY <2>3, <3>1
    <3> QED BY <3>3, <3>4
  <2>6. new \in Seq(LogEntry)
    BY WriteEntriesType
  <2>7. Len(new) = last
    <3> HIDE DEF new, wrote, last, m
    <3>1. DOMAIN new = 1 .. last
      BY <2>3
    <3> QED BY <2>1, <2>6, <3>1
  <2> QED BY <2>4, <2>5, <2>6, <2>7
<1> QED BY <1>2, <1>3

-----------------------------------------------------------------------------
(* The types of the engine.                                                *)

\* last_index_term and log length are naturals.
LEMMA LastType ==
    ASSUME NEW st \in Storage
    PROVE  LastIndex(st) \in Nat /\ LastTerm(st) \in Nat
<1>1. st.entries \in Seq(LogEntry)
  BY DEF Storage
<1>2. CASE st.entries = <<>>
  BY <1>2 DEF LastIndex, LastTerm
<1>3. CASE st.entries # <<>>
  <2>1. st.entries[Len(st.entries)] \in LogEntry
    BY <1>1, <1>3
  <2> QED BY <1>3, <2>1 DEF LastIndex, LastTerm, LogEntry
<1> QED BY <1>2, <1>3

\* persist with a hard state only replaces the term and the vote.
LEMMA PersistHardStateFacts ==
    ASSUME NEW st \in Storage, NEW hs \in HardState
    PROVE  /\ PersistHardState(st, hs) \in Storage
           /\ PersistHardState(st, hs).hard_state = hs
           /\ PersistHardState(st, hs).entries = st.entries
BY DEF Storage, PersistHardState

\* persist with entries keeps the storage's type and its hard state, also when
\* it stops in the middle of the batch.
LEMMA PersistEntriesFacts ==
    ASSUME NEW st \in Storage, NEW batch \in Seq(LogEntry)
    PROVE  /\ PersistEntries(st, batch) \in Storage
           /\ PersistEntries(st, batch).hard_state = st.hard_state
<1>1. st.entries \in Seq(LogEntry)
  BY DEF Storage
<1>2. WriteEntries(st.entries, batch) \in Seq(LogEntry)
  BY <1>1, WriteEntriesType
<1> QED BY <1>2 DEF Storage, PersistEntries

\* truncate_from keeps the storage's type and its hard state, for index 0 and
\* for an index past the end too.
LEMMA TruncateFromFacts ==
    ASSUME NEW st \in Storage, NEW index \in Nat
    PROVE  /\ TruncateFrom(st, index) \in Storage
           /\ TruncateFrom(st, index).hard_state = st.hard_state
<1>1. st.entries \in Seq(LogEntry)
  BY DEF Storage
<1>2. CASE index = 0
  <2>1. <<>> \in Seq(LogEntry)
    OBVIOUS
  <2>2. TruncateFrom(st, index) = [st EXCEPT !.entries = <<>>]
    BY <1>2 DEF TruncateFrom
  <2> QED BY <2>1, <2>2 DEF Storage
<1>3. CASE index # 0 /\ index - 1 < Len(st.entries)
  <2>1. SubSeq(st.entries, 1, index - 1) \in Seq(LogEntry)
    BY <1>1, <1>3
  <2> QED BY <1>3, <2>1 DEF Storage, TruncateFrom
<1>4. CASE index # 0 /\ ~(index - 1 < Len(st.entries))
  BY <1>1, <1>4 DEF Storage, TruncateFrom
<1> QED BY <1>2, <1>3, <1>4

\* The types of the engine's parts, as the handlers read them.
LEMMA EngineFields ==
    ASSUME NEW e \in Engine
    PROVE  /\ e.storage \in Storage
           /\ Log(e) \in Seq(LogEntry)
           /\ CurrentTerm(e) \in Nat
           /\ VotedFor(e) \in Voters \cup {None}
           /\ e.commit_index \in Nat /\ e.last_applied \in Nat
           /\ e.next_index \in [Voters -> Nat] /\ e.match_index \in [Voters -> Nat]
           /\ e.votes \in SUBSET Voters
BY DEF Engine, Storage, HardState, Log, CurrentTerm, VotedFor

-----------------------------------------------------------------------------
(***************************************************************************)
(* A handler that casts no vote keeps the hard state or enters a later     *)
(* term with no vote, and does not move into the roles Candidate and       *)
(* Leader.                                                                 *)
(***************************************************************************)
CastsNoVote(e, f) ==
    /\ CurrentTerm(f) >= CurrentTerm(e)
    /\ CurrentTerm(f) = CurrentTerm(e) => VotedFor(f) = VotedFor(e)
    /\ CurrentTerm(f) > CurrentTerm(e) => VotedFor(f) = None

KeepsOffice(e, f) ==
    f.role # Follower => /\ f.role = e.role
                         /\ f.votes = e.votes
                         /\ CurrentTerm(f) = CurrentTerm(e)

\* A step that leaves role, votes, hint and hard state alone.
SameOffice(e, f) ==
    /\ f.role = e.role
    /\ f.votes = e.votes
    /\ f.leader = e.leader
    /\ f.storage.hard_state = e.storage.hard_state

\* A handler that leaves role, votes, hint and hard state alone casts no vote
\* and keeps the office.
LEMMA SameOfficeIsQuiet ==
    ASSUME NEW e \in Engine, NEW f, SameOffice(e, f)
    PROVE  CastsNoVote(e, f) /\ KeepsOffice(e, f)
BY EngineFields DEF SameOffice, CastsNoVote, KeepsOffice, CurrentTerm, VotedFor

-----------------------------------------------------------------------------
(* Role changes.                                                           *)

\* become_follower enters the given term, which must not be an older one, with
\* no vote if the term is new, and takes the given hint.
LEMMA BecomeFollowerFacts ==
    ASSUME NEW e \in Engine, NEW term \in Nat, NEW ldr \in Voters \cup {None},
           term >= CurrentTerm(e),
           NEW f, f = BecomeFollower(e, term, ldr)
    PROVE  /\ f \in Engine
           /\ f.role = Follower /\ f.leader = ldr
           /\ f.storage.entries = e.storage.entries
           /\ CurrentTerm(f) = term
           /\ CastsNoVote(e, f)
<1> DEFINE hs == [current_term |-> term, voted_for |-> None]
<1>1. hs \in HardState
  BY DEF HardState
<1> DEFINE g == ForgetPeers(e)
<1>2. g \in Engine /\ g.storage = e.storage
  BY DEF ForgetPeers, Engine
<1>3. f = [g EXCEPT !.storage = EnterTerm(g.storage, term), !.role = Follower,
                    !.leader = ldr, !.votes = {}]
  BY DEF BecomeFollower
<1> HIDE DEF g
<1>4. f.storage = IF term > CurrentTerm(e) THEN PersistHardState(e.storage, hs) ELSE e.storage
  BY <1>2, <1>3 DEF EnterTerm, CurrentTerm, Engine
<1>5. f.storage \in Storage /\ f.storage.entries = e.storage.entries
  <2> HIDE DEF hs
  <2>1. e.storage \in Storage
    BY EngineFields
  <2>2. /\ PersistHardState(e.storage, hs) \in Storage
        /\ PersistHardState(e.storage, hs).entries = e.storage.entries
    BY <1>1, <2>1, PersistHardStateFacts
  <2> QED BY <1>4, <2>1, <2>2
<1>6. f.storage.hard_state = IF term > CurrentTerm(e) THEN hs ELSE e.storage.hard_state
  <2> HIDE DEF hs
  <2> QED BY <1>4, <1>1, EngineFields, PersistHardStateFacts
<1>7. f \in Engine /\ f.role = Follower /\ f.leader = ldr
  BY <1>2, <1>3, <1>5 DEF Engine, Follower
<1>8. CurrentTerm(f) = term /\ CastsNoVote(e, f)
  <2> QED BY <1>6, EngineFields DEF CastsNoVote, CurrentTerm, VotedFor
<1> QED BY <1>5, <1>7, <1>8

\* start_election enters the next term as a candidate with its own vote.
LEMMA StartElectionFacts ==
    ASSUME NEW e \in Engine, NEW i \in Voters,
           NEW f, f = StartElection(e, i)
    PROVE  /\ f \in Engine
           /\ f.role = Candidate /\ f.votes = {i} /\ f.leader = None
           /\ CurrentTerm(f) = CurrentTerm(e) + 1
           /\ VotedFor(f) = i
           /\ VoteRequest(f, i) \in RequestVote
<1> DEFINE hs == [current_term |-> CurrentTerm(e) + 1, voted_for |-> i]
<1>1. hs \in HardState
  BY EngineFields DEF HardState
<1>2. f.storage \in Storage /\ f.storage.hard_state = hs
  <2>1. f.storage = PersistHardState(e.storage, hs)
    BY DEF StartElection, BecomeCandidate, Engine
  <2> HIDE DEF hs
  <2> QED BY <1>1, <2>1, EngineFields, PersistHardStateFacts
<1>3. f \in Engine /\ f.role = Candidate /\ f.votes = {i} /\ f.leader = None
  BY <1>2 DEF StartElection, BecomeCandidate, Engine, Candidate
<1>4. CurrentTerm(f) = CurrentTerm(e) + 1 /\ VotedFor(f) = i
  <2> QED BY <1>2 DEF CurrentTerm, VotedFor
<1>5. VoteRequest(f, i) \in RequestVote
  <2> QED BY <1>2, <1>4, EngineFields, LastType DEF VoteRequest, RequestVote
<1> QED BY <1>3, <1>4, <1>5

\* become_leader changes the office and leaves the storage alone.
LEMMA BecomeLeaderFacts ==
    ASSUME NEW e \in Engine, NEW i \in Voters,
           NEW f, f = BecomeLeader(e, i)
    PROVE  /\ f \in Engine
           /\ f.role = Leader /\ f.leader = i
           /\ f.storage = e.storage
<1>1. LastIndex(e.storage) + 1 \in Nat
  BY EngineFields, LastType
<1>2. [v \in Voters |-> IF v = i THEN 0 ELSE LastIndex(e.storage) + 1] \in [Voters -> Nat]
  BY <1>1
<1> QED BY <1>2 DEF BecomeLeader, Engine, Leader

-----------------------------------------------------------------------------
(* Voting.                                                                 *)

\* handle_request_vote: a granted vote is persisted for the candidate in the
\* term of the answer and moves no vote already cast in that term; without a
\* grant the vote is untouched.
LEMMA HandleRequestVoteFacts ==
    ASSUME NEW e \in Engine, NEW m \in RequestVote,
           NEW h, h = HandleRequestVote(e, m)
    PROVE  /\ h.eng \in Engine
           /\ h.reply \in RequestVoteResp
           /\ h.reply.vote_granted =>
                /\ h.reply.term = m.term
                /\ CurrentTerm(h.eng) = m.term /\ m.term >= CurrentTerm(e)
                /\ VotedFor(h.eng) = m.candidate_id
                /\ m.term = CurrentTerm(e) => VotedFor(e) \in {None, m.candidate_id}
                /\ h.eng.role = Follower /\ h.eng.leader = None
           /\ ~h.reply.vote_granted =>
                /\ CastsNoVote(e, h.eng) /\ KeepsOffice(e, h.eng)
                /\ \/ h.eng.leader = None
                   \/ h.eng.leader = e.leader /\ CurrentTerm(h.eng) = CurrentTerm(e)
<1> DEFINE seen == IF m.term > CurrentTerm(e) THEN BecomeFollower(e, m.term, None) ELSE e
           after == IF CanGrantVote(seen, m) THEN GrantVote(seen, m) ELSE seen
<1>0. /\ m.term \in Nat /\ m.candidate_id \in Voters
      /\ CurrentTerm(e) \in Nat
  BY EngineFields DEF RequestVote
<1>1. CASE m.term < CurrentTerm(e)
  <2>1. h = [eng |-> e, reply |-> VoteReply(e, FALSE)]
    BY <1>1 DEF HandleRequestVote
  <2>2. VoteReply(e, FALSE) \in RequestVoteResp
    BY <1>0 DEF VoteReply, RequestVoteResp
  <2>3. CastsNoVote(e, e) /\ KeepsOffice(e, e)
    BY <1>0 DEF CastsNoVote, KeepsOffice
  <2> QED BY <2>1, <2>2, <2>3 DEF VoteReply
<1>2. CASE ~(m.term < CurrentTerm(e))
  <2>1. h = [eng |-> after, reply |-> VoteReply(after, CanGrantVote(seen, m))]
    BY <1>2 DEF HandleRequestVote
  <2>2. /\ seen \in Engine
        /\ CurrentTerm(seen) = m.term
        /\ CastsNoVote(e, seen) /\ KeepsOffice(e, seen)
        /\ \/ seen.leader = None
           \/ seen.leader = e.leader /\ CurrentTerm(seen) = CurrentTerm(e)
    <3>1. CASE m.term > CurrentTerm(e)
      <4>1. seen = BecomeFollower(e, m.term, None)
        BY <3>1
      <4> HIDE DEF seen
      <4>2. /\ seen \in Engine /\ seen.role = Follower /\ seen.leader = None
            /\ CurrentTerm(seen) = m.term /\ CastsNoVote(e, seen)
        BY <1>0, <3>1, <4>1, BecomeFollowerFacts
      <4> QED BY <4>2 DEF KeepsOffice
    <3>2. CASE ~(m.term > CurrentTerm(e))
      <4>1. seen = e /\ m.term = CurrentTerm(e)
        BY <1>0, <1>2, <3>2
      <4> HIDE DEF seen
      <4> QED BY <1>0, <4>1 DEF CastsNoVote, KeepsOffice
    <3> QED BY <3>1, <3>2
  <2> HIDE DEF seen
  <2>3. CASE CanGrantVote(seen, m)
    <3>1. after = GrantVote(seen, m)
      BY <2>3
    <3> DEFINE hs == [current_term |-> CurrentTerm(seen), voted_for |-> m.candidate_id]
    <3>2. hs \in HardState
      BY <1>0, <2>2 DEF HardState
    <3>3. after.storage = PersistHardState(seen.storage, hs)
      BY <2>2, <3>1 DEF GrantVote, Engine
    <3> HIDE DEF hs
    <3>4. after.storage \in Storage /\ after.storage.hard_state = hs
      BY <2>2, <3>2, <3>3, EngineFields, PersistHardStateFacts
    <3>5. after \in Engine /\ after.role = Follower /\ after.leader = None
      BY <2>2, <3>1, <3>4 DEF GrantVote, Engine, Follower
    <3> HIDE DEF after
    <3>6. CurrentTerm(after) = m.term /\ VotedFor(after) = m.candidate_id
      BY <2>2, <3>4 DEF hs, CurrentTerm, VotedFor
    <3>7. VotedFor(seen) \in {None, m.candidate_id}
      BY <2>3 DEF CanGrantVote
    <3>8. /\ h.eng = after /\ h.reply \in RequestVoteResp
          /\ h.reply.vote_granted = TRUE /\ h.reply.term = m.term
      BY <1>0, <2>1, <2>3, <3>6 DEF VoteReply, RequestVoteResp
    <3>9. m.term = CurrentTerm(e) => VotedFor(e) \in {None, m.candidate_id}
      BY <2>2, <3>7 DEF CastsNoVote
    <3> QED BY <1>0, <1>2, <3>5, <3>6, <3>8, <3>9
  <2>4. CASE ~CanGrantVote(seen, m)
    <3>1. after = seen
      BY <2>4
    <3> HIDE DEF after
    <3>2. CanGrantVote(seen, m) = FALSE
      BY <2>4 DEF CanGrantVote
    <3>3. h = [eng |-> seen, reply |-> VoteReply(seen, FALSE)]
      BY <2>1, <3>1, <3>2
    <3>4. h.eng = seen /\ h.reply \in RequestVoteResp /\ h.reply.vote_granted = FALSE
      BY <1>0, <2>2, <3>3 DEF VoteReply, RequestVoteResp
    <3> QED BY <2>2, <3>4
  <2> QED BY <2>3, <2>4
<1> QED BY <1>1, <1>2

\* Candidate e counts the vote of from: it stays a candidate below a quorum.
CountsVote(e, i, from, m, f) ==
    /\ e.role = Candidate /\ m.vote_granted
    /\ CurrentTerm(e) = m.term /\ CurrentTerm(f) = m.term
    /\ \/ /\ f.role = Candidate /\ f.votes = e.votes \cup {from}
          /\ f.leader = e.leader
          /\ ~(Cardinality(e.votes \cup {from}) >= Quorum)
       \/ /\ f.role = Leader /\ f.leader = i
          /\ Cardinality(e.votes \cup {from}) >= Quorum

\* handle_request_vote_resp: a node becomes leader only as a candidate of the
\* answer's term, with the answer's vote completing a quorum.
LEMMA HandleRequestVoteRespFacts ==
    ASSUME NEW e \in Engine, NEW i \in Voters, NEW from \in Voters,
           NEW m \in RequestVoteResp,
           NEW f, f = HandleRequestVoteResp(e, i, from, m)
    PROVE  /\ f \in Engine
           /\ CastsNoVote(e, f)
           /\ \/ KeepsOffice(e, f) /\ (f.leader = None \/ SameOffice(e, f))
              \/ CountsVote(e, i, from, m, f)
<1> DEFINE votes == e.votes \cup {from}
<1>0. m.term \in Nat /\ m.vote_granted \in BOOLEAN /\ CurrentTerm(e) \in Nat
  BY EngineFields DEF RequestVoteResp
<1>1. CASE m.term > CurrentTerm(e)
  <2>1. f = BecomeFollower(e, m.term, None)
    BY <1>0, <1>1 DEF HandleRequestVoteResp
  <2> QED BY <1>0, <1>1, <2>1, BecomeFollowerFacts DEF KeepsOffice
<1>2. CASE m.term = CurrentTerm(e) /\ e.role = Candidate /\ m.vote_granted
  <2>1. f = IF Cardinality(votes) >= Quorum THEN BecomeLeader(e, i)
            ELSE [e EXCEPT !.votes = votes]
    BY <1>0, <1>2 DEF HandleRequestVoteResp
  <2>2. CASE Cardinality(votes) >= Quorum
    <3>1. f = BecomeLeader(e, i)
      BY <2>1, <2>2
    <3>2. f \in Engine /\ f.role = Leader /\ f.leader = i /\ f.storage = e.storage
      BY <3>1, BecomeLeaderFacts
    <3> QED BY <1>0, <1>2, <2>2, <3>2 DEF CountsVote, CastsNoVote, CurrentTerm, VotedFor
  <2>3. CASE ~(Cardinality(votes) >= Quorum)
    <3>1. f = [e EXCEPT !.votes = votes]
      BY <2>1, <2>3
    <3>2. votes \in SUBSET Voters
      BY EngineFields
    <3> HIDE DEF votes
    <3>3. /\ f \in Engine /\ f.role = e.role /\ f.votes = votes
          /\ f.leader = e.leader /\ f.storage = e.storage
      BY <3>1, <3>2 DEF Engine
    <3> QED BY <1>0, <1>2, <2>3, <3>3 DEF CountsVote, CastsNoVote, CurrentTerm, VotedFor, votes
  <2> QED BY <2>2, <2>3
<1>3. CASE /\ ~(m.term > CurrentTerm(e))
           /\ ~(m.term = CurrentTerm(e) /\ e.role = Candidate /\ m.vote_granted)
  <2>1. f = e
    BY <1>0, <1>3 DEF HandleRequestVoteResp
  <2> QED BY <1>0, <2>1 DEF SameOffice, CastsNoVote, KeepsOffice
<1> QED BY <1>1, <1>2, <1>3

-----------------------------------------------------------------------------
(* Commit and apply.                                                       *)

\* advance_commit_and_apply hands out entries of the log and leaves office
\* and storage alone.
LEMMA AdvanceCommitFacts ==
    ASSUME NEW e \in Engine, NEW leaderCommit \in Nat, NEW lastNew \in Nat,
           NEW c, c = AdvanceCommitAndApply(e, leaderCommit, lastNew)
    PROVE  /\ c.eng \in Engine
           /\ c.apply \in Seq(LogEntry)
           /\ SameOffice(e, c.eng)
           /\ c.eng.storage = e.storage
           /\ c.eng.next_index = e.next_index
<1> DEFINE commit == Max({e.commit_index, Min({leaderCommit, lastNew})})
           upto == Min({commit, Len(Log(e))})
<1>1. commit \in Nat
  <2>1. Min({leaderCommit, lastNew}) \in Nat /\ e.commit_index \in Nat
    BY EngineFields, MinOfTwo
  <2> QED BY <2>1, MaxOfTwo
<1> HIDE DEF commit
<1>2. Max({e.last_applied, commit}) \in Nat
  BY <1>1, EngineFields, MaxOfTwo
<1>3. upto \in Nat /\ upto <= Len(Log(e))
  <2>1. Len(Log(e)) \in Nat
    BY EngineFields
  <2> QED BY <1>1, <2>1, MinOfTwo
<1> HIDE DEF upto
<1>4. SubSeq(Log(e), e.last_applied + 1, upto) \in Seq(LogEntry)
  <2>1. \A k \in e.last_applied + 1 .. upto : k \in 1 .. Len(Log(e))
    BY <1>3, EngineFields
  <2> QED BY <1>3, <2>1, EngineFields
<1>5. /\ c.eng = [e EXCEPT !.commit_index = commit, !.last_applied = Max({@, commit})]
      /\ c.apply = SubSeq(Log(e), e.last_applied + 1, upto)
  BY DEF AdvanceCommitAndApply, commit, upto
<1> QED BY <1>1, <1>2, <1>4, <1>5 DEF Engine, SameOffice

\* maybe_commit picks an index of the log, if any.
LEMMA MaybeCommitFacts ==
    ASSUME NEW e \in Engine, NEW i \in Voters, NEW c, c = MaybeCommit(e, i)
    PROVE  /\ c.eng \in Engine
           /\ c.apply \in Seq(LogEntry)
           /\ SameOffice(e, c.eng)
           /\ c.eng.storage = e.storage
           /\ c.eng.next_index = e.next_index
<1>1. CASE Committable(e, i) = {}
  <2>1. c.eng = e /\ c.apply = <<>>
    BY <1>1 DEF MaybeCommit
  <2> QED BY <2>1 DEF SameOffice
<1>2. CASE Committable(e, i) # {}
  <2>1. /\ Committable(e, i) \in SUBSET Nat
        /\ \A n \in Committable(e, i) : n <= LastIndex(e.storage)
    BY EngineFields, LastType DEF Committable
  <2>2. Max(Committable(e, i)) \in Nat
    BY <1>2, <2>1, EngineFields, LastType, MaxOfBounded
  <2>3. c = AdvanceCommitAndApply(e, Max(Committable(e, i)), Max(Committable(e, i)))
    BY <1>2 DEF MaybeCommit
  <2> QED BY <2>2, <2>3, AdvanceCommitFacts
<1> QED BY <1>1, <1>2

-----------------------------------------------------------------------------
(* Replication, the leader's side.                                         *)

\* build_append_entries, when it does not give up, builds a well-formed
\* message of the current term.
LEMMA BuildFacts ==
    ASSUME NEW e \in Engine, NEW i \in Voters, NEW p \in Voters, CanBuild(e, p),
           NEW m, m = BuildAppendEntries(e, i, p)
    PROVE  /\ m \in AppendEntries
           /\ m.leader_id = i /\ m.term = CurrentTerm(e)
<1> DEFINE prev == PrevIndex(e, p)
           last == LastIndex(e.storage)
<1>1. e.next_index[p] \in Nat \ {0} /\ prev \in Nat /\ last \in Nat
  BY EngineFields, LastType DEF CanBuild, PrevIndex
<1>2. (IF prev = 0 THEN 0 ELSE EntryAt(e.storage, prev).term) \in Nat
  <2>1. CASE prev # 0
    <3>1. prev \in 1 .. Len(Log(e))
      BY <2>1 DEF CanBuild, HasEntry, Log
    <3>2. Log(e)[prev] \in LogEntry
      BY <3>1, EngineFields
    <3> QED BY <2>1, <3>2 DEF EntryAt, Log, LogEntry
  <2> QED BY <2>1
<1>3. SubSeq(Log(e), e.next_index[p], last) \in Seq(LogEntry)
  <2>1. \A n \in e.next_index[p] .. last : n \in 1 .. Len(Log(e))
    BY DEF CanBuild, HasEntry, Log
  <2> HIDE DEF last, prev
  <2> QED BY <1>1, <2>1, EngineFields
<1>4. m = [kind |-> "AppendEntries", term |-> CurrentTerm(e), leader_id |-> i,
           prev_log_index |-> prev,
           prev_log_term |-> IF prev = 0 THEN 0 ELSE EntryAt(e.storage, prev).term,
           entries |-> SubSeq(Log(e), e.next_index[p], last),
           leader_commit |-> e.commit_index]
  BY DEF BuildAppendEntries
<1> HIDE DEF prev, last
<1> QED BY <1>1, <1>2, <1>3, <1>4, EngineFields DEF AppendEntries

\* send_append_entries_to only changes last_ae and ae_inflight, and sends
\* messages of the current term in the node's own name.
LEMMA SendFacts ==
    ASSUME NEW e \in Engine, NEW i \in Voters, NEW peers \in SUBSET Voters,
           NEW s, s = SendAppendEntries(e, i, peers)
    PROVE  /\ s.eng \in Engine
           /\ SameOffice(e, s.eng)
           /\ s.eng.storage = e.storage
           /\ \A x \in s.sends : /\ x = [to |-> x.to, msg |-> x.msg]
                                 /\ x.to \in peers /\ x.msg \in AppendEntries
                                 /\ x.msg.leader_id = i /\ x.msg.term = CurrentTerm(e)
<1> DEFINE ready == {p \in peers \ e.ae_inflight : CanBuild(e, p)}
           msg(p) == BuildAppendEntries(e, i, p)
           ae == [p \in Voters |->
                    IF p \in ready THEN [prev |-> msg(p).prev_log_index,
                                         len |-> Len(msg(p).entries)]
                    ELSE e.last_ae[p]]
<1>1. ASSUME NEW p \in ready
      PROVE  /\ msg(p) \in AppendEntries
             /\ msg(p).leader_id = i /\ msg(p).term = CurrentTerm(e)
  BY BuildFacts
<1>2. ready \subseteq peers /\ ready \subseteq Voters
  OBVIOUS
<1>3. /\ s.eng = [e EXCEPT !.last_ae = ae, !.ae_inflight = @ \cup ready]
      /\ s.sends = {[to |-> p, msg |-> msg(p)] : p \in ready}
  BY DEF SendAppendEntries
<1> HIDE DEF ready, msg
<1>4. ae \in [Voters -> [prev : Nat, len : Nat] \cup {None}]
  <2>1. ASSUME NEW p \in ready
        PROVE  [prev |-> msg(p).prev_log_index, len |-> Len(msg(p).entries)] \in [prev : Nat, len : Nat]
    <3>1. msg(p).prev_log_index \in Nat /\ msg(p).entries \in Seq(LogEntry)
      BY <1>1, <2>1 DEF AppendEntries
    <3> QED BY <3>1
  <2>2. e.last_ae \in [Voters -> [prev : Nat, len : Nat] \cup {None}]
    BY DEF Engine
  <2> QED BY <2>1, <2>2
<1> HIDE DEF ae
<1>5. s.eng \in Engine /\ SameOffice(e, s.eng) /\ s.eng.storage = e.storage
  BY <1>2, <1>3, <1>4 DEF Engine, SameOffice
<1>6. ASSUME NEW x \in s.sends
      PROVE  /\ x = [to |-> x.to, msg |-> x.msg]
             /\ x.to \in peers /\ x.msg \in AppendEntries
             /\ x.msg.leader_id = i /\ x.msg.term = CurrentTerm(e)
  <2>1. PICK p \in ready : x = [to |-> p, msg |-> msg(p)]
    BY <1>3
  <2> QED BY <1>1, <1>2, <2>1
<1> QED BY <1>5, <1>6

\* propose appends to the log and sends; it touches no hard state.
LEMMA ProposeFacts ==
    ASSUME NEW e \in Engine, NEW i \in Voters, NEW data \in Data,
           NEW s, s = Propose(e, i, data)
    PROVE  /\ s.eng \in Engine
           /\ SameOffice(e, s.eng)
           /\ \A x \in s.sends : /\ x = [to |-> x.to, msg |-> x.msg]
                                 /\ x.to \in OtherVoters(i) /\ x.msg \in AppendEntries
                                 /\ x.msg.leader_id = i /\ x.msg.term = CurrentTerm(e)
<1> DEFINE f == ProposeEntry(e, data)
           entry == [index |-> LastIndex(e.storage) + 1, term |-> CurrentTerm(e),
                     data |-> data]
<1>1. <<entry>> \in Seq(LogEntry)
  <2>1. entry \in LogEntry
    BY EngineFields, LastType DEF LogEntry
  <2> HIDE DEF entry
  <2> QED BY <2>1
<1>2. f = [e EXCEPT !.storage = PersistEntries(e.storage, <<entry>>)]
  BY DEF ProposeEntry
<1> HIDE DEF f, entry
<1>3. /\ PersistEntries(e.storage, <<entry>>) \in Storage
      /\ PersistEntries(e.storage, <<entry>>).hard_state = e.storage.hard_state
  BY <1>1, EngineFields, PersistEntriesFacts
<1>4. f \in Engine /\ SameOffice(e, f)
  BY <1>2, <1>3 DEF Engine, SameOffice
<1>5. s = SendAppendEntries(f, i, OtherVoters(i)) /\ OtherVoters(i) \in SUBSET Voters
  BY DEF Propose, f, OtherVoters
<1>6. /\ s.eng \in Engine /\ SameOffice(f, s.eng)
      /\ \A x \in s.sends : /\ x = [to |-> x.to, msg |-> x.msg]
                            /\ x.to \in OtherVoters(i) /\ x.msg \in AppendEntries
                            /\ x.msg.leader_id = i /\ x.msg.term = CurrentTerm(f)
  BY <1>4, <1>5, SendFacts
<1> QED BY <1>4, <1>6 DEF SameOffice, CurrentTerm

\* A success raises the peer's match_index and frees the peer.
LEMMA CreditSuccessFacts ==
    ASSUME NEW e \in Engine, NEW from \in Voters, e.last_ae[from] \in [prev : Nat, len : Nat],
           NEW f, f = CreditSuccess(e, from)
    PROVE  f \in Engine /\ SameOffice(e, f)
<1> DEFINE matched == Matched(e, from)
           mi == [e.match_index EXCEPT ![from] = Max({e.match_index[from], matched})]
           ni == [e.next_index EXCEPT ![from] = matched + 1]
<1>1. matched \in Nat
  BY DEF Matched
<1>2. f = [e EXCEPT !.ae_inflight = @ \ {from}, !.match_index = mi, !.next_index = ni]
  BY DEF CreditSuccess
<1> HIDE DEF matched
<1>3. Max({e.match_index[from], matched}) \in Nat
  <2>1. e.match_index[from] \in Nat
    BY EngineFields
  <2>2. e.match_index[from] \in Int /\ matched \in Int
    BY <1>1, <2>1
  <2> QED BY <1>1, <2>1, <2>2, MaxOfTwo
<1>4. mi \in [Voters -> Nat] /\ ni \in [Voters -> Nat]
  BY <1>1, <1>3, EngineFields
<1> HIDE DEF mi, ni
<1> QED BY <1>2, <1>4 DEF Engine, SameOffice

\* A reject moves the peer's next_index and frees the peer.
LEMMA StepBackFacts ==
    ASSUME NEW e \in Engine, NEW from \in Voters, NEW f, f = StepBack(e, from)
    PROVE  f \in Engine /\ SameOffice(e, f)
<1> DEFINE ni == [e.next_index EXCEPT ![from] = Max({e.next_index[from] - 1, e.match_index[from] + 1})]
<1>1. f = [e EXCEPT !.ae_inflight = @ \ {from}, !.next_index = ni]
  BY DEF StepBack
<1>2. Max({e.next_index[from] - 1, e.match_index[from] + 1}) \in Nat
  <2>1. e.next_index[from] \in Nat /\ e.match_index[from] \in Nat
    BY EngineFields
  <2>2. e.next_index[from] - 1 \in Int /\ e.match_index[from] + 1 \in Int
    BY <2>1
  <2> QED BY <2>1, <2>2, MaxOfTwo
<1>3. ni \in [Voters -> Nat]
  BY <1>2, EngineFields
<1> HIDE DEF ni
<1> QED BY <1>1, <1>3 DEF Engine, SameOffice

\* handle_append_entries_resp: the node stays in its office or becomes a
\* follower, and what it sends is in its own name as the leader it is.
LEMMA HandleAppendEntriesRespFacts ==
    ASSUME NEW e \in Engine, NEW i \in Voters, NEW from \in OtherVoters(i),
           NEW m \in AppendEntriesResp,
           NEW h, h = HandleAppendEntriesResp(e, i, from, m)
    PROVE  /\ h.eng \in Engine
           /\ h.apply \in Seq(LogEntry)
           /\ CastsNoVote(e, h.eng)
           /\ \/ h.eng.role = Follower /\ h.eng.leader = None
              \/ SameOffice(e, h.eng)
           /\ \A x \in h.sends : /\ x = [to |-> x.to, msg |-> x.msg]
                                 /\ x.to \in OtherVoters(i) /\ x.msg \in AppendEntries
                                 /\ x.msg.leader_id = i /\ x.msg.term = CurrentTerm(e)
                                 /\ e.role = Leader
<1> DEFINE quiet(f) == [eng |-> f, sends |-> {}, apply |-> <<>>]
           Ignored == \/ m.term < CurrentTerm(e)
                      \/ m.term = CurrentTerm(e) /\ (e.role # Leader \/ e.last_ae[from] = None)
<1>0. /\ m.term \in Nat /\ CurrentTerm(e) \in Nat
      /\ from \in Voters /\ from \in OtherVoters(i)
  BY EngineFields DEF AppendEntriesResp, OtherVoters
<1>1. CASE m.term > CurrentTerm(e)
  <2>1. h = quiet(BecomeFollower(e, m.term, None))
    BY <1>0, <1>1 DEF HandleAppendEntriesResp
  <2>2. h.eng = BecomeFollower(e, m.term, None) /\ h.sends = {} /\ h.apply = <<>>
    BY <2>1
  <2> QED BY <1>0, <1>1, <2>2, BecomeFollowerFacts
<1>2. CASE Ignored
  <2>1. ~(m.term > CurrentTerm(e))
    BY <1>0, <1>2
  <2>2. h = quiet(e)
    BY <1>2, <2>1 DEF HandleAppendEntriesResp
  <2>3. h.eng = e /\ h.sends = {} /\ h.apply = <<>>
    BY <2>2
  <2> QED BY <2>3, SameOfficeIsQuiet DEF SameOffice
<1>3. CASE ~(m.term > CurrentTerm(e)) /\ ~Ignored
  <2>1. h = IF m.success THEN OnSuccess(e, i, from) ELSE OnReject(e, i, from)
    BY <1>3 DEF HandleAppendEntriesResp
  <2>2. /\ e.role = Leader
        /\ e.last_ae[from] \in [prev : Nat, len : Nat]
    <3>1. e.role = Leader /\ e.last_ae[from] # None
      BY <1>0, <1>3
    <3> QED BY <1>0, <3>1 DEF Engine
  <2>3. CASE m.success
    <3> DEFINE f == CreditSuccess(e, from)
               c == MaybeCommit(f, i)
               behind == {p \in {from} : c.eng.next_index[p] <= LastIndex(c.eng.storage)}
               s == SendAppendEntries(c.eng, i, behind)
    <3>4. f \in Engine /\ SameOffice(e, f)
      BY <1>0, <2>2, CreditSuccessFacts
    <3> HIDE DEF f
    <3>5. c.eng \in Engine /\ c.apply \in Seq(LogEntry) /\ SameOffice(f, c.eng)
      BY <3>4, MaybeCommitFacts
    <3> HIDE DEF c
    <3>6. behind \in SUBSET Voters /\ behind \subseteq OtherVoters(i)
      BY <1>0
    <3> HIDE DEF behind
    <3>7. /\ s.eng \in Engine /\ SameOffice(c.eng, s.eng)
          /\ \A x \in s.sends : /\ x = [to |-> x.to, msg |-> x.msg]
                                /\ x.to \in behind /\ x.msg \in AppendEntries
                                /\ x.msg.leader_id = i /\ x.msg.term = CurrentTerm(c.eng)
      BY <3>5, <3>6, SendFacts
    <3>8. h = [eng |-> s.eng, sends |-> s.sends, apply |-> c.apply]
      BY <2>1, <2>3 DEF OnSuccess, f, c, behind
    <3> HIDE DEF s
    <3>9. SameOffice(e, s.eng) /\ CurrentTerm(c.eng) = CurrentTerm(e)
      BY <3>4, <3>5, <3>7 DEF SameOffice, CurrentTerm
    <3> QED BY <2>2, <3>5, <3>6, <3>7, <3>8, <3>9, SameOfficeIsQuiet
  <2>4. CASE ~m.success
    <3>1. h = OnReject(e, i, from)
      BY <2>1, <2>4
    <3>2. CASE RejectIsStale(e, from)
      <4> DEFINE f == [e EXCEPT !.ae_inflight = @ \ {from}]
      <4>1. h.eng = f /\ h.sends = {} /\ h.apply = <<>>
        BY <3>1, <3>2 DEF OnReject
      <4>2. f \in Engine /\ SameOffice(e, f)
        BY DEF Engine, SameOffice
      <4> HIDE DEF f
      <4> QED BY <4>1, <4>2, SameOfficeIsQuiet
    <3>3. CASE ~RejectIsStale(e, from)
      <4> DEFINE f == StepBack(e, from)
                 s == SendAppendEntries(f, i, {from})
      <4>3. f \in Engine /\ SameOffice(e, f)
        BY <1>0, StepBackFacts
      <4>4. h = [eng |-> s.eng, sends |-> s.sends, apply |-> <<>>]
        BY <3>1, <3>3 DEF OnReject
      <4> HIDE DEF f
      <4>5. /\ s.eng \in Engine /\ SameOffice(f, s.eng)
            /\ \A x \in s.sends : /\ x = [to |-> x.to, msg |-> x.msg]
                                  /\ x.to \in {from} /\ x.msg \in AppendEntries
                                  /\ x.msg.leader_id = i /\ x.msg.term = CurrentTerm(f)
        BY <1>0, <4>3, SendFacts
      <4> HIDE DEF s
      <4>6. SameOffice(e, s.eng) /\ CurrentTerm(f) = CurrentTerm(e)
        BY <4>3, <4>5 DEF SameOffice, CurrentTerm
      <4> QED BY <1>0, <2>2, <4>4, <4>5, <4>6, SameOfficeIsQuiet
    <3> QED BY <3>2, <3>3
  <2> QED BY <2>3, <2>4
<1> QED BY <1>1, <1>2, <1>3

\* handle_rpc_failure frees the peer and nothing else.
LEMMA RpcFailureFacts ==
    ASSUME NEW e \in Engine, NEW to \in Voters, NEW kind,
           NEW f, f = HandleRpcFailure(e, to, kind)
    PROVE  f \in Engine /\ SameOffice(e, f)
BY DEF HandleRpcFailure, Engine, SameOffice

-----------------------------------------------------------------------------
(* Replication, the follower's side.                                       *)

\* The conditional truncate and append keep the storage's type and its hard
\* state.
LEMMA AppendFacts ==
    ASSUME NEW st \in Storage, NEW m \in AppendEntries
    PROVE  /\ AppendEntriesTo(st, m) \in Storage
           /\ AppendEntriesTo(st, m).hard_state = st.hard_state
<1> DEFINE n == AppendFrom(st, m)
           Diff == {k \in 1 .. Len(m.entries) :
                        \/ ~HasEntry(st, m.prev_log_index + k)
                        \/ EntryAt(st, m.prev_log_index + k).term # m.entries[k].term}
                   \cup {Len(m.entries) + 1}
<1>1. m.entries \in Seq(LogEntry) /\ m.prev_log_index \in Nat
  BY DEF AppendEntries
<1>2. Diff \in SUBSET Nat /\ Diff # {}
  BY <1>1
<1>3. n \in Diff
  <2>1. n = Min(Diff)
    BY DEF AppendFrom
  <2> HIDE DEF n, Diff
  <2> QED BY <1>2, <2>1, MinOfNats
<1>4. n \in 1 .. Len(m.entries) + 1
  BY <1>1, <1>3
<1> HIDE DEF n, Diff
<1>5. CASE n > Len(m.entries)
  BY <1>5 DEF AppendEntriesTo, n
<1>6. CASE ~(n > Len(m.entries))
  <2> DEFINE t == TruncateFrom(st, m.prev_log_index + n)
             rest == SubSeq(m.entries, n, Len(m.entries))
  <2>1. m.prev_log_index + n \in Nat
    BY <1>1, <1>4
  <2>2. t \in Storage /\ t.hard_state = st.hard_state
    BY <2>1, TruncateFromFacts
  <2>3. rest \in Seq(LogEntry)
    BY <1>1, <1>4
  <2>4. AppendEntriesTo(st, m) = PersistEntries(t, rest)
    BY <1>6 DEF AppendEntriesTo, n
  <2> HIDE DEF t, rest
  <2> QED BY <2>2, <2>3, <2>4, PersistEntriesFacts
<1> QED BY <1>5, <1>6

\* handle_append_entries: a message of an old term changes nothing; any other
\* makes the node a follower of its sender in the message's term.
LEMMA HandleAppendEntriesFacts ==
    ASSUME NEW e \in Engine, NEW m \in AppendEntries,
           NEW h, h = HandleAppendEntries(e, m)
    PROVE  /\ h.eng \in Engine
           /\ h.reply \in AppendEntriesResp
           /\ h.apply \in Seq(LogEntry)
           /\ CastsNoVote(e, h.eng)
           /\ \/ h.eng = e
              \/ /\ h.eng.role = Follower
                 /\ h.eng.leader = m.leader_id
                 /\ CurrentTerm(h.eng) = m.term
<1> DEFINE f == FollowLeader(e, m)
           g == [f EXCEPT !.storage = AppendEntriesTo(f.storage, m)]
           c == AdvanceCommitAndApply(g, m.leader_commit, LastNew(m))
<1>0. /\ m.term \in Nat /\ m.leader_id \in Voters /\ m.leader_commit \in Nat
      /\ m.prev_log_index \in Nat /\ m.entries \in Seq(LogEntry)
      /\ CurrentTerm(e) \in Nat
  BY EngineFields DEF AppendEntries
<1>1. CASE m.term < CurrentTerm(e)
  <2>1. h = [eng |-> e, reply |-> AppendReply(e, FALSE, LastIndex(e.storage)), apply |-> <<>>]
    <3>1. ~(m.term >= CurrentTerm(e))
      BY <1>0, <1>1
    <3> QED BY <1>1, <3>1 DEF HandleAppendEntries
  <2>2. AppendReply(e, FALSE, LastIndex(e.storage)) \in AppendEntriesResp
    BY <1>0, EngineFields, LastType DEF AppendReply, AppendEntriesResp
  <2>3. CastsNoVote(e, e)
    BY <1>0 DEF CastsNoVote
  <2>4. h.eng = e /\ h.reply \in AppendEntriesResp /\ h.apply = <<>>
    BY <2>1, <2>2 DEF AppendReply
  <2> QED BY <2>3, <2>4
<1>2. CASE m.term >= CurrentTerm(e)
  <2>1. /\ f \in Engine /\ f.role = Follower /\ f.leader = m.leader_id
        /\ CurrentTerm(f) = m.term /\ CastsNoVote(e, f)
    <3>1. CASE m.term > CurrentTerm(e) \/ e.role # Follower
      <4>1. f = BecomeFollower(e, m.term, m.leader_id)
        BY <3>1 DEF FollowLeader
      <4> HIDE DEF f
      <4> QED BY <1>0, <1>2, <4>1, BecomeFollowerFacts
    <3>2. CASE ~(m.term > CurrentTerm(e) \/ e.role # Follower)
      <4>1. f = [e EXCEPT !.leader = m.leader_id]
        BY <3>2 DEF FollowLeader
      <4>2. f \in Engine /\ f.role = Follower /\ f.leader = m.leader_id
            /\ f.storage = e.storage
        BY <1>0, <3>2, <4>1 DEF Engine
      <4> HIDE DEF f
      <4> QED BY <1>0, <1>2, <3>2, <4>2 DEF CastsNoVote, CurrentTerm, VotedFor
    <3> QED BY <3>1, <3>2
  <2> HIDE DEF f
  <2>2. CASE ~PrevOk(f.storage, m)
    <3>1. h = [eng |-> f, reply |-> AppendReply(f, FALSE, LastIndex(f.storage)), apply |-> <<>>]
      <4>1. ~(m.term < CurrentTerm(e))
        BY <1>0, <1>2
      <4> QED BY <1>2, <2>2, <4>1 DEF HandleAppendEntries, f
    <3>2. AppendReply(f, FALSE, LastIndex(f.storage)) \in AppendEntriesResp
      BY <1>0, <2>1, EngineFields, LastType DEF AppendReply, AppendEntriesResp
    <3>3. h.eng = f /\ h.reply \in AppendEntriesResp /\ h.apply = <<>>
      BY <3>1, <3>2 DEF AppendReply
    <3> QED BY <2>1, <3>3
  <2>3. CASE PrevOk(f.storage, m)
    <3>1. h = [eng |-> c.eng, reply |-> AppendReply(c.eng, TRUE, LastNew(m)), apply |-> c.apply]
      <4>1. ~(m.term < CurrentTerm(e))
        BY <1>0, <1>2
      <4> QED BY <1>2, <2>3, <4>1 DEF HandleAppendEntries, f
    <3>2. g \in Engine /\ SameOffice(f, g)
      <4>1. /\ AppendEntriesTo(f.storage, m) \in Storage
            /\ AppendEntriesTo(f.storage, m).hard_state = f.storage.hard_state
        BY <2>1, EngineFields, AppendFacts
      <4> QED BY <2>1, <4>1 DEF Engine, SameOffice
    <3>3. LastNew(m) \in Nat
      BY <1>0 DEF LastNew
    <3> HIDE DEF g
    <3>4. c.eng \in Engine /\ c.apply \in Seq(LogEntry) /\ SameOffice(g, c.eng)
      BY <1>0, <3>2, <3>3, AdvanceCommitFacts
    <3> HIDE DEF c
    <3>5. /\ c.eng.role = Follower /\ c.eng.leader = m.leader_id
          /\ CurrentTerm(c.eng) = m.term /\ CastsNoVote(e, c.eng)
      BY <2>1, <3>2, <3>4 DEF SameOffice, CastsNoVote, CurrentTerm, VotedFor
    <3>6. AppendReply(c.eng, TRUE, LastNew(m)) \in AppendEntriesResp
      BY <1>0, <3>3, <3>5 DEF AppendReply, AppendEntriesResp
    <3>7. h.eng = c.eng /\ h.reply \in AppendEntriesResp /\ h.apply = c.apply
      BY <3>1, <3>6 DEF AppendReply
    <3> QED BY <3>4, <3>5, <3>7
  <2> QED BY <2>2, <2>3
<1> QED BY <1>0, <1>1, <1>2

-----------------------------------------------------------------------------
(***************************************************************************)
(* What the handlers do to a log whose entries sit at their own index.     *)
(***************************************************************************)

\* last_index_term reads the index from the last entry; in a contiguous log
\* that is the length.
LEMMA LastIndexIsLen ==
    ASSUME NEW st \in Storage, Contiguous(st.entries)
    PROVE  LastIndex(st) = Len(st.entries) /\ Len(st.entries) \in Nat
<1>1. st.entries \in Seq(LogEntry)
  BY DEF Storage
<1>2. CASE st.entries = <<>>
  BY <1>2 DEF LastIndex
<1>3. CASE st.entries # <<>>
  <2>1. Len(st.entries) \in DOMAIN st.entries
    BY <1>1, <1>3
  <2> QED BY <1>1, <1>3, <2>1 DEF LastIndex, Contiguous
<1> QED BY <1>2, <1>3

\* The message is a fragment of the log: its entries, and the term of the
\* entry before them, are the log's.
FragmentOf(m, log) ==
    /\ LastNew(m) <= Len(log)
    /\ \A n \in 1 .. Len(m.entries) : m.entries[n] = log[m.prev_log_index + n]
    /\ m.prev_log_term = IF m.prev_log_index = 0 THEN 0 ELSE log[m.prev_log_index].term

\* The entries of a message continue the log after its previous entry.
Consecutive(m) == \A n \in 1 .. Len(m.entries) : m.entries[n].index = m.prev_log_index + n

\* A fragment of a contiguous log is consecutive.
LEMMA FragmentsAreConsecutive ==
    ASSUME NEW m \in AppendEntries, NEW log \in Seq(LogEntry), Contiguous(log),
           FragmentOf(m, log)
    PROVE  Consecutive(m)
<1>1. m.prev_log_index \in Nat /\ m.entries \in Seq(LogEntry)
  BY DEF AppendEntries
<1>2. ASSUME NEW n \in 1 .. Len(m.entries) PROVE m.prev_log_index + n \in DOMAIN log
  BY <1>1 DEF FragmentOf, LastNew
<1> QED BY <1>1, <1>2 DEF Consecutive, FragmentOf, Contiguous

\* build_append_entries sends a fragment of the leader's log that reaches to
\* its end.
LEMMA BuildFragment ==
    ASSUME NEW e \in Engine, NEW i \in Voters, NEW p \in Voters, CanBuild(e, p),
           Contiguous(Log(e)),
           NEW m, m = BuildAppendEntries(e, i, p)
    PROVE  /\ FragmentOf(m, Log(e))
           /\ m.prev_log_index = e.next_index[p] - 1
           /\ LastNew(m) = Len(Log(e))
           /\ m.leader_commit = e.commit_index
<1> DEFINE next == e.next_index[p]
           log == Log(e)
<1>1. next \in Nat \ {0} /\ log \in Seq(LogEntry) /\ LastIndex(e.storage) = Len(log) /\ Len(log) \in Nat
  BY EngineFields, LastIndexIsLen DEF CanBuild, Log
<1>2. next <= Len(log) + 1
  BY <1>1 DEF CanBuild, PrevIndex, HasEntry, Log
<1>3. m.prev_log_index = next - 1 /\ m.leader_commit = e.commit_index
      /\ m.entries = SubSeq(log, next, Len(log))
      /\ m.prev_log_term = IF next - 1 = 0 THEN 0 ELSE log[next - 1].term
  BY <1>1 DEF BuildAppendEntries, PrevIndex, EntryAt, Log
<1> HIDE DEF next, log
<1>4. Len(m.entries) = Len(log) - next + 1
  BY <1>1, <1>2, <1>3
<1>5. ASSUME NEW n \in 1 .. Len(m.entries) PROVE m.entries[n] = log[m.prev_log_index + n]
  BY <1>1, <1>2, <1>3, <1>4
<1>6. LastNew(m) = Len(log)
  BY <1>1, <1>3, <1>4 DEF LastNew
<1> QED BY <1>1, <1>3, <1>5, <1>6 DEF FragmentOf, next, log

\* propose appends one entry of the current term.
LEMMA ProposeEntryAppends ==
    ASSUME NEW e \in Engine, Contiguous(Log(e)), NEW data \in Data,
           NEW f, f = ProposeEntry(e, data)
    PROVE  /\ f \in Engine
           /\ Contiguous(Log(f))
           /\ Len(Log(f)) = Len(Log(e)) + 1
           /\ \A k \in 1 .. Len(Log(e)) : Log(f)[k] = Log(e)[k]
           /\ Log(f)[Len(Log(e)) + 1].term = CurrentTerm(e)
           /\ f = [e EXCEPT !.storage = f.storage]
           /\ f.storage.hard_state = e.storage.hard_state
<1> DEFINE entry == [index |-> LastIndex(e.storage) + 1, term |-> CurrentTerm(e),
                     data |-> data]
           batch == <<entry>>
           log == Log(e)
<1>1. log \in Seq(LogEntry) /\ LastIndex(e.storage) = Len(log) /\ Len(log) \in Nat
  BY EngineFields, LastIndexIsLen DEF Log
<1>2. batch \in Seq(LogEntry) /\ Len(batch) = 1 /\ batch[1] = entry
  <2>1. entry \in LogEntry
    BY <1>1, EngineFields DEF LogEntry
  <2> HIDE DEF entry
  <2> QED BY <2>1
<1>3. \A n \in 1 .. Len(batch) : batch[n].index = Len(log) + n
  BY <1>1, <1>2
<1>4. f = [e EXCEPT !.storage = PersistEntries(e.storage, batch)]
  BY DEF ProposeEntry
<1>5. entry.term = CurrentTerm(e)
  OBVIOUS
<1> HIDE DEF entry, batch, log
<1>6. f.storage = [e.storage EXCEPT !.entries = WriteEntries(log, batch)]
  BY <1>4 DEF Engine, PersistEntries, log, Log
<1>7. Log(f) = WriteEntries(log, batch) /\ f.storage.hard_state = e.storage.hard_state
  BY <1>6, EngineFields DEF Storage, Log
<1>8. f.storage \in Storage
  <2>1. f.storage = PersistEntries(e.storage, batch)
    BY <1>4 DEF Engine
  <2> QED BY <1>2, <2>1, EngineFields, PersistEntriesFacts
<1>9. f \in Engine /\ f = [e EXCEPT !.storage = f.storage]
  BY <1>4, <1>8 DEF Engine
<1>10. /\ Len(Log(f)) = Len(log) + 1
       /\ \A k \in 1 .. Len(log) : Log(f)[k] = log[k]
       /\ Log(f)[Len(log) + 1] = batch[1]
  <2> DEFINE new == WriteEntries(log, batch)
  <2>1. log \in Seq(LogEntry) /\ batch \in Seq(LogEntry)
    BY <1>1, <1>2
  <2>2. /\ Len(new) = Len(log) + Len(batch)
        /\ \A k \in 1 .. Len(log) : new[k] = log[k]
        /\ \A n \in 1 .. Len(batch) : new[Len(log) + n] = batch[n]
    BY <1>3, <2>1, WriteEntriesAppends
  <2> HIDE DEF new
  <2>3. Log(f) = new
    BY <1>7 DEF new
  <2> QED BY <1>2, <2>2, <2>3
<1>11. Contiguous(Log(f))
  BY <1>1, <1>2, <1>7, WriteEntriesType DEF log
<1> QED BY <1>2, <1>5, <1>7, <1>9, <1>10, <1>11 DEF log

\* The log holds, at the places of the message, entries of the message's
\* terms up to the n-th.
SameTerms(log, m, n) ==
    \A j \in 1 .. n : /\ m.prev_log_index + j <= Len(log)
                      /\ log[m.prev_log_index + j].term = m.entries[j].term

\* The first entry of the message that the log does not have is either none,
\* or sits right behind entries with the terms of the message.
LEMMA AppendFromFacts ==
    ASSUME NEW st \in Storage, NEW m \in AppendEntries,
           NEW n, n = AppendFrom(st, m)
    PROVE  /\ n \in 1 .. Len(m.entries) + 1
           /\ SameTerms(st.entries, m, n - 1)
           /\ n <= Len(m.entries) =>
                  \/ m.prev_log_index + n > Len(st.entries)
                  \/ st.entries[m.prev_log_index + n].term # m.entries[n].term
<1> DEFINE Differs(k) == \/ ~HasEntry(st, m.prev_log_index + k)
                         \/ EntryAt(st, m.prev_log_index + k).term # m.entries[k].term
           Diff == {k \in 1 .. Len(m.entries) : Differs(k)} \cup {Len(m.entries) + 1}
<1>1. m.entries \in Seq(LogEntry) /\ m.prev_log_index \in Nat /\ Len(m.entries) \in Nat
      /\ st.entries \in Seq(LogEntry) /\ Len(st.entries) \in Nat
  BY DEF AppendEntries, Storage
<1>2. Diff \in SUBSET Nat /\ Diff # {}
  BY <1>1
<1>3. n \in Diff /\ \A y \in Diff : n <= y
  <2>1. n = Min(Diff)
    BY DEF AppendFrom
  <2> HIDE DEF Diff
  <2> QED BY <1>2, <2>1, MinOfNats
<1>4. n \in 1 .. Len(m.entries) + 1
  BY <1>1, <1>3
<1>5. ASSUME NEW j \in 1 .. n - 1 PROVE ~Differs(j)
  <2>1. j \in 1 .. Len(m.entries) /\ j \notin Diff
    BY <1>1, <1>3, <1>4
  <2> QED BY <2>1
<1>6. SameTerms(st.entries, m, n - 1)
  BY <1>1, <1>5 DEF SameTerms, HasEntry, EntryAt
<1>7. ASSUME n <= Len(m.entries) PROVE Differs(n)
  BY <1>1, <1>3, <1>7
<1>8. n <= Len(m.entries) => \/ m.prev_log_index + n > Len(st.entries)
                             \/ st.entries[m.prev_log_index + n].term # m.entries[n].term
  BY <1>1, <1>4, <1>7 DEF HasEntry, EntryAt
<1> QED BY <1>4, <1>6, <1>8

\* How an accepted AppendEntries changes the log: it keeps everything, or it
\* keeps the entries before some entry of the message, the n-th, that is
\* missing or of another term, and ends with the rest of the message.
Spliced(log, m, new, n) ==
    /\ m.prev_log_index + n - 1 <= Len(log)
    /\ \/ m.prev_log_index + n > Len(log)
       \/ log[m.prev_log_index + n].term # m.entries[n].term
    /\ Len(new) = LastNew(m)
    /\ \A k \in 1 .. m.prev_log_index + n - 1 : new[k] = log[k]
    /\ \A j \in n .. Len(m.entries) : new[m.prev_log_index + j] = m.entries[j]

\* truncate_from within the log, or right behind it, keeps what is before.
LEMMA TruncateKeepsPrefix ==
    ASSUME NEW st \in Storage, NEW index \in 1 .. Len(st.entries) + 1
    PROVE  /\ TruncateFrom(st, index) \in Storage
           /\ TruncateFrom(st, index).hard_state = st.hard_state
           /\ Len(TruncateFrom(st, index).entries) = index - 1
           /\ \A k \in 1 .. index - 1 : TruncateFrom(st, index).entries[k] = st.entries[k]
<1>1. st.entries \in Seq(LogEntry) /\ Len(st.entries) \in Nat /\ index \in Nat
  BY DEF Storage
<1>2. TruncateFrom(st, index) \in Storage /\ TruncateFrom(st, index).hard_state = st.hard_state
  BY <1>1, TruncateFromFacts
<1>3. CASE index - 1 < Len(st.entries)
  <2>1. TruncateFrom(st, index).entries = SubSeq(st.entries, 1, index - 1)
    BY <1>1, <1>3 DEF TruncateFrom, Storage
  <2> QED BY <1>1, <1>2, <1>3, <2>1
<1>4. CASE ~(index - 1 < Len(st.entries))
  <2>1. TruncateFrom(st, index).entries = st.entries
    BY <1>1, <1>4 DEF TruncateFrom, Storage
  <2> QED BY <1>1, <1>2, <1>4, <2>1
<1> QED BY <1>3, <1>4

\* The batch is the message from its n-th entry on; it continues the log t,
\* which is the log of st up to the place of that entry.
Continuation(st, m, n, t, batch) ==
    /\ m.prev_log_index + n \in 1 .. Len(st.entries) + 1 /\ n \in 1 .. Len(m.entries)
    /\ t \in Storage /\ Len(t.entries) = m.prev_log_index + n - 1
    /\ \A k \in 1 .. m.prev_log_index + n - 1 : t.entries[k] = st.entries[k]
    /\ batch \in Seq(LogEntry) /\ Len(batch) = Len(m.entries) - n + 1
    /\ \A j \in 1 .. Len(m.entries) - n + 1 : batch[j] = m.entries[n + j - 1]
    /\ \A j \in 1 .. Len(batch) : batch[j].index = Len(t.entries) + j

\* What handle_append_entries persists after a conditional truncate, the rest
\* of the message from the first entry that the log does not have, continues
\* the log that the truncate leaves.
LEMMA RestContinues ==
    ASSUME NEW st \in Storage, NEW m \in AppendEntries,
           PrevOk(st, m), Consecutive(m),
           NEW n, n = AppendFrom(st, m), n <= Len(m.entries),
           NEW t, t = TruncateFrom(st, m.prev_log_index + n),
           NEW rest, rest = SubSeq(m.entries, n, Len(m.entries))
    PROVE  Continuation(st, m, n, t, rest)
<1> DEFINE prev == m.prev_log_index
           len == Len(m.entries)
           log == st.entries
<1>1. /\ m.entries \in Seq(LogEntry) /\ prev \in Nat /\ len \in Nat
      /\ log \in Seq(LogEntry) /\ Len(log) \in Nat
  BY DEF AppendEntries, Storage
<1>2. /\ n \in 1 .. len + 1
      /\ SameTerms(log, m, n - 1)
  BY AppendFromFacts
<1>3. prev <= Len(log)
  BY <1>1 DEF PrevOk, HasEntry
<1>4. ~(n > len)
  BY <1>1, <1>2
<1>5. prev + n \in 1 .. Len(log) + 1 /\ n \in 1 .. len
  <2>1. CASE n = 1
    BY <1>1, <1>3, <1>4, <2>1
  <2>2. CASE n # 1
    <3>1. n - 1 \in 1 .. n - 1 /\ n \in 1 .. len
      BY <1>1, <1>2, <1>4, <2>2
    <3>2. prev + (n - 1) <= Len(log)
      BY <1>2, <3>1 DEF SameTerms
    <3> QED BY <1>1, <3>1, <3>2
  <2> QED BY <2>1, <2>2
<1>6. /\ t \in Storage /\ Len(t.entries) = prev + n - 1
      /\ \A k \in 1 .. prev + n - 1 : t.entries[k] = log[k]
  <2> DEFINE index == prev + n
  <2>1. /\ t \in Storage /\ Len(t.entries) = index - 1
        /\ \A k \in 1 .. index - 1 : t.entries[k] = log[k]
    <3>1. index \in 1 .. Len(st.entries) + 1 /\ t = TruncateFrom(st, index)
      BY <1>5
    <3> HIDE DEF index
    <3> QED BY <3>1, TruncateKeepsPrefix
  <2>2. index - 1 = prev + n - 1
    BY <1>1, <1>2
  <2> HIDE DEF index
  <2> QED BY <2>1, <2>2, Zenon
<1>7. /\ rest \in Seq(LogEntry) /\ Len(rest) = len - n + 1
      /\ \A j \in 1 .. len - n + 1 : rest[j] = m.entries[n + j - 1]
  <2>1. n \in Int /\ len \in Int /\ n <= len /\ \A k \in n .. len : m.entries[k] \in LogEntry
    BY <1>1, <1>5
  <2>2. /\ SubSeq(m.entries, n, len) \in Seq(LogEntry)
        /\ Len(SubSeq(m.entries, n, len)) = len - n + 1
    BY <2>1
  <2>3. \A j \in 1 .. len - n + 1 : SubSeq(m.entries, n, len)[j] = m.entries[n + j - 1]
    BY <2>1
  <2> QED BY <2>2, <2>3
<1>8. \A j \in 1 .. Len(rest) : rest[j].index = Len(t.entries) + j
  <2> SUFFICES ASSUME NEW j \in 1 .. Len(rest) PROVE rest[j].index = Len(t.entries) + j
    OBVIOUS
  <2>1. n + j - 1 \in 1 .. len /\ rest[j] = m.entries[n + j - 1]
    <3>1. j \in 1 .. len - n + 1 /\ n \in 1 .. len /\ len \in Nat
      BY <1>1, <1>5, <1>7
    <3>2. n + j - 1 \in 1 .. len
      BY <3>1
    <3> QED BY <1>7, <3>1, <3>2
  <2>2. m.entries[n + j - 1].index = prev + (n + j - 1)
    BY <2>1 DEF Consecutive
  <2>3. Len(t.entries) = prev + n - 1 /\ prev \in Nat /\ n \in Nat /\ j \in Nat
    BY <1>1, <1>5, <1>6, <1>7
  <2>4. rest[j].index = prev + (n + j - 1)
    BY <2>1, <2>2
  <2>5. prev + (n + j - 1) = (prev + n - 1) + j
    <3> HIDE DEF prev
    <3> QED BY <2>3
  <2>6. Len(t.entries) + j = (prev + n - 1) + j
    BY <2>3
  <2> HIDE DEF prev
  <2> QED BY <2>4, <2>5, <2>6, Zenon
<1> QED BY <1>5, <1>6, <1>7, <1>8 DEF Continuation

\* handle_append_entries writes all that is left of an accepted message.
LEMMA AcceptedBatchFits ==
    ASSUME NEW st \in Storage, NEW m \in AppendEntries, PrevOk(st, m), Consecutive(m),
           NEW n, n = AppendFrom(st, m)
    PROVE  PersistOk(TruncateFrom(st, m.prev_log_index + n),
                     SubSeq(m.entries, n, Len(m.entries)))
<1> DEFINE t == TruncateFrom(st, m.prev_log_index + n)
           rest == SubSeq(m.entries, n, Len(m.entries))
<1>1. /\ m.entries \in Seq(LogEntry) /\ Len(m.entries) \in Nat /\ m.prev_log_index \in Nat
      /\ n \in 1 .. Len(m.entries) + 1 /\ st.entries \in Seq(LogEntry)
  BY AppendFromFacts DEF AppendEntries, Storage
<1>2. t \in Storage /\ t.entries \in Seq(LogEntry)
  <2>1. m.prev_log_index + n \in Nat
    BY <1>1
  <2> QED BY <2>1, TruncateFromFacts DEF Storage
<1>3. Len(rest) \in Nat /\ \A j \in 1 .. Len(rest) : rest[j].index = Len(t.entries) + j
  <2>1. CASE n <= Len(m.entries)
    <3> HIDE DEF t, rest
    <3>1. Continuation(st, m, n, t, rest)
      BY <2>1, RestContinues DEF t, rest
    <3> QED BY <3>1 DEF Continuation
  <2>2. CASE n = Len(m.entries) + 1
    <3>1. Len(rest) = 0
      BY <1>1, <2>2
    <3> HIDE DEF t, rest
    <3>2. 1 .. Len(rest) = {}
      BY <3>1
    <3> QED BY <3>1, <3>2
  <2>3. n <= Len(m.entries) \/ n = Len(m.entries) + 1
    BY <1>1
  <2> HIDE DEF t, rest
  <2> QED BY <2>1, <2>2, <2>3
<1>4. Written(t.entries, rest) = Len(rest)
  <2> HIDE DEF t, rest
  <2> QED BY <1>2, <1>3, ContinuingBatchIsWritten
<1> QED BY <1>4 DEF PersistOk

\* The conditional truncate and append of handle_append_entries.
LEMMA AppendSplices ==
    ASSUME NEW st \in Storage, NEW m \in AppendEntries,
           Contiguous(st.entries), PrevOk(st, m), Consecutive(m),
           NEW new, new = AppendEntriesTo(st, m).entries
    PROVE  /\ new \in Seq(LogEntry) /\ Contiguous(new)
           /\ m.prev_log_index <= Len(st.entries)
           /\ \/ new = st.entries /\ SameTerms(new, m, Len(m.entries))
              \/ \E n \in 1 .. Len(m.entries) :
                    SameTerms(st.entries, m, n - 1) /\ Spliced(st.entries, m, new, n)
<1> DEFINE n == AppendFrom(st, m)
           prev == m.prev_log_index
           len == Len(m.entries)
           log == st.entries
<1>1. /\ m.entries \in Seq(LogEntry) /\ prev \in Nat /\ len \in Nat
      /\ log \in Seq(LogEntry) /\ Len(log) \in Nat
  BY DEF AppendEntries, Storage
<1>2. /\ n \in 1 .. len + 1
      /\ SameTerms(log, m, n - 1)
      /\ n <= len => \/ prev + n > Len(log)
                     \/ log[prev + n].term # m.entries[n].term
  BY AppendFromFacts
<1>3. prev <= Len(log)
  BY <1>1 DEF PrevOk, HasEntry
<1> HIDE DEF n
<1>4. CASE n > len
  <2>1. AppendEntriesTo(st, m) = st /\ n - 1 = len
    BY <1>1, <1>2, <1>4 DEF AppendEntriesTo, n
  <2> QED BY <1>1, <1>2, <1>3, <2>1
<1>5. CASE ~(n > len)
  <2> DEFINE t == TruncateFrom(st, prev + n)
             rest == SubSeq(m.entries, n, len)
  <2>1. /\ prev + n \in 1 .. Len(log) + 1 /\ n \in 1 .. len
        /\ t \in Storage /\ Len(t.entries) = prev + n - 1
        /\ \A k \in 1 .. prev + n - 1 : t.entries[k] = log[k]
        /\ rest \in Seq(LogEntry) /\ Len(rest) = len - n + 1
        /\ \A j \in 1 .. len - n + 1 : rest[j] = m.entries[n + j - 1]
        /\ \A j \in 1 .. Len(rest) : rest[j].index = Len(t.entries) + j
    <3>1. n = AppendFrom(st, m) /\ n <= len
      BY <1>1, <1>2, <1>5 DEF n
    <3>2. t = TruncateFrom(st, m.prev_log_index + n)
          /\ rest = SubSeq(m.entries, n, Len(m.entries)) /\ n <= Len(m.entries)
      BY <3>1
    <3> HIDE DEF t, rest
    <3>3. Continuation(st, m, n, t, rest)
      BY <3>1, <3>2, RestContinues
    <3> QED BY <3>3 DEF Continuation
  <2>2. AppendEntriesTo(st, m) = PersistEntries(t, rest)
    BY <1>5 DEF AppendEntriesTo, n
  <2> HIDE DEF t, rest
  <2>3. new = WriteEntries(t.entries, rest) /\ t.entries \in Seq(LogEntry)
    BY <2>1, <2>2 DEF PersistEntries, Storage
  <2>4. /\ new \in Seq(LogEntry)
        /\ Len(new) = Len(t.entries) + Len(rest)
        /\ \A k \in 1 .. Len(t.entries) : new[k] = t.entries[k]
        /\ \A j \in 1 .. Len(rest) : new[Len(t.entries) + j] = rest[j]
    <3> DEFINE kept == t.entries
    <3>1. /\ kept \in Seq(LogEntry) /\ rest \in Seq(LogEntry)
          /\ \A j \in 1 .. Len(rest) : rest[j].index = Len(kept) + j
          /\ new = WriteEntries(kept, rest)
      BY <2>1, <2>3
    <3> HIDE DEF kept
    <3>2. /\ new \in Seq(LogEntry)
          /\ Len(new) = Len(kept) + Len(rest)
          /\ \A k \in 1 .. Len(kept) : new[k] = kept[k]
          /\ \A j \in 1 .. Len(rest) : new[Len(kept) + j] = rest[j]
      BY <3>1, WriteEntriesAppends
    <3> QED BY <3>2 DEF kept
  <2>5. Len(new) = prev + len
    BY <1>1, <2>1, <2>4
  <2>6. ASSUME NEW k \in 1 .. prev + n - 1 PROVE new[k] = log[k]
    BY <2>1, <2>4
  <2>7. ASSUME NEW j \in n .. len PROVE new[prev + j] = m.entries[j]
    <3>0. Len(rest) = len - n + 1 /\ Len(t.entries) = prev + n - 1
          /\ prev \in Nat /\ len \in Nat /\ n \in Nat /\ n >= 1
      BY <1>1, <2>1
    <3>1. j - n + 1 \in 1 .. Len(rest) /\ Len(t.entries) + (j - n + 1) = prev + j
          /\ n + (j - n + 1) - 1 = j /\ j - n + 1 \in 1 .. len - n + 1
      <4> HIDE DEF prev, len, n
      <4> QED BY <3>0
    <3>2. new[prev + j] = rest[j - n + 1]
      BY <2>4, <3>1
    <3>3. rest[j - n + 1] = m.entries[j]
      BY <2>1, <3>1
    <3> QED BY <3>2, <3>3
  <2>8. Contiguous(t.entries)
    <3> SUFFICES ASSUME NEW k \in DOMAIN t.entries PROVE t.entries[k].index = k
      BY DEF Contiguous
    <3>0. DOMAIN t.entries = 1 .. Len(t.entries) /\ DOMAIN log = 1 .. Len(log)
      BY <1>1, <2>3
    <3>1. k \in 1 .. prev + n - 1 /\ k \in DOMAIN log
      BY <1>1, <2>1, <3>0
    <3> QED BY <2>1, <3>1 DEF Contiguous
  <2>9. Contiguous(new)
    BY <2>1, <2>3, <2>8, WriteEntriesType
  <2>10. Spliced(log, m, new, n)
    <3>1. /\ prev + n - 1 <= Len(log)
          /\ prev + n > Len(log) \/ log[prev + n].term # m.entries[n].term
      <4>1. /\ prev + n \in 1 .. Len(log) + 1 /\ n \in 1 .. len
            /\ prev \in Nat /\ len \in Nat /\ Len(log) \in Nat
            /\ n <= len => prev + n > Len(log) \/ log[prev + n].term # m.entries[n].term
        BY <1>1, <1>2, <2>1
      <4> HIDE DEF prev, len, log
      <4> QED BY <4>1
    <3>2. Len(new) = LastNew(m)
      BY <2>5 DEF LastNew
    <3> QED BY <2>6, <2>7, <3>1, <3>2, Zenon DEF Spliced
  <2> QED BY <1>2, <1>3, <2>1, <2>4, <2>9, <2>10
<1> QED BY <1>4, <1>5

-----------------------------------------------------------------------------
(***************************************************************************)
(* What holds of every node by itself, whatever messages it gets.          *)
(***************************************************************************)

\* Nothing is recorded about any peer.
NoBooks(e) ==
    /\ e.next_index = [v \in Voters |-> 0]
    /\ e.match_index = [v \in Voters |-> 0]
    /\ e.last_ae = [v \in Voters |-> None]
    /\ e.ae_inflight = {}

\* What a leader records about a peer fits together and fits its log.
BooksFit(e, p) ==
    /\ e.match_index[p] < e.next_index[p]
    /\ e.next_index[p] <= Len(Log(e)) + 1
    /\ e.last_ae[p] # None => Matched(e, p) \in e.match_index[p] .. Len(Log(e))

\* The log is contiguous, everything committed has been handed out, a
\* candidate or leader has voted for itself, and the books are a leader's.
NodeOk(e, i) ==
    /\ Contiguous(Log(e))
    /\ e.last_applied = e.commit_index
    /\ e.role # Follower => VotedFor(e) = i
    /\ e.role # Leader => NoBooks(e)
    /\ e.role = Leader => \A p \in OtherVoters(i) : BooksFit(e, p)

\* Log, commit index and last_applied are as before.
SameRecord(e, f) ==
    /\ Log(f) = Log(e)
    /\ f.commit_index = e.commit_index
    /\ f.last_applied = e.last_applied

\* ForgetPeers clears the books and only them.
LEMMA NoBooksMeans ==
    ASSUME NEW e \in Engine
    PROVE  NoBooks(e) <=> e = ForgetPeers(e)
<1>1. /\ ForgetPeers(e).next_index = [v \in Voters |-> 0]
      /\ ForgetPeers(e).match_index = [v \in Voters |-> 0]
      /\ ForgetPeers(e).last_ae = [v \in Voters |-> None]
      /\ ForgetPeers(e).ae_inflight = {}
  BY DEF ForgetPeers, Engine
<1>2. e = ForgetPeers(e) => NoBooks(e)
  BY <1>1 DEF NoBooks
<1>3. ASSUME NoBooks(e) PROVE e = ForgetPeers(e)
  BY <1>3 DEF NoBooks, ForgetPeers, Engine
<1> QED BY <1>2, <1>3

\* become_follower closes the books and keeps the record.
LEMMA BecomeFollowerOk ==
    ASSUME NEW e \in Engine, NEW i \in Voters, NodeOk(e, i), NEW term \in Nat,
           NEW ldr \in Voters \cup {None}, term >= CurrentTerm(e),
           NEW f, f = BecomeFollower(e, term, ldr)
    PROVE  NodeOk(f, i) /\ SameRecord(e, f) /\ NoBooks(f)
<1>1. /\ f \in Engine /\ f.role = Follower /\ Log(f) = Log(e)
  BY BecomeFollowerFacts DEF Log
<1>2. /\ f.commit_index = e.commit_index /\ f.last_applied = e.last_applied
      /\ NoBooks(f)
  BY DEF BecomeFollower, ForgetPeers, Engine, NoBooks
<1>3. f.role # Leader
  BY <1>1 DEF Follower, Leader
<1> QED BY <1>1, <1>2, <1>3 DEF NodeOk, SameRecord

\* start_election keeps books closed and record.
LEMMA StartElectionOk ==
    ASSUME NEW e \in Engine, NEW i \in Voters, NodeOk(e, i), e.role # Leader,
           NEW f, f = StartElection(e, i)
    PROVE  NodeOk(f, i) /\ SameRecord(e, f)
<1>1. f \in Engine /\ f.role = Candidate /\ VotedFor(f) = i
  BY StartElectionFacts
<1>2. f.storage = [e.storage EXCEPT !.hard_state =
                       [current_term |-> CurrentTerm(e) + 1, voted_for |-> i]]
  BY DEF StartElection, BecomeCandidate, PersistHardState, Engine
<1>3. Log(f) = Log(e)
  BY <1>2, EngineFields DEF Log, Storage
<1>4. /\ f.commit_index = e.commit_index /\ f.last_applied = e.last_applied
      /\ NoBooks(e) => NoBooks(f)
  BY DEF StartElection, BecomeCandidate, Engine, NoBooks
<1>5. f.role # Leader
  BY <1>1 DEF Candidate, Leader
<1> QED BY <1>1, <1>3, <1>4, <1>5 DEF NodeOk, SameRecord

\* become_leader opens books that fit the log.
LEMMA BecomeLeaderOk ==
    ASSUME NEW e \in Engine, NEW i \in Voters, NodeOk(e, i), e.role # Follower,
           NEW f, f = BecomeLeader(e, i)
    PROVE  /\ NodeOk(f, i) /\ SameRecord(e, f)
           /\ f.ae_inflight = {}
           /\ f.match_index = [v \in Voters |-> 0]
<1>1. f \in Engine /\ f.role = Leader /\ f.storage = e.storage
  BY BecomeLeaderFacts
<1>2. LastIndex(e.storage) = Len(Log(e)) /\ Len(Log(e)) \in Nat
  BY EngineFields, LastIndexIsLen DEF NodeOk, Log
<1>3. /\ f.commit_index = e.commit_index /\ f.last_applied = e.last_applied
      /\ f.ae_inflight = {}
      /\ f.match_index = [v \in Voters |-> 0]
      /\ f.last_ae = [v \in Voters |-> None]
      /\ f.next_index = [v \in Voters |-> IF v = i THEN 0 ELSE LastIndex(e.storage) + 1]
  BY DEF BecomeLeader, Engine
<1>4. Log(f) = Log(e) /\ VotedFor(f) = VotedFor(e)
  BY <1>1 DEF Log, VotedFor
<1>5. ASSUME NEW p \in OtherVoters(i) PROVE BooksFit(f, p)
  BY <1>2, <1>3, <1>4 DEF BooksFit, OtherVoters
<1> QED BY <1>1, <1>3, <1>4, <1>5 DEF NodeOk, SameRecord, Follower, Leader

\* handle_request_vote for another candidate: a leader of the term has voted
\* for itself and does not grant, so that a grant meets no books.
LEMMA HandleRequestVoteOk ==
    ASSUME NEW e \in Engine, NEW i \in Voters, NodeOk(e, i),
           NEW m \in RequestVote, m.candidate_id # i,
           NEW h, h = HandleRequestVote(e, m)
    PROVE  /\ NodeOk(h.eng, i) /\ SameRecord(e, h.eng)
           /\ h.reply.vote_granted =>
                  LogIsUpToDate(e.storage, m.last_log_index, m.last_log_term)
           /\ h.eng.ae_inflight # {} \/ h.eng.role = Leader => h.eng = e
<1> DEFINE seen == IF m.term > CurrentTerm(e) THEN BecomeFollower(e, m.term, None) ELSE e
           after == IF CanGrantVote(seen, m) THEN GrantVote(seen, m) ELSE seen
<1>0. /\ m.term \in Nat /\ m.candidate_id \in Voters
      /\ CurrentTerm(e) \in Nat
  BY EngineFields DEF RequestVote
<1>1. CASE m.term < CurrentTerm(e)
  BY <1>1 DEF HandleRequestVote, VoteReply, SameRecord
<1>2. CASE ~(m.term < CurrentTerm(e))
  <2>1. h = [eng |-> after, reply |-> VoteReply(after, CanGrantVote(seen, m))]
    BY <1>2 DEF HandleRequestVote
  <2>2. /\ seen \in Engine /\ NodeOk(seen, i) /\ SameRecord(e, seen)
        /\ seen = e \/ (NoBooks(seen) /\ seen.role = Follower)
        /\ LastTerm(seen.storage) = LastTerm(e.storage)
        /\ LastIndex(seen.storage) = LastIndex(e.storage)
    <3>1. CASE m.term > CurrentTerm(e)
      <4>1. seen = BecomeFollower(e, m.term, None)
        BY <3>1
      <4> HIDE DEF seen
      <4>2. /\ seen \in Engine /\ NodeOk(seen, i) /\ SameRecord(e, seen) /\ NoBooks(seen)
            /\ seen.role = Follower
        BY <1>0, <3>1, <4>1, BecomeFollowerFacts, BecomeFollowerOk
      <4> QED BY <4>2 DEF SameRecord, LastTerm, LastIndex, Log
    <3>2. CASE ~(m.term > CurrentTerm(e))
      BY <3>2 DEF SameRecord
    <3> QED BY <3>1, <3>2
  <2> HIDE DEF seen
  <2>3. CASE CanGrantVote(seen, m)
    <3>1. after = GrantVote(seen, m)
      BY <2>3
    <3>2. seen.role = Follower
      <4> SUFFICES ASSUME seen.role # Follower PROVE FALSE
        OBVIOUS
      <4>1. VotedFor(seen) = i /\ i # None
        BY <2>2, NoneAssumption DEF NodeOk
      <4> QED BY <2>3, <4>1 DEF CanGrantVote
    <3>3. after.storage = [seen.storage EXCEPT !.hard_state =
              [current_term |-> CurrentTerm(seen), voted_for |-> m.candidate_id]]
      BY <2>2, <3>1 DEF GrantVote, PersistHardState, Engine
    <3>4. Log(after) = Log(seen)
      <4> HIDE DEF after
      <4> QED BY <2>2, <3>3, EngineFields DEF Log, Storage
    <3>5. /\ after.commit_index = seen.commit_index
          /\ after.last_applied = seen.last_applied
          /\ NoBooks(seen) => NoBooks(after)
          /\ after.role = Follower
      BY <2>2, <3>1 DEF GrantVote, Engine, NoBooks
    <3> HIDE DEF after
    <3>6. NoBooks(seen) /\ Follower # Leader
      BY <2>2, <3>2 DEF NodeOk, Follower, Leader
    <3>7. NodeOk(after, i) /\ SameRecord(e, after) /\ after.ae_inflight = {}
      BY <2>2, <3>4, <3>5, <3>6 DEF NodeOk, SameRecord, NoBooks
    <3>8. LogIsUpToDate(e.storage, m.last_log_index, m.last_log_term)
      BY <2>2, <2>3 DEF CanGrantVote, LogIsUpToDate
    <3> QED BY <2>1, <3>5, <3>6, <3>7, <3>8 DEF VoteReply
  <2>4. CASE ~CanGrantVote(seen, m)
    <3>1. after = seen /\ CanGrantVote(seen, m) = FALSE
      BY <2>4 DEF CanGrantVote
    <3>2. h.eng = seen /\ h.reply.vote_granted = FALSE
      BY <2>1, <3>1 DEF VoteReply
    <3> QED BY <2>2, <3>2 DEF NoBooks, Follower, Leader
  <2> QED BY <2>3, <2>4
<1> QED BY <1>1, <1>2

\* handle_request_vote_resp.
LEMMA HandleRequestVoteRespOk ==
    ASSUME NEW e \in Engine, NEW i \in Voters, NodeOk(e, i), NEW from \in Voters,
           NEW m \in RequestVoteResp,
           NEW f, f = HandleRequestVoteResp(e, i, from, m)
    PROVE  /\ NodeOk(f, i) /\ SameRecord(e, f)
           /\ f.ae_inflight # {} => f = e
           /\ f.role = Leader => f = e \/ f.match_index = [v \in Voters |-> 0]
<1> DEFINE votes == e.votes \cup {from}
<1>0. m.term \in Nat /\ m.vote_granted \in BOOLEAN /\ CurrentTerm(e) \in Nat
  BY EngineFields DEF RequestVoteResp
<1>1. CASE m.term > CurrentTerm(e)
  <2>1. f = BecomeFollower(e, m.term, None)
    BY <1>0, <1>1 DEF HandleRequestVoteResp
  <2>2. NodeOk(f, i) /\ SameRecord(e, f) /\ NoBooks(f)
    BY <1>0, <1>1, <2>1, BecomeFollowerOk
  <2> QED BY <2>2 DEF NoBooks
<1>2. CASE m.term = CurrentTerm(e) /\ e.role = Candidate /\ m.vote_granted
  <2>1. f = IF Cardinality(votes) >= Quorum THEN BecomeLeader(e, i)
            ELSE [e EXCEPT !.votes = votes]
    BY <1>0, <1>2 DEF HandleRequestVoteResp
  <2>2. CASE Cardinality(votes) >= Quorum
    <3>1. f = BecomeLeader(e, i) /\ e.role # Follower
      BY <1>2, <2>1, <2>2 DEF Candidate, Follower
    <3> QED BY <3>1, BecomeLeaderOk
  <2>3. CASE ~(Cardinality(votes) >= Quorum)
    <3>1. f = [e EXCEPT !.votes = votes] /\ e.role # Leader /\ NoBooks(e)
      BY <1>2, <2>1, <2>3 DEF Candidate, Leader, NodeOk
    <3> HIDE DEF votes
    <3>2. /\ f.role = e.role /\ f.storage = e.storage /\ NoBooks(f)
          /\ f.commit_index = e.commit_index /\ f.last_applied = e.last_applied
      BY <3>1 DEF Engine, NoBooks
    <3> QED BY <3>1, <3>2 DEF NodeOk, SameRecord, Log, VotedFor, NoBooks
  <2> QED BY <2>2, <2>3
<1>3. CASE /\ ~(m.term > CurrentTerm(e))
           /\ ~(m.term = CurrentTerm(e) /\ e.role = Candidate /\ m.vote_granted)
  <2>1. f = e
    BY <1>0, <1>3 DEF HandleRequestVoteResp
  <2> QED BY <2>1 DEF SameRecord
<1> QED BY <1>1, <1>2, <1>3

-----------------------------------------------------------------------------
\* What a step from e to f gives the application: the entries of f's log
\* between the two commit indices, all of them present.
Handed(e, f, apply) ==
    /\ f.commit_index >= e.commit_index
    /\ f.commit_index > e.commit_index => f.commit_index <= Len(Log(f))
    /\ Len(apply) = f.commit_index - e.commit_index
    /\ \A k \in 1 .. Len(apply) : apply[k] = Log(f)[e.commit_index + k]

\* Nothing but the commit index and last_applied changes.
OnlyCommits(e, f) ==
    f = [e EXCEPT !.commit_index = f.commit_index, !.last_applied = f.commit_index]

\* A step that keeps the record gives the application nothing.
LEMMA NothingHanded ==
    ASSUME NEW e \in Engine, NEW f \in Engine, SameRecord(e, f)
    PROVE  Handed(e, f, <<>>)
BY EngineFields DEF Handed, SameRecord

\* advance_commit_and_apply up to an index of the log hands out every entry
\* it commits and nothing else.
LEMMA AdvanceCommitHands ==
    ASSUME NEW e \in Engine, e.last_applied = e.commit_index,
           NEW leaderCommit \in Nat, NEW lastNew \in Nat, lastNew <= Len(Log(e)),
           NEW c, c = AdvanceCommitAndApply(e, leaderCommit, lastNew)
    PROVE  /\ Handed(e, c.eng, c.apply)
           /\ Log(c.eng) = Log(e)
           /\ c.eng.last_applied = c.eng.commit_index
           /\ c.eng.commit_index > e.commit_index =>
                  c.eng.commit_index <= leaderCommit /\ c.eng.commit_index <= lastNew
           /\ OnlyCommits(e, c.eng)
           /\ leaderCommit = lastNew /\ lastNew >= e.commit_index =>
                  c.eng.commit_index = lastNew
<1> DEFINE bound == Min({leaderCommit, lastNew})
           commit == Max({e.commit_index, bound})
           log == Log(e)
           upto == Min({commit, Len(log)})
<1>0. e.commit_index \in Nat /\ log \in Seq(LogEntry) /\ Len(log) \in Nat
  BY EngineFields
<1>1. bound \in Nat /\ bound <= leaderCommit /\ bound <= lastNew
      /\ (leaderCommit = lastNew => bound = lastNew)
  <2>1. leaderCommit \in Int /\ lastNew \in Int
    OBVIOUS
  <2>2. bound = IF leaderCommit <= lastNew THEN leaderCommit ELSE lastNew
    BY <2>1, MinOfTwo
  <2> HIDE DEF bound
  <2> QED BY <2>2
<1> HIDE DEF bound
<1>2. /\ commit \in Nat /\ commit >= e.commit_index
      /\ commit > e.commit_index => commit = bound
      /\ bound >= e.commit_index => commit = bound
  BY <1>0, <1>1, MaxOfTwo
<1> HIDE DEF commit
<1>3. Max({e.last_applied, commit}) = commit
  BY <1>0, <1>2, MaxOfTwo
<1>4. upto = IF commit <= Len(log) THEN commit ELSE Len(log)
  BY <1>0, <1>2, MinOfTwo
<1>5. /\ c.eng = [e EXCEPT !.commit_index = commit, !.last_applied = commit]
      /\ c.apply = SubSeq(log, e.commit_index + 1, upto)
  BY <1>3 DEF AdvanceCommitAndApply, commit, bound
<1> HIDE DEF log, upto
<1>6. /\ c.eng.commit_index = commit /\ c.eng.last_applied = commit
      /\ Log(c.eng) = log
      /\ OnlyCommits(e, c.eng)
  BY <1>5 DEF Engine, Log, log, OnlyCommits
<1>7. CASE commit = e.commit_index
  <2>1. upto < e.commit_index + 1 /\ upto \in Nat
    BY <1>0, <1>2, <1>4, <1>7
  <2>2. Len(c.apply) = 0
    BY <1>0, <1>5, <2>1
  <2> QED BY <1>0, <1>1, <1>2, <1>6, <1>7, <2>2 DEF Handed, log
<1>8. CASE commit # e.commit_index
  <2>1. commit > e.commit_index /\ commit <= Len(log) /\ upto = commit
        /\ commit <= leaderCommit /\ commit <= lastNew
    BY <1>0, <1>1, <1>2, <1>4, <1>8 DEF log
  <2>2. /\ Len(c.apply) = commit - e.commit_index
        /\ \A k \in 1 .. commit - e.commit_index : c.apply[k] = log[e.commit_index + k]
    <3> DEFINE from == e.commit_index + 1
    <3>1. c.apply = SubSeq(log, from, commit) /\ from \in Nat /\ from >= 1 /\ from <= commit
      BY <1>0, <1>2, <1>5, <2>1
    <3> HIDE DEF from
    <3>2. Len(c.apply) = commit - from + 1
      BY <1>0, <1>2, <2>1, <3>1
    <3>3. \A k \in 1 .. commit - from + 1 : c.apply[k] = log[from + k - 1]
      BY <1>0, <1>2, <2>1, <3>1
    <3>4. commit - from + 1 = commit - e.commit_index
      BY <1>0, <1>2 DEF from
    <3>5. ASSUME NEW k \in 1 .. commit - e.commit_index
          PROVE  c.apply[k] = log[e.commit_index + k]
      <4>1. k \in 1 .. commit - from + 1 /\ from + k - 1 = e.commit_index + k
        BY <1>0, <1>2 DEF from
      <4>2. c.apply[k] = log[from + k - 1]
        BY <3>3, <4>1
      <4> QED BY <4>1, <4>2
    <3> QED BY <3>2, <3>4, <3>5
  <2> QED BY <1>0, <1>1, <1>2, <1>6, <2>1, <2>2 DEF Handed, log
<1> QED BY <1>7, <1>8

\* maybe_commit advances to an entry of the current term that the books show
\* on a quorum, or does nothing.
LEMMA MaybeCommitHands ==
    ASSUME NEW e \in Engine, NEW i \in Voters, Contiguous(Log(e)),
           e.last_applied = e.commit_index,
           NEW c, c = MaybeCommit(e, i)
    PROVE  /\ Handed(e, c.eng, c.apply)
           /\ Log(c.eng) = Log(e)
           /\ c.eng.last_applied = c.eng.commit_index
           /\ OnlyCommits(e, c.eng)
           /\ c.eng.commit_index > e.commit_index =>
                 /\ Log(e)[c.eng.commit_index].term = CurrentTerm(e)
                 /\ 1 + Cardinality({p \in OtherVoters(i) :
                           e.match_index[p] >= c.eng.commit_index}) >= Quorum
<1>1. LastIndex(e.storage) = Len(Log(e)) /\ Len(Log(e)) \in Nat /\ e.commit_index \in Nat
  BY EngineFields, LastIndexIsLen DEF Log
<1>2. CASE Committable(e, i) = {}
  <2>1. c.eng = e /\ c.apply = <<>>
    BY <1>2 DEF MaybeCommit
  <2>2. Handed(e, e, <<>>)
    BY NothingHanded DEF SameRecord
  <2>3. OnlyCommits(e, e)
    BY DEF Engine, OnlyCommits
  <2> QED BY <1>1, <2>1, <2>2, <2>3
<1>3. CASE Committable(e, i) # {}
  <2> DEFINE n == Max(Committable(e, i))
  <2>1. /\ Committable(e, i) \in SUBSET Nat
        /\ \A k \in Committable(e, i) : k <= Len(Log(e))
    BY <1>1 DEF Committable
  <2>2. n \in Committable(e, i)
    BY <1>1, <1>3, <2>1, MaxOfBounded
  <2>3. c = AdvanceCommitAndApply(e, n, n)
    BY <1>3 DEF MaybeCommit
  <2> HIDE DEF n
  <2>4. n \in Nat /\ n <= Len(Log(e)) /\ n > e.commit_index
    BY <1>1, <2>1, <2>2 DEF Committable
  <2>5. /\ Handed(e, c.eng, c.apply)
        /\ Log(c.eng) = Log(e)
        /\ c.eng.last_applied = c.eng.commit_index
        /\ OnlyCommits(e, c.eng)
        /\ c.eng.commit_index = n
    <3>1. n <= Len(Log(e)) /\ n \in Nat /\ n >= e.commit_index
      BY <1>1, <2>4
    <3> QED BY <2>3, <3>1, AdvanceCommitHands
  <2>6. /\ Log(e)[n].term = CurrentTerm(e)
        /\ 1 + Cardinality({p \in OtherVoters(i) : e.match_index[p] >= n}) >= Quorum
    BY <2>2 DEF Committable, EntryAt, Log
  <2> QED BY <2>5, <2>6
<1> QED BY <1>2, <1>3

\* send_append_entries_to sends fragments of the log and remembers them.
LEMMA SendOk ==
    ASSUME NEW e \in Engine, NEW i \in Voters, NodeOk(e, i), e.role = Leader,
           NEW peers \in SUBSET OtherVoters(i),
           NEW s, s = SendAppendEntries(e, i, peers)
    PROVE  /\ NodeOk(s.eng, i) /\ SameRecord(e, s.eng)
           /\ s.eng.match_index = e.match_index
           /\ s.eng.ae_inflight = e.ae_inflight \cup {x.to : x \in s.sends}
           /\ \A x \in s.sends : /\ FragmentOf(x.msg, Log(e))
                                 /\ x.msg.leader_commit = e.commit_index
                                 /\ x.to \in peers
                                 /\ s.eng.last_ae[x.to] # None
           /\ \A p \in Voters : e.last_ae[p] # None => s.eng.last_ae[p] # None
<1> DEFINE ready == {p \in peers \ e.ae_inflight : CanBuild(e, p)}
           msg(p) == BuildAppendEntries(e, i, p)
           ae == [p \in Voters |->
                    IF p \in ready THEN [prev |-> msg(p).prev_log_index,
                                         len |-> Len(msg(p).entries)]
                    ELSE e.last_ae[p]]
<1>0. peers \in SUBSET Voters /\ Contiguous(Log(e)) /\ Log(e) \in Seq(LogEntry)
      /\ Len(Log(e)) \in Nat
  BY EngineFields DEF OtherVoters, NodeOk
<1>1. ASSUME NEW p \in ready
      PROVE  /\ msg(p) \in AppendEntries
             /\ FragmentOf(msg(p), Log(e))
             /\ msg(p).prev_log_index = e.next_index[p] - 1
             /\ LastNew(msg(p)) = Len(Log(e))
             /\ msg(p).leader_commit = e.commit_index
  BY <1>0, BuildFacts, BuildFragment
<1>2. ready \subseteq peers /\ ready \subseteq Voters
  BY <1>0
<1>3. /\ s.eng = [e EXCEPT !.last_ae = ae, !.ae_inflight = @ \cup ready]
      /\ s.sends = {[to |-> p, msg |-> msg(p)] : p \in ready}
  BY DEF SendAppendEntries
<1> HIDE DEF ready, msg
<1>4. ASSUME NEW p \in ready
      PROVE  /\ ae[p] = [prev |-> msg(p).prev_log_index, len |-> Len(msg(p).entries)]
             /\ ae[p].prev + ae[p].len = Len(Log(e))
  BY <1>1, <1>2, <1>4 DEF LastNew
<1>5. \A p \in Voters \ ready : ae[p] = e.last_ae[p]
  OBVIOUS
<1> HIDE DEF ae
<1>6. /\ s.eng.role = e.role /\ s.eng.storage = e.storage
      /\ s.eng.commit_index = e.commit_index /\ s.eng.last_applied = e.last_applied
      /\ s.eng.next_index = e.next_index /\ s.eng.match_index = e.match_index
      /\ s.eng.last_ae = ae /\ s.eng.ae_inflight = e.ae_inflight \cup ready
  BY <1>3 DEF Engine
<1>7. Log(s.eng) = Log(e) /\ VotedFor(s.eng) = VotedFor(e)
  BY <1>6 DEF Log, VotedFor
<1>8. ASSUME NEW p \in OtherVoters(i) PROVE BooksFit(s.eng, p)
  <2>1. BooksFit(e, p) /\ p \in Voters
    BY DEF NodeOk, OtherVoters
  <2>2. e.match_index[p] \in Nat /\ e.next_index[p] \in Nat
    BY <2>1, EngineFields
  <2>3. CASE p \in ready
    <3>1. Matched(s.eng, p) = Len(Log(e))
      BY <1>4, <1>6, <2>3 DEF Matched
    <3> QED BY <1>0, <1>6, <1>7, <2>1, <2>2, <3>1 DEF BooksFit
  <2>4. CASE p \notin ready
    BY <1>5, <1>6, <1>7, <2>1, <2>4 DEF BooksFit, Matched
  <2> QED BY <2>3, <2>4
<1>9. NodeOk(s.eng, i) /\ SameRecord(e, s.eng)
  BY <1>6, <1>7, <1>8 DEF NodeOk, SameRecord
<1>10. {x.to : x \in s.sends} = ready
  <2>1. \A p \in ready : [to |-> p, msg |-> msg(p)] \in s.sends /\ [to |-> p, msg |-> msg(p)].to = p
    BY <1>3
  <2>2. \A x \in s.sends : x.to \in ready
    BY <1>3
  <2>3. \A p \in ready : p \in {x.to : x \in s.sends}
    BY <2>1
  <2> QED BY <2>2, <2>3
<1>11. \A p \in ready : ae[p] # None
  <2> SUFFICES ASSUME NEW p \in ready PROVE ae[p] # None
    OBVIOUS
  <2>1. msg(p).prev_log_index \in Nat /\ Len(msg(p).entries) \in Nat
    BY <1>1 DEF AppendEntries
  <2>2. [prev |-> msg(p).prev_log_index, len |-> Len(msg(p).entries)] \in [prev : Nat, len : Nat]
    BY <2>1
  <2>3. ae[p] \in [prev : Nat, len : Nat]
    BY <1>4, <2>2
  <2> QED BY <2>3, NoneIsAbsent
<1>12. ASSUME NEW x \in s.sends
       PROVE  /\ FragmentOf(x.msg, Log(e)) /\ x.msg.leader_commit = e.commit_index
              /\ x.to \in peers /\ s.eng.last_ae[x.to] # None
  <2>1. PICK p \in ready : x = [to |-> p, msg |-> msg(p)]
    BY <1>3
  <2> QED BY <1>1, <1>2, <1>6, <1>11, <2>1
<1>13. \A p \in Voters : e.last_ae[p] # None => s.eng.last_ae[p] # None
  BY <1>5, <1>6, <1>11
<1> QED BY <1>6, <1>9, <1>10, <1>12, <1>13

\* The log has grown by one entry of the given term.
GrownByOne(log, new, term) ==
    /\ Len(new) = Len(log) + 1
    /\ \A k \in 1 .. Len(log) : new[k] = log[k]
    /\ new[Len(log) + 1].term = term

\* propose on a leader: the log grows by one entry and the books still fit.
LEMMA ProposeOk ==
    ASSUME NEW e \in Engine, NEW i \in Voters, NodeOk(e, i), e.role = Leader,
           NEW data \in Data,
           NEW s, s = Propose(e, i, data)
    PROVE  /\ NodeOk(s.eng, i)
           /\ GrownByOne(Log(e), Log(s.eng), CurrentTerm(e))
           /\ s.eng.commit_index = e.commit_index
           /\ s.eng.match_index = e.match_index
           /\ s.eng.ae_inflight = e.ae_inflight \cup {x.to : x \in s.sends}
           /\ \A x \in s.sends : /\ FragmentOf(x.msg, Log(s.eng))
                                 /\ x.msg.leader_commit = e.commit_index
                                 /\ x.to \in OtherVoters(i)
                                 /\ s.eng.last_ae[x.to] # None
           /\ \A p \in Voters : e.last_ae[p] # None => s.eng.last_ae[p] # None
<1> DEFINE f == ProposeEntry(e, data)
<1>0. Contiguous(Log(e)) /\ Log(e) \in Seq(LogEntry) /\ Len(Log(e)) \in Nat
  BY EngineFields DEF NodeOk
<1>1. /\ f \in Engine /\ Contiguous(Log(f))
      /\ GrownByOne(Log(e), Log(f), CurrentTerm(e))
      /\ f = [e EXCEPT !.storage = f.storage]
      /\ f.storage.hard_state = e.storage.hard_state
  BY <1>0, ProposeEntryAppends DEF GrownByOne
<1>2. s = SendAppendEntries(f, i, OtherVoters(i))
  BY DEF Propose
<1> HIDE DEF f
<1>3. /\ f.role = e.role /\ f.commit_index = e.commit_index /\ f.last_applied = e.last_applied
      /\ f.next_index = e.next_index /\ f.match_index = e.match_index
      /\ f.last_ae = e.last_ae /\ f.ae_inflight = e.ae_inflight
  BY <1>1 DEF Engine
<1>4. VotedFor(f) = VotedFor(e) /\ Len(Log(f)) = Len(Log(e)) + 1
  BY <1>1 DEF VotedFor, GrownByOne
<1>5. ASSUME NEW p \in OtherVoters(i) PROVE BooksFit(f, p)
  <2>1. BooksFit(e, p) /\ p \in Voters
    BY DEF NodeOk, OtherVoters
  <2>2. e.match_index[p] \in Nat /\ e.next_index[p] \in Nat
    BY <2>1, EngineFields
  <2>3. Matched(f, p) = Matched(e, p)
    BY <1>3 DEF Matched
  <2> QED BY <1>0, <1>3, <1>4, <2>1, <2>2, <2>3 DEF BooksFit
<1>6. NodeOk(f, i) /\ f.role = Leader
  BY <1>1, <1>3, <1>4, <1>5 DEF NodeOk
<1>7. /\ NodeOk(s.eng, i) /\ SameRecord(f, s.eng)
      /\ s.eng.match_index = f.match_index
      /\ s.eng.ae_inflight = f.ae_inflight \cup {x.to : x \in s.sends}
      /\ \A x \in s.sends : /\ FragmentOf(x.msg, Log(f))
                            /\ x.msg.leader_commit = f.commit_index
                            /\ x.to \in OtherVoters(i)
                            /\ s.eng.last_ae[x.to] # None
      /\ \A p \in Voters : f.last_ae[p] # None => s.eng.last_ae[p] # None
  BY <1>1, <1>2, <1>6, SendOk
<1> QED BY <1>1, <1>3, <1>7 DEF SameRecord

\* A success raises match_index to what last_ae says; the books still fit.
LEMMA CreditSuccessOk ==
    ASSUME NEW e \in Engine, NEW i \in Voters, NodeOk(e, i), e.role = Leader,
           NEW from \in OtherVoters(i), e.last_ae[from] # None,
           NEW f, f = CreditSuccess(e, from)
    PROVE  /\ f \in Engine /\ NodeOk(f, i) /\ SameRecord(e, f) /\ f.role = Leader
           /\ CurrentTerm(f) = CurrentTerm(e)
           /\ f.match_index = [e.match_index EXCEPT ![from] = Matched(e, from)]
           /\ f.ae_inflight = e.ae_inflight \ {from}
           /\ f.last_ae = e.last_ae
<1> DEFINE matched == Matched(e, from)
           mi == [e.match_index EXCEPT ![from] = Max({e.match_index[from], matched})]
           ni == [e.next_index EXCEPT ![from] = matched + 1]
<1>1. /\ from \in Voters /\ e.last_ae[from] \in [prev : Nat, len : Nat]
      /\ BooksFit(e, from)
      /\ e.match_index[from] \in Nat
      /\ Len(Log(e)) \in Nat
  BY EngineFields DEF OtherVoters, Engine, NodeOk
<1>2. matched \in Nat /\ matched >= e.match_index[from] /\ matched <= Len(Log(e))
  <2>1. matched \in Nat
    BY <1>1 DEF Matched
  <2> QED BY <1>1, <2>1 DEF BooksFit
<1>3. f \in Engine /\ SameOffice(e, f)
  BY <1>1, CreditSuccessFacts
<1>4. f = [e EXCEPT !.ae_inflight = @ \ {from}, !.match_index = mi, !.next_index = ni]
  BY DEF CreditSuccess
<1> HIDE DEF matched
<1>5. Max({e.match_index[from], matched}) = matched
  BY <1>1, <1>2, MaxOfTwo
<1>6. mi = [e.match_index EXCEPT ![from] = matched]
  BY <1>5
<1> HIDE DEF mi, ni
<1>7. /\ f.match_index = mi /\ f.next_index = ni /\ f.storage = e.storage
      /\ f.ae_inflight = e.ae_inflight \ {from} /\ f.last_ae = e.last_ae
      /\ f.commit_index = e.commit_index /\ f.last_applied = e.last_applied
      /\ f.role = e.role
  BY <1>4 DEF Engine
<1>8. Log(f) = Log(e) /\ VotedFor(f) = VotedFor(e) /\ CurrentTerm(f) = CurrentTerm(e)
  BY <1>7 DEF Log, VotedFor, CurrentTerm
<1>9. ASSUME NEW p \in OtherVoters(i) PROVE BooksFit(f, p)
  <2>0. p \in Voters /\ BooksFit(e, p) /\ e.next_index \in [Voters -> Nat]
        /\ e.match_index \in [Voters -> Nat] /\ Matched(f, p) = Matched(e, p)
    BY <1>7, EngineFields DEF NodeOk, OtherVoters, Matched
  <2>1. CASE p = from
    <3>1. f.match_index[p] = matched /\ f.next_index[p] = matched + 1 /\ Matched(f, p) = matched
      BY <1>1, <1>6, <1>7, <2>0, <2>1 DEF ni, matched
    <3> QED BY <1>1, <1>2, <1>8, <3>1 DEF BooksFit
  <2>2. CASE p # from
    <3>1. f.match_index[p] = e.match_index[p] /\ f.next_index[p] = e.next_index[p]
      BY <1>1, <1>6, <1>7, <2>0, <2>2 DEF ni
    <3> QED BY <1>7, <1>8, <2>0, <3>1 DEF BooksFit
  <2> QED BY <2>1, <2>2
<1>10. NodeOk(f, i) /\ SameRecord(e, f)
  BY <1>7, <1>8, <1>9 DEF NodeOk, SameRecord
<1> QED BY <1>3, <1>6, <1>7, <1>8, <1>10 DEF matched

\* A reject moves next_index; the books still fit.
LEMMA StepBackOk ==
    ASSUME NEW e \in Engine, NEW i \in Voters, NodeOk(e, i), e.role = Leader,
           NEW from \in OtherVoters(i),
           NEW f, f = StepBack(e, from)
    PROVE  /\ f \in Engine /\ NodeOk(f, i) /\ SameRecord(e, f) /\ f.role = Leader
           /\ CurrentTerm(f) = CurrentTerm(e)
           /\ f.match_index = e.match_index
           /\ f.ae_inflight = e.ae_inflight \ {from}
           /\ f.last_ae = e.last_ae
<1> DEFINE next == Max({e.next_index[from] - 1, e.match_index[from] + 1})
           ni == [e.next_index EXCEPT ![from] = next]
<1>1. /\ from \in Voters /\ BooksFit(e, from)
      /\ e.match_index[from] \in Nat /\ e.next_index[from] \in Nat
      /\ Len(Log(e)) \in Nat
  BY EngineFields DEF OtherVoters, NodeOk
<1>2. next > e.match_index[from] /\ next <= Len(Log(e)) + 1
  <2>1. next = IF e.next_index[from] - 1 >= e.match_index[from] + 1
               THEN e.next_index[from] - 1 ELSE e.match_index[from] + 1
    <3>1. e.next_index[from] - 1 \in Int /\ e.match_index[from] + 1 \in Int
      BY <1>1
    <3> QED BY <3>1, MaxOfTwo, Zenon
  <2> HIDE DEF next
  <2> QED BY <1>1, <2>1 DEF BooksFit
<1>3. f \in Engine
  BY <1>1, StepBackFacts
<1>4. f = [e EXCEPT !.ae_inflight = @ \ {from}, !.next_index = ni]
  BY DEF StepBack
<1> HIDE DEF next, ni
<1>7. /\ f.match_index = e.match_index /\ f.next_index = ni /\ f.storage = e.storage
      /\ f.ae_inflight = e.ae_inflight \ {from} /\ f.last_ae = e.last_ae
      /\ f.commit_index = e.commit_index /\ f.last_applied = e.last_applied
      /\ f.role = e.role
  BY <1>4 DEF Engine
<1>8. Log(f) = Log(e) /\ VotedFor(f) = VotedFor(e) /\ CurrentTerm(f) = CurrentTerm(e)
  BY <1>7 DEF Log, VotedFor, CurrentTerm
<1>9. ASSUME NEW p \in OtherVoters(i) PROVE BooksFit(f, p)
  <2>0. p \in Voters /\ BooksFit(e, p) /\ e.next_index \in [Voters -> Nat]
        /\ Matched(f, p) = Matched(e, p)
    BY <1>7, EngineFields DEF NodeOk, OtherVoters, Matched
  <2>1. CASE p = from
    <3>1. f.next_index[p] = next
      BY <1>7, <2>0, <2>1 DEF ni
    <3> QED BY <1>2, <1>7, <1>8, <2>0, <2>1, <3>1 DEF BooksFit
  <2>2. CASE p # from
    <3>1. f.next_index[p] = e.next_index[p]
      BY <1>7, <2>0, <2>2 DEF ni
    <3> QED BY <1>7, <1>8, <2>0, <3>1 DEF BooksFit
  <2> QED BY <2>1, <2>2
<1> QED BY <1>3, <1>7, <1>8, <1>9 DEF NodeOk, SameRecord

\* Only the set of peers with an AppendEntries under way changes.
OnlyMarks(e, f, S) == f = [e EXCEPT !.ae_inflight = S]

\* A peer that counts as free again disturbs nothing else.
LEMMA FreePeerOk ==
    ASSUME NEW e \in Engine, NEW i \in Voters, NodeOk(e, i), NEW S \in SUBSET Voters,
           S \subseteq e.ae_inflight,
           NEW f, OnlyMarks(e, f, S)
    PROVE  /\ f \in Engine /\ NodeOk(f, i) /\ SameRecord(e, f)
           /\ f.role = e.role /\ f.storage = e.storage
           /\ f.match_index = e.match_index /\ f.last_ae = e.last_ae
           /\ f.ae_inflight = S
<1>1. /\ f \in Engine /\ f.role = e.role /\ f.storage = e.storage
      /\ f.commit_index = e.commit_index /\ f.last_applied = e.last_applied
      /\ f.next_index = e.next_index /\ f.match_index = e.match_index
      /\ f.last_ae = e.last_ae /\ f.ae_inflight = S
  BY DEF Engine, OnlyMarks
<1>2. Log(f) = Log(e) /\ VotedFor(f) = VotedFor(e)
  BY <1>1 DEF Log, VotedFor
<1>3. NoBooks(e) => NoBooks(f)
  BY <1>1 DEF NoBooks
<1>4. \A p \in OtherVoters(i) : BooksFit(e, p) => BooksFit(f, p)
  BY <1>1, <1>2 DEF BooksFit, Matched
<1> QED BY <1>1, <1>2, <1>3, <1>4 DEF NodeOk, SameRecord

\* Advancing the commit index disturbs nothing else.
LEMMA OnlyCommitsOk ==
    ASSUME NEW e \in Engine, NEW i \in Voters, NodeOk(e, i),
           NEW f \in Engine, OnlyCommits(e, f)
    PROVE  /\ NodeOk(f, i) /\ Log(f) = Log(e)
           /\ f.role = e.role /\ f.storage = e.storage
           /\ f.match_index = e.match_index /\ f.last_ae = e.last_ae
           /\ f.ae_inflight = e.ae_inflight
<1> DEFINE n == f.commit_index
<1>0. f = [e EXCEPT !.commit_index = n, !.last_applied = n] /\ n \in Nat
  BY EngineFields DEF OnlyCommits
<1> HIDE DEF n
<1>1. /\ f.role = e.role /\ f.storage = e.storage
      /\ f.commit_index = n /\ f.last_applied = n
      /\ f.next_index = e.next_index /\ f.match_index = e.match_index
      /\ f.last_ae = e.last_ae /\ f.ae_inflight = e.ae_inflight
  BY <1>0 DEF Engine
<1>2. Log(f) = Log(e) /\ VotedFor(f) = VotedFor(e)
  BY <1>1 DEF Log, VotedFor
<1>3. NoBooks(e) => NoBooks(f)
  BY <1>1 DEF NoBooks
<1>4. \A p \in OtherVoters(i) : BooksFit(e, p) => BooksFit(f, p)
  BY <1>1, <1>2 DEF BooksFit, Matched
<1> QED BY <1>1, <1>2, <1>3, <1>4 DEF NodeOk

\* What an answer to an AppendEntries may do to the books and to the mark
\* that one is under way.
BooksAfterResp(e, i, from, m, h) ==
    /\ h.eng.ae_inflight \subseteq e.ae_inflight \cup {x.to : x \in h.sends}
    /\ (m.term >= CurrentTerm(e) /\ e.last_ae[from] # None /\ from \in h.eng.ae_inflight) =>
           \E x \in h.sends : x.to = from
    /\ h.eng.ae_inflight # {} =>
           \A p \in Voters : e.last_ae[p] # None => h.eng.last_ae[p] # None
    /\ h.eng.role = Leader =>
           \/ h.eng.match_index = e.match_index
           \/ /\ m.success /\ m.term = CurrentTerm(e) /\ e.last_ae[from] # None
              /\ h.eng.match_index = [e.match_index EXCEPT ![from] = Matched(e, from)]

\* The commit index advances only on a leader, to an entry of its term that
\* its books show on a quorum.
CommitsByCounting(e, i, f) ==
    f.commit_index > e.commit_index =>
        /\ f.role = Leader
        /\ Log(e)[f.commit_index].term = CurrentTerm(e)
        /\ 1 + Cardinality({p \in OtherVoters(i) : f.match_index[p] >= f.commit_index}) >= Quorum

\* handle_append_entries_resp.
LEMMA HandleAppendEntriesRespOk ==
    ASSUME NEW e \in Engine, NEW i \in Voters, NodeOk(e, i), NEW from \in OtherVoters(i),
           NEW m \in AppendEntriesResp,
           NEW h, h = HandleAppendEntriesResp(e, i, from, m)
    PROVE  /\ NodeOk(h.eng, i) /\ Log(h.eng) = Log(e)
           /\ Handed(e, h.eng, h.apply)
           /\ \A x \in h.sends : /\ FragmentOf(x.msg, Log(e))
                                 /\ x.msg.leader_commit = h.eng.commit_index
                                 /\ x.to = from /\ h.eng.last_ae[from] # None
           /\ BooksAfterResp(e, i, from, m, h)
           /\ CommitsByCounting(e, i, h.eng)
<1> DEFINE quiet(f) == [eng |-> f, sends |-> {}, apply |-> <<>>]
           Ignored == \/ m.term < CurrentTerm(e)
                      \/ m.term = CurrentTerm(e) /\ (e.role # Leader \/ e.last_ae[from] = None)
<1>0. /\ m.term \in Nat /\ CurrentTerm(e) \in Nat /\ e.commit_index \in Nat
      /\ from \in Voters /\ from \in OtherVoters(i)
      /\ Contiguous(Log(e)) /\ e.last_applied = e.commit_index
  BY EngineFields DEF AppendEntriesResp, OtherVoters, NodeOk
<1>1. CASE m.term > CurrentTerm(e)
  <2>1. h = quiet(BecomeFollower(e, m.term, None))
    BY <1>0, <1>1 DEF HandleAppendEntriesResp
  <2>2. h.eng = BecomeFollower(e, m.term, None) /\ h.sends = {} /\ h.apply = <<>>
    BY <2>1
  <2>3. /\ h.eng \in Engine /\ NodeOk(h.eng, i) /\ SameRecord(e, h.eng) /\ NoBooks(h.eng)
        /\ h.eng.role = Follower
    BY <1>0, <1>1, <2>2, BecomeFollowerFacts, BecomeFollowerOk
  <2>4. Handed(e, h.eng, h.apply)
    BY <2>2, <2>3, NothingHanded
  <2>5. BooksAfterResp(e, i, from, m, h) /\ CommitsByCounting(e, i, h.eng)
    BY <1>0, <2>3 DEF BooksAfterResp, CommitsByCounting, NoBooks, SameRecord, Follower, Leader
  <2> QED BY <2>2, <2>3, <2>4, <2>5 DEF SameRecord
<1>2. CASE Ignored
  <2>1. ~(m.term > CurrentTerm(e))
    BY <1>0, <1>2
  <2>2. h = quiet(e)
    BY <1>2, <2>1 DEF HandleAppendEntriesResp
  <2>3. h.eng = e /\ h.sends = {} /\ h.apply = <<>>
    BY <2>2
  <2>4. Handed(e, e, <<>>)
    BY NothingHanded DEF SameRecord
  <2>5. e.role # Leader => e.ae_inflight = {}
    BY DEF NodeOk, NoBooks
  <2>6. BooksAfterResp(e, i, from, m, h) /\ CommitsByCounting(e, i, h.eng)
    BY <1>0, <1>2, <2>3, <2>5 DEF BooksAfterResp, CommitsByCounting
  <2> QED BY <2>3, <2>4, <2>6
<1>3. CASE ~(m.term > CurrentTerm(e)) /\ ~Ignored
  <2>1. h = IF m.success THEN OnSuccess(e, i, from) ELSE OnReject(e, i, from)
    BY <1>3 DEF HandleAppendEntriesResp
  <2>2. e.role = Leader /\ e.last_ae[from] # None /\ m.term = CurrentTerm(e)
    BY <1>0, <1>3
  <2>3. CASE m.success
    <3> DEFINE f == CreditSuccess(e, from)
               c == MaybeCommit(f, i)
               behind == {p \in {from} : c.eng.next_index[p] <= LastIndex(c.eng.storage)}
               s == SendAppendEntries(c.eng, i, behind)
    <3>4. /\ f \in Engine /\ NodeOk(f, i) /\ SameRecord(e, f) /\ f.role = Leader
          /\ CurrentTerm(f) = CurrentTerm(e)
          /\ f.match_index = [e.match_index EXCEPT ![from] = Matched(e, from)]
          /\ f.ae_inflight = e.ae_inflight \ {from}
          /\ f.last_ae = e.last_ae
      BY <2>2, CreditSuccessOk
    <3> HIDE DEF f
    <3>5. /\ c.eng \in Engine
          /\ Handed(f, c.eng, c.apply) /\ OnlyCommits(f, c.eng)
          /\ c.eng.commit_index > f.commit_index =>
                /\ Log(f)[c.eng.commit_index].term = CurrentTerm(f)
                /\ 1 + Cardinality({p \in OtherVoters(i) :
                          f.match_index[p] >= c.eng.commit_index}) >= Quorum
      <4>1. Contiguous(Log(f)) /\ f.last_applied = f.commit_index
        BY <3>4 DEF NodeOk
      <4> QED BY <3>4, <4>1, MaybeCommitFacts, MaybeCommitHands
    <3> HIDE DEF c
    <3>6. /\ NodeOk(c.eng, i) /\ Log(c.eng) = Log(f)
          /\ c.eng.role = f.role /\ c.eng.match_index = f.match_index
          /\ c.eng.last_ae = f.last_ae /\ c.eng.ae_inflight = f.ae_inflight
      BY <3>4, <3>5, OnlyCommitsOk
    <3>7. behind \in SUBSET OtherVoters(i) /\ behind \subseteq {from}
      BY <1>0
    <3> HIDE DEF behind
    <3>8. /\ NodeOk(s.eng, i) /\ SameRecord(c.eng, s.eng)
          /\ s.eng.match_index = c.eng.match_index
          /\ s.eng.ae_inflight = c.eng.ae_inflight \cup {x.to : x \in s.sends}
          /\ \A x \in s.sends : /\ FragmentOf(x.msg, Log(c.eng))
                                /\ x.msg.leader_commit = c.eng.commit_index
                                /\ x.to \in behind
                                /\ s.eng.last_ae[x.to] # None
          /\ \A p \in Voters : c.eng.last_ae[p] # None => s.eng.last_ae[p] # None
      BY <3>4, <3>5, <3>6, <3>7, SendOk
    <3>9. /\ SameOffice(c.eng, s.eng)
      <4>1. behind \in SUBSET Voters
        BY <1>0, <3>7
      <4> QED BY <3>5, <4>1, SendFacts
    <3>10. h.eng = s.eng /\ h.sends = s.sends /\ h.apply = c.apply
      BY <2>1, <2>3 DEF OnSuccess, f, c, behind
    <3> HIDE DEF s
    <3>11. Handed(e, h.eng, h.apply)
      <4>1. /\ f.commit_index = e.commit_index /\ s.eng.commit_index = c.eng.commit_index
            /\ Log(s.eng) = Log(c.eng)
        BY <3>4, <3>8 DEF SameRecord
      <4> QED BY <3>5, <3>10, <4>1 DEF Handed
    <3>12. CommitsByCounting(e, i, h.eng)
      <4>1. /\ h.eng.commit_index = c.eng.commit_index /\ h.eng.match_index = f.match_index
            /\ f.commit_index = e.commit_index /\ Log(f) = Log(e) /\ h.eng.role = Leader
        BY <3>4, <3>6, <3>8, <3>9, <3>10 DEF SameRecord, SameOffice
      <4> QED BY <3>4, <3>5, <4>1 DEF CommitsByCounting
    <3>13. BooksAfterResp(e, i, from, m, h)
      <4>1. h.eng.ae_inflight = (e.ae_inflight \ {from}) \cup {x.to : x \in h.sends}
        BY <3>4, <3>6, <3>8, <3>10
      <4>2. \A p \in Voters : e.last_ae[p] # None => h.eng.last_ae[p] # None
        BY <3>4, <3>6, <3>8, <3>10
      <4>3. h.eng.match_index = [e.match_index EXCEPT ![from] = Matched(e, from)]
        BY <3>4, <3>6, <3>8, <3>10
      <4> QED BY <2>2, <2>3, <4>1, <4>2, <4>3 DEF BooksAfterResp
    <3>14. Log(h.eng) = Log(e) /\ h.eng.commit_index = c.eng.commit_index /\ Log(c.eng) = Log(e)
      BY <3>4, <3>6, <3>8, <3>10 DEF SameRecord
    <3> QED BY <3>7, <3>8, <3>10, <3>11, <3>12, <3>13, <3>14
  <2>4. CASE ~m.success
    <3>1. h = OnReject(e, i, from)
      BY <2>1, <2>4
    <3>2. CASE RejectIsStale(e, from)
      <4> DEFINE S == e.ae_inflight \ {from}
      <4>1. OnlyMarks(e, h.eng, S) /\ h.sends = {} /\ h.apply = <<>>
        BY <3>1, <3>2 DEF OnReject, OnlyMarks
      <4>2. S \in SUBSET Voters /\ S \subseteq e.ae_inflight /\ from \notin S
        BY DEF Engine
      <4> HIDE DEF S
      <4>3. /\ h.eng \in Engine /\ NodeOk(h.eng, i) /\ SameRecord(e, h.eng)
            /\ h.eng.match_index = e.match_index
            /\ h.eng.last_ae = e.last_ae /\ h.eng.ae_inflight = S
        BY <4>1, <4>2, FreePeerOk
      <4>4. Handed(e, h.eng, h.apply)
        BY <4>1, <4>3, NothingHanded
      <4>5. BooksAfterResp(e, i, from, m, h) /\ CommitsByCounting(e, i, h.eng)
        BY <1>0, <4>2, <4>3 DEF BooksAfterResp, CommitsByCounting, SameRecord
      <4> QED BY <4>1, <4>3, <4>4, <4>5 DEF SameRecord
    <3>3. CASE ~RejectIsStale(e, from)
      <4> DEFINE f == StepBack(e, from)
                 one == {from}
                 s == SendAppendEntries(f, i, one)
      <4>3. /\ f \in Engine /\ NodeOk(f, i) /\ SameRecord(e, f) /\ f.role = Leader
            /\ f.match_index = e.match_index
            /\ f.ae_inflight = e.ae_inflight \ {from}
            /\ f.last_ae = e.last_ae
        BY <1>0, <2>2, StepBackOk
      <4>4. h.eng = s.eng /\ h.sends = s.sends /\ h.apply = <<>>
        BY <3>1, <3>3 DEF OnReject
      <4>0. one \in SUBSET OtherVoters(i) /\ one \in SUBSET Voters /\ one \subseteq {from}
        BY <1>0
      <4> HIDE DEF f, one
      <4>5. /\ NodeOk(s.eng, i) /\ SameRecord(f, s.eng)
            /\ s.eng.match_index = f.match_index
            /\ s.eng.ae_inflight = f.ae_inflight \cup {x.to : x \in s.sends}
            /\ \A x \in s.sends : /\ FragmentOf(x.msg, Log(f))
                                  /\ x.msg.leader_commit = f.commit_index
                                  /\ x.to \in one
                                  /\ s.eng.last_ae[x.to] # None
            /\ \A p \in Voters : f.last_ae[p] # None => s.eng.last_ae[p] # None
        BY <4>0, <4>3, SendOk
      <4>6. s.eng \in Engine
        BY <4>0, <4>3, SendFacts
      <4> HIDE DEF s
      <4>7. SameRecord(e, h.eng)
        BY <4>3, <4>4, <4>5 DEF SameRecord
      <4>8. Handed(e, h.eng, h.apply)
        BY <4>4, <4>6, <4>7, NothingHanded
      <4>9. h.eng.ae_inflight = (e.ae_inflight \ {from}) \cup {x.to : x \in h.sends}
        BY <4>3, <4>4, <4>5
      <4>10. BooksAfterResp(e, i, from, m, h)
        BY <4>0, <4>3, <4>4, <4>5, <4>9 DEF BooksAfterResp
      <4>11. CommitsByCounting(e, i, h.eng)
        BY <1>0, <4>7 DEF CommitsByCounting, SameRecord
      <4>12. f.commit_index = h.eng.commit_index /\ Log(f) = Log(e)
        BY <4>3, <4>7 DEF SameRecord
      <4> QED BY <4>0, <4>4, <4>5, <4>7, <4>8, <4>10, <4>11, <4>12 DEF SameRecord
    <3> QED BY <3>2, <3>3
  <2> QED BY <2>3, <2>4
<1> QED BY <1>0, <1>1, <1>2, <1>3

\* How handle_append_entries changes a log when it answers with success.
Accepted(log, m, new) ==
    /\ m.prev_log_index <= Len(log)
    /\ m.prev_log_index # 0 => log[m.prev_log_index].term = m.prev_log_term
    /\ \/ new = log /\ SameTerms(log, m, Len(m.entries))
       \/ \E n \in 1 .. Len(m.entries) : SameTerms(log, m, n - 1) /\ Spliced(log, m, new, n)

\* After a success the log reaches at least as far as the message.
LEMMA AcceptedReaches ==
    ASSUME NEW log \in Seq(LogEntry), NEW m \in AppendEntries, NEW new \in Seq(LogEntry),
           Accepted(log, m, new)
    PROVE  LastNew(m) <= Len(new)
<1>1. m.entries \in Seq(LogEntry) /\ m.prev_log_index \in Nat /\ Len(m.entries) \in Nat
  BY DEF AppendEntries
<1>2. CASE new = log /\ SameTerms(log, m, Len(m.entries))
  <2>1. CASE Len(m.entries) = 0
    BY <1>1, <1>2, <2>1 DEF Accepted, LastNew
  <2>2. CASE Len(m.entries) # 0
    <3>1. Len(m.entries) \in 1 .. Len(m.entries)
      BY <1>1, <2>2
    <3> QED BY <1>2, <3>1 DEF SameTerms, LastNew
  <2> QED BY <2>1, <2>2
<1>3. ASSUME NEW n, Spliced(log, m, new, n) PROVE LastNew(m) <= Len(new)
  <2>1. Len(new) = LastNew(m) /\ Len(new) \in Nat
    BY <1>3 DEF Spliced
  <2> QED BY <2>1
<1> QED BY <1>2, <1>3 DEF Accepted

\* handle_append_entries: a refused message changes no log; an accepted one
\* splices its entries in, commits no further than the message reaches, and
\* is acknowledged in its own term.
LEMMA HandleAppendEntriesOk ==
    ASSUME NEW e \in Engine, NEW i \in Voters, NodeOk(e, i),
           NEW m \in AppendEntries, Consecutive(m),
           NEW h, h = HandleAppendEntries(e, m)
    PROVE  /\ NodeOk(h.eng, i)
           /\ Handed(e, h.eng, h.apply)
           /\ h.reply.term = CurrentTerm(h.eng) /\ CurrentTerm(h.eng) >= m.term
           /\ h.eng.ae_inflight # {} => h.eng = e
           /\ ~h.reply.success => SameRecord(e, h.eng)
           /\ h.reply.success =>
                /\ CurrentTerm(h.eng) = m.term /\ m.term >= CurrentTerm(e)
                /\ h.eng.role = Follower
                /\ Accepted(Log(e), m, Log(h.eng))
                /\ h.eng.commit_index > e.commit_index =>
                      /\ h.eng.commit_index <= m.leader_commit
                      /\ h.eng.commit_index <= LastNew(m)
<1> DEFINE f == FollowLeader(e, m)
           g == [f EXCEPT !.storage = AppendEntriesTo(f.storage, m)]
           c == AdvanceCommitAndApply(g, m.leader_commit, LastNew(m))
<1>0. /\ m.term \in Nat /\ m.leader_id \in Voters /\ m.leader_commit \in Nat
      /\ m.prev_log_index \in Nat /\ m.entries \in Seq(LogEntry)
      /\ CurrentTerm(e) \in Nat /\ e.commit_index \in Nat
  BY EngineFields DEF AppendEntries
<1>1. CASE m.term < CurrentTerm(e)
  <2>1. ~(m.term >= CurrentTerm(e))
    BY <1>0, <1>1
  <2>2. h = [eng |-> e, reply |-> AppendReply(e, FALSE, LastIndex(e.storage)), apply |-> <<>>]
    BY <1>1, <2>1 DEF HandleAppendEntries
  <2>3. /\ h.eng = e /\ h.apply = <<>> /\ h.reply.success = FALSE
        /\ h.reply.term = CurrentTerm(e)
    BY <2>2 DEF AppendReply
  <2>4. SameRecord(e, e) /\ Handed(e, e, <<>>)
    BY NothingHanded DEF SameRecord
  <2> QED BY <1>0, <1>1, <2>3, <2>4
<1>2. CASE m.term >= CurrentTerm(e)
  <2>0. ~(m.term < CurrentTerm(e))
    BY <1>0, <1>2
  <2>1. /\ f \in Engine /\ NodeOk(f, i) /\ SameRecord(e, f) /\ NoBooks(f)
        /\ f.role = Follower /\ CurrentTerm(f) = m.term
    <3>1. CASE m.term > CurrentTerm(e) \/ e.role # Follower
      <4>1. f = BecomeFollower(e, m.term, m.leader_id)
        BY <3>1 DEF FollowLeader
      <4> HIDE DEF f
      <4> QED BY <1>0, <1>2, <4>1, BecomeFollowerFacts, BecomeFollowerOk
    <3>2. CASE ~(m.term > CurrentTerm(e) \/ e.role # Follower)
      <4>1. f = [e EXCEPT !.leader = m.leader_id] /\ e.role = Follower
        BY <3>2 DEF FollowLeader
      <4>2. /\ f \in Engine /\ f.role = Follower /\ f.storage = e.storage
            /\ f.commit_index = e.commit_index /\ f.last_applied = e.last_applied
            /\ NoBooks(e) => NoBooks(f)
        BY <1>0, <4>1 DEF Engine, NoBooks
      <4> HIDE DEF f
      <4>3. NoBooks(e) /\ Follower # Leader
        BY <4>1 DEF NodeOk, Follower, Leader
      <4> QED BY <1>0, <1>2, <3>2, <4>2, <4>3 DEF NodeOk, SameRecord, CurrentTerm, Log
    <3> QED BY <3>1, <3>2
  <2> HIDE DEF f
  <2>2. CASE ~PrevOk(f.storage, m)
    <3>1. h = [eng |-> f, reply |-> AppendReply(f, FALSE, LastIndex(f.storage)), apply |-> <<>>]
      BY <1>2, <2>0, <2>2 DEF HandleAppendEntries, f
    <3>2. /\ h.eng = f /\ h.apply = <<>> /\ h.reply.success = FALSE
          /\ h.reply.term = m.term
      BY <2>1, <3>1 DEF AppendReply
    <3>3. Handed(e, h.eng, h.apply)
      BY <2>1, <3>2, NothingHanded
    <3> QED BY <1>0, <2>1, <3>2, <3>3 DEF NoBooks
  <2>3. CASE PrevOk(f.storage, m)
    <3>1. h = [eng |-> c.eng, reply |-> AppendReply(c.eng, TRUE, LastNew(m)), apply |-> c.apply]
      BY <1>2, <2>0, <2>3 DEF HandleAppendEntries, f
    <3> DEFINE new == AppendEntriesTo(f.storage, m).entries
    <3>2. /\ AppendEntriesTo(f.storage, m) \in Storage
          /\ AppendEntriesTo(f.storage, m).hard_state = f.storage.hard_state
      BY <2>1, EngineFields, AppendFacts
    <3>3. /\ g \in Engine /\ g.role = f.role /\ g.storage = AppendEntriesTo(f.storage, m)
          /\ g.commit_index = f.commit_index /\ g.last_applied = f.last_applied
          /\ NoBooks(g)
      BY <2>1, <3>2 DEF Engine, NoBooks
    <3> HIDE DEF g
    <3>4. Log(g) = new /\ CurrentTerm(g) = m.term
      BY <2>1, <3>2, <3>3 DEF Log, CurrentTerm
    <3>5. f.storage \in Storage /\ f.storage.entries = Log(e) /\ Log(e) \in Seq(LogEntry)
          /\ Contiguous(f.storage.entries)
      BY <2>1, EngineFields DEF SameRecord, Log, NodeOk
    <3> DEFINE st == f.storage
    <3>6. /\ new \in Seq(LogEntry) /\ Contiguous(new)
          /\ m.prev_log_index <= Len(st.entries)
          /\ \/ new = st.entries /\ SameTerms(new, m, Len(m.entries))
             \/ \E n \in 1 .. Len(m.entries) :
                    SameTerms(st.entries, m, n - 1) /\ Spliced(st.entries, m, new, n)
      <4>1. st \in Storage /\ PrevOk(st, m) /\ Contiguous(st.entries)
            /\ new = AppendEntriesTo(st, m).entries
        BY <2>3, <3>5
      <4> HIDE DEF st, new
      <4> QED BY <4>1, AppendSplices
    <3> HIDE DEF new
    <3>7. m.prev_log_index # 0 => Log(e)[m.prev_log_index].term = m.prev_log_term
      BY <2>3, <3>5 DEF PrevOk, EntryAt
    <3>8. Accepted(Log(e), m, Log(g))
      BY <3>4, <3>5, <3>6, <3>7 DEF Accepted
    <3>9. LastNew(m) <= Len(Log(g)) /\ LastNew(m) \in Nat
      BY <1>0, <3>4, <3>5, <3>6, <3>8, AcceptedReaches DEF LastNew
    <3>10. NodeOk(g, i) /\ g.last_applied = g.commit_index
      <4>1. Follower # Leader
        BY DEF Follower, Leader
      <4> QED BY <2>1, <3>3, <3>4, <3>6, <4>1 DEF NodeOk
    <3>11. /\ c.eng \in Engine /\ SameOffice(g, c.eng)
      BY <1>0, <3>3, <3>9, AdvanceCommitFacts
    <3>12. /\ Handed(g, c.eng, c.apply) /\ OnlyCommits(g, c.eng)
           /\ c.eng.commit_index > g.commit_index =>
                 c.eng.commit_index <= m.leader_commit /\ c.eng.commit_index <= LastNew(m)
      BY <1>0, <3>3, <3>9, <3>10, AdvanceCommitHands
    <3> HIDE DEF c
    <3>13. /\ NodeOk(c.eng, i) /\ Log(c.eng) = Log(g) /\ c.eng.role = g.role
           /\ c.eng.ae_inflight = g.ae_inflight
      BY <3>3, <3>10, <3>11, <3>12, OnlyCommitsOk
    <3>14. CurrentTerm(c.eng) = m.term
      BY <3>4, <3>11 DEF SameOffice, CurrentTerm
    <3>15. /\ h.eng = c.eng /\ h.apply = c.apply /\ h.reply.success = TRUE
           /\ h.reply.term = m.term
      BY <3>1, <3>14 DEF AppendReply
    <3>16. g.commit_index = e.commit_index /\ c.eng.role = Follower
           /\ c.eng.ae_inflight = {}
      BY <2>1, <3>3, <3>13 DEF SameRecord, NoBooks
    <3>17. Handed(e, h.eng, h.apply)
      BY <3>12, <3>15, <3>16 DEF Handed
    <3> QED BY <1>0, <1>2, <3>8, <3>12, <3>13, <3>14, <3>15, <3>16, <3>17
  <2> QED BY <2>2, <2>3
<1> QED BY <1>0, <1>1, <1>2
=============================================================================
