------------------------------ MODULE LogProofs ------------------------------
(***************************************************************************)
(* Theorems about the logs of RaftCluster, for every number of voters and  *)
(* every bound: logs match, acknowledged entries are stored, the books of  *)
(* a leader are true, and what is committed stays and is the same on every *)
(* node.  The last ones hold for as long as no success was credited to     *)
(* another AppendEntries than the one it answers (mixup), which the final  *)
(* part shows for orderly offices.                                         *)
(*                                                                         *)
(* The state does not remember the logs of earlier leaders or what nodes   *)
(* acknowledged in earlier terms, on which the argument rests.  So the     *)
(* invariant says that there are such logs h and tallies a that explain    *)
(* the state, and the proof brings both up to date with every step.        *)
(***************************************************************************)
EXTENDS ClusterProofs, OrderlyCluster

-----------------------------------------------------------------------------
(***************************************************************************)
(* Logs that agree.                                                        *)
(***************************************************************************)

\* Both logs reach to n and are the same up to it.
Holds(s, t, n) == n <= Len(s) /\ n <= Len(t) /\ AgreeUpTo(s, t, n)

\* A log agrees with itself.
LEMMA HoldsItself ==
    ASSUME NEW s \in Seq(LogEntry), NEW n \in Nat, n <= Len(s)
    PROVE  Holds(s, s, n)
BY DEF Holds, AgreeUpTo

\* Agreement goes both ways.
LEMMA HoldsBack ==
    ASSUME NEW s, NEW t, NEW n, Holds(s, t, n)
    PROVE  Holds(t, s, n)
BY DEF Holds, AgreeUpTo

\* Two logs that agree with a third agree with each other.
LEMMA HoldsTrans ==
    ASSUME NEW s \in Seq(LogEntry), NEW t \in Seq(LogEntry), NEW u \in Seq(LogEntry),
           NEW m \in Nat, NEW n \in Nat, NEW k \in Nat, k <= m, k <= n,
           Holds(s, t, m), Holds(t, u, n)
    PROVE  Holds(s, u, k)
<1>1. k <= Len(s) /\ k <= Len(u)
  BY DEF Holds
<1>2. \A j \in 1 .. k : s[j] = t[j] /\ t[j] = u[j]
  BY DEF Holds, AgreeUpTo
<1> QED BY <1>1, <1>2 DEF Holds, AgreeUpTo

\* Logs that agree up to n agree up to anything less.
LEMMA HoldsLess ==
    ASSUME NEW s \in Seq(LogEntry), NEW t \in Seq(LogEntry),
           NEW n \in Nat, NEW k \in Nat, k <= n, Holds(s, t, n)
    PROVE  Holds(s, t, k)
<1>1. k <= Len(s) /\ k <= Len(t)
  BY DEF Holds
<1>2. \A j \in 1 .. k : s[j] = t[j]
  BY DEF Holds, AgreeUpTo
<1> QED BY <1>1, <1>2 DEF Holds, AgreeUpTo

\* Logs that agree up to n have the same entries there.
LEMMA HoldsAt ==
    ASSUME NEW s, NEW t, NEW n \in Nat, NEW k \in 1 .. n, Holds(s, t, n)
    PROVE  s[k] = t[k]
BY DEF Holds, AgreeUpTo

\* A log that has grown by one entry holds what it held.
LEMMA GrownHolds ==
    ASSUME NEW s \in Seq(LogEntry), NEW t \in Seq(LogEntry), NEW term,
           GrownByOne(s, t, term)
    PROVE  Holds(t, s, Len(s))
BY DEF GrownByOne, Holds, AgreeUpTo

-----------------------------------------------------------------------------
(***************************************************************************)
(* The log of every entry's leader.  h[T] is the log that the leader of    *)
(* term T has, or had when it was last leader.                             *)
(***************************************************************************)

Histories == [Nat -> Seq(LogEntry)]

\* Up to each of its entries, the log is the one of the entry's leader.
Follows(log, h) == \A n \in 1 .. Len(log) : Holds(log, h[log[n].term], n)

\* No entry is of a term later than T.
TermsUpTo(log, T) == \A n \in 1 .. Len(log) : log[n].term <= T

\* The log of every leader is a prefix of what it is now.
Grows(h, g) == \A T \in Nat : Holds(g[T], h[T], Len(h[T]))

\* The entries of a log have terms.
LEMMA EntryTerm ==
    ASSUME NEW log \in Seq(LogEntry), NEW n \in 1 .. Len(log)
    PROVE  log[n] \in LogEntry /\ log[n].term \in Nat
<1>1. log[n] \in LogEntry
  OBVIOUS
<1> QED BY <1>1 DEF LogEntry

\* A log that has grown is no shorter and has the same entries.
LEMMA GrowsLen ==
    ASSUME NEW h \in Histories, NEW g \in Histories, Grows(h, g), NEW T \in Nat
    PROVE  Len(h[T]) \in Nat /\ Len(g[T]) \in Nat /\ Len(h[T]) <= Len(g[T])
           /\ \A n \in 1 .. Len(h[T]) : g[T][n] = h[T][n]
<1>1. h[T] \in Seq(LogEntry) /\ g[T] \in Seq(LogEntry)
  BY DEF Histories
<1>2. Holds(g[T], h[T], Len(h[T]))
  BY DEF Grows
<1> QED BY <1>1, <1>2 DEF Holds, AgreeUpTo

\* What agrees with the log of a leader still agrees with it when it grows.
LEMMA HoldsGrows ==
    ASSUME NEW h \in Histories, NEW g \in Histories, Grows(h, g), NEW T \in Nat,
           NEW s \in Seq(LogEntry), NEW n \in Nat, Holds(s, h[T], n)
    PROVE  Holds(s, g[T], n)
<1>1. h[T] \in Seq(LogEntry) /\ g[T] \in Seq(LogEntry) /\ Len(h[T]) \in Nat
  BY DEF Histories
<1>2. Holds(h[T], g[T], Len(h[T]))
  BY HoldsBack DEF Grows
<1>3. n <= Len(h[T])
  BY DEF Holds
<1> QED BY <1>1, <1>2, <1>3, HoldsTrans

\* A log still follows when the histories have grown.
LEMMA FollowsGrows ==
    ASSUME NEW h \in Histories, NEW g \in Histories, Grows(h, g),
           NEW s \in Seq(LogEntry), Follows(s, h)
    PROVE  Follows(s, g)
<1> SUFFICES ASSUME NEW n \in 1 .. Len(s) PROVE Holds(s, g[s[n].term], n)
  BY DEF Follows
<1>1. s[n].term \in Nat /\ n \in Nat
  BY EntryTerm
<1>2. Holds(s, h[s[n].term], n)
  BY DEF Follows
<1> QED BY <1>1, <1>2, HoldsGrows

\* Two such logs with entries of one term at one index are one log up to it.
LEMMA FollowersAgree ==
    ASSUME NEW h \in Histories, NEW s \in Seq(LogEntry), NEW t \in Seq(LogEntry),
           Follows(s, h), Follows(t, h),
           NEW n \in 1 .. Len(s), n <= Len(t), s[n].term = t[n].term
    PROVE  Holds(s, t, n)
<1>1. n \in Nat /\ n \in 1 .. Len(t) /\ s[n].term \in Nat
  BY EntryTerm
<1> DEFINE u == h[s[n].term]
<1>2. u \in Seq(LogEntry)
  BY <1>1 DEF Histories
<1>3. Holds(s, u, n) /\ Holds(t, u, n)
  BY <1>1 DEF Follows
<1> HIDE DEF u
<1>4. Holds(u, t, n)
  BY <1>3, HoldsBack
<1> QED BY <1>1, <1>2, <1>3, <1>4, HoldsTrans

\* The beginning of such a log is such a log.
LEMMA PrefixFollows ==
    ASSUME NEW h \in Histories, NEW s \in Seq(LogEntry), NEW t \in Seq(LogEntry),
           Follows(t, h), Holds(s, t, Len(s))
    PROVE  Follows(s, h)
<1> SUFFICES ASSUME NEW n \in 1 .. Len(s) PROVE Holds(s, h[s[n].term], n)
  BY DEF Follows
<1>1. Len(s) \in Nat /\ n \in Nat /\ n <= Len(s) /\ n \in 1 .. Len(t)
  BY DEF Holds
<1>2. s[n] = t[n]
  BY <1>1, HoldsAt
<1> DEFINE u == h[t[n].term]
<1>3. u \in Seq(LogEntry) /\ Holds(t, u, n)
  BY <1>1, EntryTerm DEF Histories, Follows
<1> HIDE DEF u
<1>4. Holds(s, u, n)
  BY <1>1, <1>3, HoldsTrans
<1> QED BY <1>2, <1>4 DEF u

\* handle_append_entries compares terms only; that is enough.  A log with the
\* terms of the first n entries of the message is the leader's up to them.
LEMMA SameTermsHold ==
    ASSUME NEW h \in Histories, NEW log \in Seq(LogEntry), NEW led \in Seq(LogEntry),
           NEW m \in AppendEntries, Follows(log, h), Follows(led, h), FragmentOf(m, led),
           m.prev_log_index <= Len(log),
           m.prev_log_index # 0 => log[m.prev_log_index].term = m.prev_log_term,
           NEW n \in 0 .. Len(m.entries), SameTerms(log, m, n)
    PROVE  Holds(log, led, m.prev_log_index + n)
<1> DEFINE q == m.prev_log_index + n
<1>1. /\ m.entries \in Seq(LogEntry) /\ m.prev_log_index \in Nat /\ Len(m.entries) \in Nat
      /\ Len(log) \in Nat /\ Len(led) \in Nat /\ q \in Nat /\ n \in Nat
  BY DEF AppendEntries
<1>2. LastNew(m) <= Len(led) /\ LastNew(m) = m.prev_log_index + Len(m.entries)
  BY DEF FragmentOf, LastNew
<1>3. q <= Len(led)
  BY <1>1, <1>2
<1>4. CASE q = 0
  BY <1>1, <1>4 DEF Holds, AgreeUpTo
<1>5. CASE q # 0 /\ n = 0
  <2>1. q = m.prev_log_index /\ q \in 1 .. Len(log)
    BY <1>1, <1>5
  <2>2. log[q].term = led[q].term
    BY <1>1, <1>5, <2>1 DEF FragmentOf
  <2> QED BY <1>3, <2>1, <2>2, FollowersAgree
<1>6. CASE q # 0 /\ n # 0
  <2>1. n \in 1 .. n /\ n \in 1 .. Len(m.entries)
    BY <1>1, <1>6
  <2>2. q <= Len(log) /\ log[q].term = m.entries[n].term /\ m.entries[n] = led[q]
    BY <2>1 DEF SameTerms, FragmentOf
  <2>3. q \in 1 .. Len(log) /\ log[q].term = led[q].term
    BY <1>1, <1>6, <2>2
  <2> QED BY <1>3, <2>3, FollowersAgree
<1> QED BY <1>4, <1>5, <1>6

\* An accepted AppendEntries leaves the follower with the leader's log up to
\* the last entry of the message, and with a log that follows the leaders.
LEMMA AcceptedFollows ==
    ASSUME NEW h \in Histories, NEW log \in Seq(LogEntry), NEW led \in Seq(LogEntry),
           NEW new \in Seq(LogEntry), NEW m \in AppendEntries,
           Follows(log, h), Follows(led, h), FragmentOf(m, led), Accepted(log, m, new)
    PROVE  /\ Holds(new, led, LastNew(m))
           /\ Follows(new, h)
           /\ new = log \/ Len(new) = LastNew(m)
<1>1. /\ m.entries \in Seq(LogEntry) /\ m.prev_log_index \in Nat /\ Len(m.entries) \in Nat
      /\ LastNew(m) = m.prev_log_index + Len(m.entries) /\ LastNew(m) \in Nat
  BY DEF AppendEntries, LastNew
<1>2. CASE new = log /\ SameTerms(log, m, Len(m.entries))
  <2>1. Len(m.entries) \in 0 .. Len(m.entries)
    BY <1>1
  <2>2. Holds(log, led, m.prev_log_index + Len(m.entries))
    BY <1>2, <2>1, SameTermsHold DEF Accepted
  <2> QED BY <1>1, <1>2, <2>2
<1>3. ASSUME NEW n \in 1 .. Len(m.entries), SameTerms(log, m, n - 1), Spliced(log, m, new, n)
      PROVE  Holds(new, led, LastNew(m)) /\ Len(new) = LastNew(m)
  <2>1. n - 1 \in 0 .. Len(m.entries) /\ m.prev_log_index + (n - 1) = m.prev_log_index + n - 1
    BY <1>1
  <2>2. Holds(log, led, m.prev_log_index + (n - 1))
    BY <1>3, <2>1, SameTermsHold DEF Accepted
  <2>3. ASSUME NEW k \in 1 .. LastNew(m) PROVE new[k] = led[k]
    <3>1. CASE k <= m.prev_log_index + n - 1
      <4>1. k \in 1 .. m.prev_log_index + n - 1 /\ k \in 1 .. m.prev_log_index + (n - 1)
        BY <1>1, <3>1
      <4>2. new[k] = log[k]
        BY <1>3, <4>1 DEF Spliced
      <4>3. log[k] = led[k]
        BY <2>2, <4>1 DEF Holds, AgreeUpTo
      <4> QED BY <4>2, <4>3
    <3>2. CASE k > m.prev_log_index + n - 1
      <4> DEFINE j == k - m.prev_log_index
      <4>1. j \in n .. Len(m.entries) /\ j \in 1 .. Len(m.entries) /\ m.prev_log_index + j = k
        BY <1>1, <3>2, SMTT(30)
      <4>2. new[m.prev_log_index + j] = m.entries[j]
        BY <1>3, <4>1 DEF Spliced
      <4>3. m.entries[j] = led[m.prev_log_index + j]
        BY <4>1 DEF FragmentOf
      <4> QED BY <4>1, <4>2, <4>3
    <3> QED BY <1>1, <3>1, <3>2
  <2>4. Len(new) = LastNew(m) /\ LastNew(m) <= Len(led)
    BY <1>3 DEF Spliced, FragmentOf
  <2> QED BY <1>1, <2>3, <2>4 DEF Holds, AgreeUpTo
<1>4. ASSUME NEW n \in 1 .. Len(m.entries), SameTerms(log, m, n - 1), Spliced(log, m, new, n)
      PROVE  Follows(new, h)
  BY <1>3, <1>4, PrefixFollows
<1> QED BY <1>2, <1>3, <1>4 DEF Accepted

\* It removes nothing that the follower has in common with the leader.
LEMMA AcceptedKeeps ==
    ASSUME NEW log \in Seq(LogEntry), NEW led \in Seq(LogEntry),
           NEW new \in Seq(LogEntry), NEW m \in AppendEntries,
           FragmentOf(m, led), Accepted(log, m, new),
           NEW n \in Nat, Holds(log, led, n)
    PROVE  Holds(new, led, n)
<1>1. /\ m.entries \in Seq(LogEntry) /\ m.prev_log_index \in Nat /\ Len(m.entries) \in Nat
      /\ LastNew(m) = m.prev_log_index + Len(m.entries)
      /\ Len(log) \in Nat /\ Len(new) \in Nat /\ Len(led) \in Nat
  BY DEF AppendEntries, LastNew
<1>2. ASSUME NEW k \in 1 .. Len(m.entries), Spliced(log, m, new, k)
      PROVE  Holds(new, led, n)
  <2> DEFINE p == m.prev_log_index + k
  <2>1. n < p
    <3>1. CASE p > Len(log)
      BY <1>1, <3>1 DEF Holds
    <3>2. CASE p <= Len(log)
      <4>1. log[p].term # led[p].term
        BY <1>1, <1>2, <3>2, SMTT(30) DEF Spliced, FragmentOf
      <4>2. p \in Nat /\ p >= 1
        BY <1>1
      <4>3. CASE n >= p
        BY <4>1, <4>2, <4>3 DEF Holds, AgreeUpTo
      <4> QED BY <4>2, <4>3
    <3> QED BY <1>1, <3>1, <3>2
  <2>2. ASSUME NEW j \in 1 .. n PROVE new[j] = log[j]
    <3>1. j \in 1 .. m.prev_log_index + k - 1
      BY <1>1, <2>1
    <3> QED BY <1>2, <3>1 DEF Spliced
  <2>3. n <= Len(new)
    BY <1>1, <1>2, <2>1 DEF Spliced
  <2> QED BY <2>2, <2>3 DEF Holds, AgreeUpTo
<1> QED BY <1>2 DEF Accepted

\* A message that is a fragment of a log is one of the log as it grows.
LEMMA FragmentGrows ==
    ASSUME NEW m \in AppendEntries, NEW s \in Seq(LogEntry), NEW t \in Seq(LogEntry),
           FragmentOf(m, s), Holds(t, s, Len(s))
    PROVE  FragmentOf(m, t)
<1>1. /\ m.entries \in Seq(LogEntry) /\ m.prev_log_index \in Nat /\ Len(m.entries) \in Nat
      /\ LastNew(m) = m.prev_log_index + Len(m.entries) /\ LastNew(m) <= Len(s)
      /\ Len(s) \in Nat /\ Len(t) \in Nat /\ Len(s) <= Len(t)
  BY DEF AppendEntries, LastNew, FragmentOf, Holds
<1>2. \A k \in 1 .. Len(s) : t[k] = s[k]
  BY DEF Holds, AgreeUpTo
<1>3. ASSUME NEW n \in 1 .. Len(m.entries) PROVE m.entries[n] = t[m.prev_log_index + n]
  <2>1. m.prev_log_index + n \in 1 .. Len(s)
    BY <1>1
  <2> QED BY <1>2, <2>1 DEF FragmentOf
<1>4. ASSUME m.prev_log_index # 0 PROVE t[m.prev_log_index] = s[m.prev_log_index]
  <2>1. m.prev_log_index \in 1 .. Len(s)
    BY <1>1, <1>4
  <2> QED BY <1>2, <2>1
<1> QED BY <1>1, <1>3, <1>4 DEF FragmentOf

-----------------------------------------------------------------------------
(***************************************************************************)
(* The logs of the leaders, invariantly.                                   *)
(***************************************************************************)

LedOk(h) == \A T \in Nat : TermsUpTo(h[T], T) /\ Follows(h[T], h)

LogsFollow(h) ==
    \A i \in Voters : /\ Follows(Log(eng[i]), h)
                      /\ TermsUpTo(Log(eng[i]), CurrentTerm(eng[i]))

\* The log of a leader is the log of its term.
LeadersLead(h) ==
    \A i \in Voters : eng[i].role = Leader => h[CurrentTerm(eng[i])] = Log(eng[i])

\* AppendEntries of whatever age are fragments of their leader's log.
RequestsFollow(h) ==
    \A r \in rpcs : r.req \in AppendEntries => FragmentOf(r.req, h[r.req.term])

Elected(T) == \E x \in elected : x.term = T

\* Only the elected have appended anything.
ElectedLed(h) == \A T \in Nat : h[T] # <<>> => Elected(T)

\* Whoever was elected never is a candidate of that term again.
ElectedOnce ==
    \A x \in elected :
        /\ x.term <= CurrentTerm(eng[x.node])
        /\ x.term = CurrentTerm(eng[x.node]) => eng[x.node].role # Candidate

LedLogs(h) ==
    /\ LedOk(h) /\ LogsFollow(h) /\ LeadersLead(h) /\ RequestsFollow(h)
    /\ ElectedLed(h) /\ ElectedOnce

\* After a step of node i the log of a term is what it was, or the log of
\* the leader i.
NewHistory(i, h, g) ==
    /\ Grows(h, g)
    /\ eng'[i].role = Leader => g[CurrentTerm(eng'[i])] = Log(eng'[i])
    /\ \A T \in Nat : (eng'[i].role # Leader \/ T # CurrentTerm(eng'[i])) => g[T] = h[T]

\* The logs and terms of a node, before and after a step.
LEMMA StepTypes ==
    ASSUME TypeOK, TypeOK', NEW j \in Voters
    PROVE  /\ eng[j] \in Engine /\ eng'[j] \in Engine
           /\ Log(eng[j]) \in Seq(LogEntry) /\ Log(eng'[j]) \in Seq(LogEntry)
           /\ Len(Log(eng[j])) \in Nat /\ Len(Log(eng'[j])) \in Nat
           /\ CurrentTerm(eng[j]) \in Nat /\ CurrentTerm(eng'[j]) \in Nat
<1>1. eng[j] \in Engine /\ eng'[j] \in Engine
  BY DEF TypeOK
<1> QED BY <1>1, EngineFields

\* A history gives every term a log of entries.
LEMMA HistoryTypes ==
    ASSUME NEW h \in Histories, NEW T \in Nat
    PROVE  h[T] \in Seq(LogEntry) /\ Len(h[T]) \in Nat
<1>1. h[T] \in Seq(LogEntry)
  BY DEF Histories
<1> QED BY <1>1

\* A log changes in one of three ways.
LEMMA LogChanges ==
    ASSUME NEW i \in Voters, NodeStep(i)
    PROVE  \/ Log(eng'[i]) = Log(eng[i])
           \/ /\ eng[i].role = Leader /\ eng'[i].role = Leader
              /\ CurrentTerm(eng'[i]) = CurrentTerm(eng[i])
              /\ GrownByOne(Log(eng[i]), Log(eng'[i]), CurrentTerm(eng[i]))
           \/ \E r \in rpcs : Accepts(i, r)
BY DEF NodeStep, LogStep, KeepsLog

\* A leader kept or won its office, within its term, and keeps its log or
\* appends to it.
LEMMA LeaderStep ==
    ASSUME TypeOK, TypeOK', NEW i \in Voters, NodeStep(i), eng'[i].role = Leader
    PROVE  /\ CurrentTerm(eng'[i]) = CurrentTerm(eng[i])
           /\ eng[i].role \in {Leader, Candidate}
           /\ eng[i].role = Candidate => Log(eng'[i]) = Log(eng[i])
           /\ Log(eng'[i]) = Log(eng[i]) \/
                 GrownByOne(Log(eng[i]), Log(eng'[i]), CurrentTerm(eng[i]))
<1>1. RoleStep(eng[i], eng'[i])
  BY DEF NodeStep
<1>2. /\ CurrentTerm(eng'[i]) = CurrentTerm(eng[i])
      /\ eng[i].role \in {Leader, Candidate}
  BY <1>1 DEF RoleStep, Leader, Candidate, Follower
<1> QED BY <1>2, LogChanges DEF Accepts, Leader, Candidate, Follower

\* The log of every leader only grows: a new leader's term had none.
LEMMA HistoryGrows ==
    ASSUME TypeOK, TypeOK', LeadersWereElected', ElectionSafety',
           NEW i \in Voters, NodeStep(i), NEW h \in Histories, LedLogs(h),
           NEW g, g = IF eng'[i].role = Leader
                      THEN [h EXCEPT ![CurrentTerm(eng'[i])] = Log(eng'[i])] ELSE h
    PROVE  g \in Histories /\ NewHistory(i, h, g)
<1>1. CurrentTerm(eng'[i]) \in Nat /\ Log(eng'[i]) \in Seq(LogEntry)
      /\ Log(eng[i]) \in Seq(LogEntry) /\ Len(Log(eng[i])) \in Nat
  BY StepTypes
<1>2. g \in Histories
  BY <1>1 DEF Histories
<1>3. eng'[i].role = Leader => g[CurrentTerm(eng'[i])] = Log(eng'[i])
  BY <1>1 DEF Histories
<1>4. \A T \in Nat : (eng'[i].role # Leader \/ T # CurrentTerm(eng'[i])) => g[T] = h[T]
  BY DEF Histories
<1>5. ASSUME NEW T \in Nat PROVE Holds(g[T], h[T], Len(h[T]))
  <2>0. h[T] \in Seq(LogEntry) /\ Len(h[T]) \in Nat /\ Len(h[T]) <= Len(h[T])
    BY HistoryTypes
  <2>1. CASE g[T] = h[T]
    BY <2>0, <2>1, HoldsItself
  <2>2. CASE g[T] # h[T]
    <3>1. eng'[i].role = Leader /\ T = CurrentTerm(eng'[i])
      BY <1>4, <2>2
    <3>2. CASE eng[i].role = Leader
      <4>1. h[T] = Log(eng[i])
        BY <3>1, <3>2, LeaderStep DEF LedLogs, LeadersLead
      <4>2. GrownByOne(h[T], g[T], CurrentTerm(eng[i]))
        BY <1>3, <2>2, <3>1, <4>1, LeaderStep
      <4>3. g[T] \in Seq(LogEntry)
        BY <1>1, <1>3, <3>1
      <4> QED BY <2>0, <4>2, <4>3, GrownHolds
    <3>3. CASE eng[i].role = Candidate
      <4>1. T = CurrentTerm(eng[i])
        BY <3>1, LeaderStep
      <4>2. h[T] = <<>>
        <5> SUFFICES ASSUME h[T] # <<>> PROVE FALSE
          OBVIOUS
        <5>1. PICK x \in elected : x.term = T
          BY DEF LedLogs, ElectedLed, Elected
        <5>2. x \in elected'
          BY <5>1 DEF NodeStep, ElectedStep
        <5>3. [term |-> T, node |-> i] \in elected'
          BY <3>1 DEF LeadersWereElected
        <5>4. x.node = i
          BY <5>1, <5>2, <5>3 DEF ElectionSafety
        <5> QED BY <3>3, <4>1, <5>1, <5>4 DEF LedLogs, ElectedOnce
      <4> QED BY <1>1, <1>3, <3>1, <4>2 DEF Holds, AgreeUpTo
    <3> QED BY <3>1, <3>2, <3>3, LeaderStep
  <2> QED BY <2>1, <2>2
<1> QED BY <1>2, <1>3, <1>4, <1>5 DEF NewHistory, Grows

\* Every log still follows the leaders.
LEMMA LogsStillFollow ==
    ASSUME TypeOK, TypeOK', NEW i \in Voters, NodeStep(i),
           NEW h \in Histories, LedLogs(h), NEW g \in Histories, NewHistory(i, h, g)
    PROVE  LogsFollow(g)'
<1> SUFFICES ASSUME NEW j \in Voters
             PROVE  /\ Follows(Log(eng'[j]), g)
                    /\ TermsUpTo(Log(eng'[j]), CurrentTerm(eng'[j]))
  BY DEF LogsFollow, Log, CurrentTerm, Follows, TermsUpTo, Holds, AgreeUpTo
<1> DEFINE log == Log(eng[j])
           new == Log(eng'[j])
<1>1. /\ log \in Seq(LogEntry) /\ new \in Seq(LogEntry) /\ Len(log) \in Nat
      /\ CurrentTerm(eng[j]) \in Nat /\ CurrentTerm(eng'[j]) \in Nat
  BY StepTypes
<1>2. Follows(log, h) /\ TermsUpTo(log, CurrentTerm(eng[j])) /\ Grows(h, g)
  BY DEF LedLogs, LogsFollow, NewHistory
<1>3. Follows(log, g)
  BY <1>1, <1>2, FollowsGrows
<1>4. CurrentTerm(eng'[j]) >= CurrentTerm(eng[j])
  BY <1>1 DEF NodeStep, Moves, RoleStep
<1> HIDE DEF log, new
<1>5. \A n \in 1 .. Len(log) : log[n].term \in Nat
  BY <1>1, EntryTerm
<1>6. TermsUpTo(log, CurrentTerm(eng'[j]))
  BY <1>1, <1>2, <1>4, <1>5 DEF TermsUpTo
<1>7. CASE new = log
  BY <1>3, <1>6, <1>7 DEF new
<1>8. CASE new # log
  <2>0. j = i
    BY <1>8 DEF NodeStep, Moves, log, new
  <2>1. CASE /\ eng'[i].role = Leader /\ CurrentTerm(eng'[i]) = CurrentTerm(eng[i])
             /\ GrownByOne(log, new, CurrentTerm(eng[i]))
    <3>1. g[CurrentTerm(eng'[i])] = new
      BY <2>0, <2>1 DEF NewHistory, new
    <3>2. Holds(new, log, Len(log)) /\ Len(new) = Len(log) + 1
      BY <1>1, <2>1, GrownHolds DEF GrownByOne
    <3>3. ASSUME NEW n \in 1 .. Len(new)
          PROVE  new[n].term <= CurrentTerm(eng'[j]) /\ Holds(new, g[new[n].term], n)
      <4>1. CASE n <= Len(log)
        <5>1. n \in 1 .. Len(log) /\ n \in Nat /\ log[n].term \in Nat
          BY <1>1, <1>5, <4>1
        <5>2. new[n] = log[n]
          BY <1>1, <3>2, <5>1, HoldsAt
        <5>3. Holds(log, g[log[n].term], n)
          BY <1>3, <5>1 DEF Follows
        <5>4. Holds(new, g[log[n].term], n)
          BY <1>1, <3>2, <5>1, <5>3, HoldsTrans, HistoryTypes
        <5> QED BY <1>6, <5>1, <5>2, <5>4 DEF TermsUpTo
      <4>2. CASE n = Len(log) + 1
        <5>1. new[n].term = CurrentTerm(eng'[j])
          BY <2>0, <2>1, <4>2 DEF GrownByOne
        <5>2. Holds(new, new, n)
          BY <1>1, <3>2, <4>2, HoldsItself
        <5> QED BY <1>1, <2>0, <3>1, <5>1, <5>2
      <4> QED BY <1>1, <3>2, <4>1, <4>2
    <3> QED BY <3>3 DEF Follows, TermsUpTo, new
  <2>2. CASE \E r \in rpcs : Accepts(i, r)
    <3>1. PICK r \in rpcs : Accepts(i, r)
      BY <2>2
    <3> DEFINE m == r.req
               led == h[m.term]
    <3>2. m \in AppendEntries /\ m.term \in Nat /\ CurrentTerm(eng'[j]) = m.term
          /\ Accepted(log, m, new)
      BY <2>0, <3>1 DEF Accepts, AppendEntries, log, new
    <3>3. FragmentOf(m, led) /\ Follows(led, h) /\ TermsUpTo(led, m.term)
      BY <3>2 DEF LedLogs, LedOk, RequestsFollow
    <3>4. led \in Seq(LogEntry)
      BY <3>2, HistoryTypes
    <3> HIDE DEF m, led
    <3>5. Holds(new, led, LastNew(m)) /\ Follows(new, h) /\ Len(new) = LastNew(m)
      BY <1>1, <1>2, <1>8, <3>2, <3>3, <3>4, AcceptedFollows
    <3>6. Follows(new, g)
      BY <1>1, <1>2, <3>5, FollowsGrows
    <3>7. TermsUpTo(new, m.term)
      BY <1>1, <3>3, <3>4, <3>5 DEF TermsUpTo, Holds, AgreeUpTo
    <3> QED BY <3>2, <3>6, <3>7 DEF new
  <2> QED BY <1>8, <2>0, <2>1, <2>2, LogChanges DEF log, new
<1> QED BY <1>7, <1>8

\* The rest of what LedLogs says.
LEMMA LedLogsStep ==
    ASSUME TypeOK, TypeOK', HintInv', ElectionSafety', NEW i \in Voters, NodeStep(i),
           NEW h \in Histories, LedLogs(h), NEW g \in Histories, NewHistory(i, h, g)
    PROVE  LedLogs(g)'
<1> DEFINE now == CurrentTerm(eng'[i])
           led == Log(eng'[i])
<1>0. now \in Nat /\ led \in Seq(LogEntry) /\ Grows(h, g)
  BY StepTypes DEF NewHistory
<1>1. LogsFollow(g)'
  BY LogsStillFollow
<1>2. ASSUME NEW T \in Nat PROVE TermsUpTo(g[T], T) /\ Follows(g[T], g)
  <2>1. CASE g[T] = h[T]
    <3>1. TermsUpTo(h[T], T) /\ Follows(h[T], h) /\ h[T] \in Seq(LogEntry)
      BY HistoryTypes DEF LedLogs, LedOk
    <3> QED BY <1>0, <2>1, <3>1, FollowsGrows
  <2>2. CASE g[T] # h[T]
    <3>1. T = now /\ g[T] = led
      BY <2>2 DEF NewHistory
    <3>2. Follows(led, g) /\ TermsUpTo(led, now)
      BY <1>1 DEF LogsFollow, Log, CurrentTerm, Follows, TermsUpTo, Holds, AgreeUpTo
    <3> QED BY <3>1, <3>2
  <2> QED BY <2>1, <2>2
<1>3. ASSUME NEW j \in Voters, eng'[j].role = Leader
      PROVE  g[CurrentTerm(eng'[j])] = Log(eng'[j])
  <2>1. CASE j = i
    BY <1>3, <2>1 DEF NewHistory
  <2>2. CASE j # i
    <3>1. eng'[j] = eng[j] /\ CurrentTerm(eng[j]) \in Nat
      BY <2>2, StepTypes DEF NodeStep, Moves
    <3>2. h[CurrentTerm(eng[j])] = Log(eng[j])
      BY <1>3, <3>1 DEF LedLogs, LeadersLead
    <3>3. [term |-> CurrentTerm(eng'[j]), node |-> j] \in elected'
      BY <1>3 DEF HintInv, LeadersWereElected
    <3>4. eng'[i].role = Leader => [term |-> now, node |-> i] \in elected'
      BY DEF HintInv, LeadersWereElected
    <3>5. eng'[i].role = Leader => CurrentTerm(eng'[j]) # now
      BY <2>2, <3>3, <3>4 DEF ElectionSafety
    <3>6. g[CurrentTerm(eng'[j])] = h[CurrentTerm(eng'[j])]
      BY <3>1, <3>5 DEF NewHistory
    <3> QED BY <3>1, <3>2, <3>6
  <2> QED BY <2>1, <2>2
<1>4. ASSUME NEW x \in rpcs', x.req \in AppendEntries
      PROVE  FragmentOf(x.req, g[x.req.term])
  <2>0. x.req.term \in Nat
    BY <1>4 DEF AppendEntries
  <2>1. CASE \E y \in rpcs : SameRpc(x, y)
    <3>1. FragmentOf(x.req, h[x.req.term])
      BY <1>4, <2>1 DEF SameRpc, LedLogs, RequestsFollow
    <3>2. Holds(g[x.req.term], h[x.req.term], Len(h[x.req.term]))
      BY <1>0, <2>0 DEF Grows
    <3>3. h[x.req.term] \in Seq(LogEntry) /\ g[x.req.term] \in Seq(LogEntry)
      BY <2>0, HistoryTypes
    <3> QED BY <1>4, <3>1, <3>2, <3>3, FragmentGrows
  <2>2. CASE ~\E y \in rpcs : SameRpc(x, y)
    <3>1. ~(x.req = VoteRequest(eng'[i], i))
      BY <1>4 DEF VoteRequest, AppendEntries
    <3>2. eng'[i].role = Leader /\ x.req.term = now /\ FragmentOf(x.req, led)
      BY <1>4, <2>2, <3>1 DEF NodeStep, RequestStep
    <3> QED BY <3>2 DEF NewHistory
  <2> QED BY <2>1, <2>2
<1>5. ASSUME NEW T \in Nat, g[T] # <<>> PROVE \E x \in elected' : x.term = T
  <2>1. CASE g[T] = h[T]
    BY <1>5, <2>1 DEF LedLogs, ElectedLed, Elected, NodeStep, ElectedStep
  <2>2. CASE g[T] # h[T]
    <3>1. eng'[i].role = Leader /\ T = now
      BY <2>2 DEF NewHistory
    <3>2. [term |-> T, node |-> i] \in elected'
      BY <3>1 DEF HintInv, LeadersWereElected
    <3> QED BY <3>2
  <2> QED BY <2>1, <2>2
<1>6. ASSUME NEW x \in elected'
      PROVE  /\ x.term <= CurrentTerm(eng'[x.node])
             /\ x.term = CurrentTerm(eng'[x.node]) => eng'[x.node].role # Candidate
  <2>0. x.term \in Nat /\ x.node \in Voters
    BY DEF TypeOK
  <2>1. CASE x \in elected /\ x.node # i
    <3>1. eng'[x.node] = eng[x.node]
      BY <2>0, <2>1 DEF NodeStep, Moves
    <3> QED BY <2>1, <3>1 DEF LedLogs, ElectedOnce
  <2>2. CASE x \in elected /\ x.node = i
    <3>1. x.term <= CurrentTerm(eng[i]) /\ (x.term = CurrentTerm(eng[i]) => eng[i].role # Candidate)
      BY <2>2 DEF LedLogs, ElectedOnce
    <3>2. CurrentTerm(eng[i]) \in Nat
      BY StepTypes
    <3> QED BY <1>0, <2>0, <2>2, <3>1, <3>2 DEF NodeStep, RoleStep, Leader, Candidate, Follower
  <2>3. CASE x \notin elected
    <3>1. x = [term |-> now, node |-> i] /\ eng'[i].role = Leader
      BY <2>3 DEF NodeStep, ElectedStep
    <3> QED BY <1>0, <3>1 DEF Leader, Candidate
  <2> QED BY <2>1, <2>2, <2>3
<1>7. LedOk(g)
  BY <1>2 DEF LedOk
<1>8. LeadersLead(g)' /\ RequestsFollow(g)' /\ ElectedLed(g)' /\ ElectedOnce'
  <2>1. LeadersLead(g)'
    BY <1>3 DEF LeadersLead, CurrentTerm, Log
  <2>2. RequestsFollow(g)'
    BY <1>4 DEF RequestsFollow, FragmentOf, LastNew
  <2>3. ElectedLed(g)'
    BY <1>5 DEF ElectedLed, Elected
  <2>4. ElectedOnce'
    BY <1>6 DEF ElectedOnce, CurrentTerm
  <2> QED BY <2>1, <2>2, <2>3, <2>4
<1> QED BY <1>1, <1>7, <1>8 DEF LedLogs, LedOk, TermsUpTo, Follows, Holds, AgreeUpTo

-----------------------------------------------------------------------------
(***************************************************************************)
(* What has ever been acknowledged.  a[v][T] is how far node v, leader or  *)
(* follower, has said to have the log of the leader of term T.             *)
(***************************************************************************)

Tallies == [Voters -> [Nat -> Nat]]

\* Nobody acknowledges more than the leader has, or in a term to come.
TalliesFit(h, a) ==
    \A v \in Voters : \A T \in Nat :
        /\ a[v][T] <= Len(h[T])
        /\ a[v][T] > 0 => T <= CurrentTerm(eng[v])

\* Within the term, what a node has acknowledged is in its log.
TalliesStored(h, a) ==
    \A v \in Voters :
        Holds(Log(eng[v]), h[CurrentTerm(eng[v])], a[v][CurrentTerm(eng[v])])

LeadersTally(a) ==
    \A i \in Voters : eng[i].role = Leader =>
        a[i][CurrentTerm(eng[i])] = Len(Log(eng[i]))

\* A success of whatever age is accounted for.
AcksTally(a) ==
    \A r \in rpcs : Acks(r) =>
        /\ r.resp.term = r.req.term
        /\ LastNew(r.req) <= a[r.to][r.req.term]

\* match_index counts what was acknowledged, unless a success was credited
\* to another AppendEntries.
MatchTallies(a) ==
    mixup \/ \A i \in Voters : eng[i].role = Leader => \A p \in OtherVoters(i) :
        eng[i].match_index[p] <= a[p][CurrentTerm(eng[i])]

TallyInv(h, a) ==
    /\ TalliesFit(h, a) /\ TalliesStored(h, a)
    /\ LeadersTally(a) /\ AcksTally(a) /\ MatchTallies(a)

\* A step of node i raises its tally of its term: to the end of its log when
\* it leads, to the end of a request that it accepts.
NewTally(i, a, b) ==
    LET now == CurrentTerm(eng'[i]) IN
    /\ \A v \in Voters : v # i => b[v] = a[v]
    /\ \A T \in Nat : T # now => b[i][T] = a[i][T]
    /\ b[i][now] >= a[i][now]
    /\ eng'[i].role = Leader => b[i][now] = Len(Log(eng'[i]))
    /\ eng'[i].role # Leader =>
          \/ b[i][now] = a[i][now]
          \/ \E r \in rpcs : Accepts(i, r) /\ b[i][now] = LastNew(r.req)
    /\ \A x \in rpcs' : Acks(x) =>
          \/ OldAck(x)
          \/ /\ x.to = i /\ x.req.term = now /\ x.resp.term = now
             /\ LastNew(x.req) <= b[i][now]

\* A tally gives every node and term a number.
LEMMA TallyTypes ==
    ASSUME NEW a \in Tallies, NEW v \in Voters, NEW T \in Nat
    PROVE  a[v] \in [Nat -> Nat] /\ a[v][T] \in Nat
BY DEF Tallies

\* Raising one number of a tally.
LEMMA RaiseTally ==
    ASSUME NEW a \in Tallies, NEW i \in Voters, NEW T \in Nat, NEW n \in Nat,
           NEW b, b = [a EXCEPT ![i] = [a[i] EXCEPT ![T] = n]]
    PROVE  /\ b \in Tallies /\ b[i][T] = n
           /\ \A v \in Voters : v # i => b[v] = a[v]
           /\ \A U \in Nat : U # T => b[i][U] = a[i][U]
<1>1. a[i] \in [Nat -> Nat]
  BY DEF Tallies
<1> DEFINE row == [a[i] EXCEPT ![T] = n]
<1>2. row \in [Nat -> Nat] /\ row[T] = n /\ \A U \in Nat : U # T => row[U] = a[i][U]
  BY <1>1
<1> HIDE DEF row
<1>3. b = [a EXCEPT ![i] = row]
  BY DEF row
<1>4. b \in Tallies /\ b[i] = row /\ \A v \in Voters : v # i => b[v] = a[v]
  BY <1>2, <1>3 DEF Tallies
<1> QED BY <1>2, <1>4

\* For every step there is a tally that accounts for it.
LEMMA TallyExists ==
    ASSUME TypeOK, TypeOK', NEW i \in Voters, NodeStep(i), NEW h \in Histories,
           NEW g \in Histories, NewHistory(i, h, g),
           NEW a \in Tallies, TalliesFit(h, a)
    PROVE  \E b \in Tallies : NewTally(i, a, b)
<1> DEFINE now == CurrentTerm(eng'[i])
<1>1. now \in Nat /\ Len(Log(eng'[i])) \in Nat /\ a[i][now] \in Nat
  BY StepTypes, TallyTypes
<1>2. CASE eng'[i].role = Leader
  <2> DEFINE n == Len(Log(eng'[i]))
             b == [a EXCEPT ![i] = [a[i] EXCEPT ![now] = n]]
  <2>1. \A x \in rpcs' : Acks(x) => OldAck(x)
    BY <1>2 DEF NodeStep, LogStep, KeepsLog, Accepts, Leader, Follower
  <2>2. g[now] = Log(eng'[i]) /\ Len(h[now]) \in Nat /\ Len(h[now]) <= Len(g[now])
    BY <1>1, <1>2, GrowsLen DEF NewHistory
  <2>3. n >= a[i][now]
    BY <1>1, <2>2 DEF TalliesFit
  <2>4. /\ b \in Tallies /\ b[i][now] = n
        /\ \A v \in Voters : v # i => b[v] = a[v]
        /\ \A U \in Nat : U # now => b[i][U] = a[i][U]
    BY <1>1, RaiseTally
  <2> HIDE DEF b
  <2> QED BY <1>2, <2>1, <2>3, <2>4 DEF NewTally
<1>3. CASE eng'[i].role # Leader /\ KeepsLog(i)
  <2>1. NewTally(i, a, a)
    BY <1>1, <1>3 DEF NewTally, KeepsLog
  <2> QED BY <2>1
<1>4. ASSUME eng'[i].role # Leader, NEW r \in rpcs, Accepts(i, r)
      PROVE  \E b \in Tallies : NewTally(i, a, b)
  <2> DEFINE m == LastNew(r.req)
             n == IF m > a[i][now] THEN m ELSE a[i][now]
             b == [a EXCEPT ![i] = [a[i] EXCEPT ![now] = n]]
  <2>1. m \in Nat
    BY <1>4 DEF Accepts, AppendEntries, LastNew
  <2>2. n \in Nat /\ n >= a[i][now] /\ n >= m /\ (n = a[i][now] \/ n = m)
    BY <1>1, <2>1
  <2>3. /\ b \in Tallies /\ b[i][now] = n
        /\ \A v \in Voters : v # i => b[v] = a[v]
        /\ \A U \in Nat : U # now => b[i][U] = a[i][U]
    <3> HIDE DEF n
    <3> QED BY <1>1, <2>2, RaiseTally
  <2> HIDE DEF b, n
  <2>4. ASSUME NEW x \in rpcs', Acks(x), ~OldAck(x)
        PROVE  /\ x.to = i /\ x.req.term = now /\ x.resp.term = now
               /\ LastNew(x.req) <= b[i][now]
    <3>1. x.to = i /\ x.req = r.req /\ x.resp.term = r.req.term /\ now = r.req.term
      BY <1>4, <2>4 DEF Accepts
    <3> QED BY <2>1, <2>2, <2>3, <3>1
  <2>5. b[i][now] = a[i][now] \/ b[i][now] = LastNew(r.req)
    BY <2>2, <2>3
  <2> QED BY <1>4, <2>2, <2>3, <2>4, <2>5 DEF NewTally
<1> QED BY <1>2, <1>3, <1>4 DEF NodeStep, LogStep

\* Tallies never fall, and only i's of its term rises.
LEMMA TallyGrows ==
    ASSUME TypeOK, TypeOK', NEW i \in Voters, NEW a \in Tallies, NEW b \in Tallies,
           NewTally(i, a, b), NEW v \in Voters, NEW T \in Nat
    PROVE  /\ a[v][T] \in Nat /\ b[v][T] \in Nat /\ a[v][T] <= b[v][T]
           /\ v # i \/ T # CurrentTerm(eng'[i]) => b[v][T] = a[v][T]
<1>1. a[v][T] \in Nat /\ b[v][T] \in Nat
  BY TallyTypes
<1>2. CASE v # i \/ T # CurrentTerm(eng'[i])
  BY <1>1, <1>2 DEF NewTally
<1>3. CASE v = i /\ T = CurrentTerm(eng'[i])
  BY <1>1, <1>3 DEF NewTally
<1> QED BY <1>2, <1>3

\* No step lowers the term of a node.
LEMMA TermsGrow ==
    ASSUME TypeOK, TypeOK', NEW i \in Voters, NodeStep(i), NEW v \in Voters
    PROVE  /\ CurrentTerm(eng[v]) \in Nat /\ CurrentTerm(eng'[v]) \in Nat
           /\ CurrentTerm(eng[v]) <= CurrentTerm(eng'[v])
<1>1. CurrentTerm(eng[v]) \in Nat /\ CurrentTerm(eng'[v]) \in Nat
  BY StepTypes
<1> QED BY <1>1 DEF NodeStep, Moves, RoleStep

\* A step of a node keeps the account of what has been acknowledged.
LEMMA TallyInvStep ==
    ASSUME TypeOK, TypeOK', NEW i \in Voters, NodeStep(i),
           NEW h \in Histories, LedLogs(h), NEW g \in Histories, NewHistory(i, h, g),
           LedLogs(g)',
           NEW a \in Tallies, TallyInv(h, a), NEW b \in Tallies, NewTally(i, a, b)
    PROVE  TallyInv(g, b)'
<1> DEFINE now == CurrentTerm(eng'[i])
<1>0. now \in Nat /\ Grows(h, g) /\ Len(Log(eng'[i])) \in Nat
  BY StepTypes DEF NewHistory
<1>r. ASSUME NEW r \in rpcs, Accepts(i, r)
      PROVE  /\ r.req \in AppendEntries /\ now = r.req.term /\ LastNew(r.req) \in Nat
             /\ FragmentOf(r.req, h[now]) /\ LastNew(r.req) <= Len(h[now])
             /\ Accepted(Log(eng[i]), r.req, Log(eng'[i]))
  <2>1. r.req \in AppendEntries /\ now = r.req.term
        /\ Accepted(Log(eng[i]), r.req, Log(eng'[i]))
    BY <1>r DEF Accepts
  <2>2. FragmentOf(r.req, h[now])
    BY <2>1 DEF LedLogs, RequestsFollow
  <2> QED BY <2>1, <2>2 DEF FragmentOf, AppendEntries, LastNew
<1>1. ASSUME NEW v \in Voters, NEW T \in Nat
      PROVE  b[v][T] <= Len(g[T]) /\ (b[v][T] > 0 => T <= CurrentTerm(eng'[v]))
  <2>0. /\ a[v][T] \in Nat /\ b[v][T] \in Nat
        /\ Len(h[T]) \in Nat /\ Len(g[T]) \in Nat /\ Len(h[T]) <= Len(g[T])
        /\ CurrentTerm(eng[v]) \in Nat /\ CurrentTerm(eng'[v]) \in Nat
        /\ CurrentTerm(eng[v]) <= CurrentTerm(eng'[v])
    BY <1>0, TallyGrows, GrowsLen, TermsGrow
  <2>1. CASE b[v][T] = a[v][T]
    <3>1. a[v][T] <= Len(h[T]) /\ (a[v][T] > 0 => T <= CurrentTerm(eng[v]))
      BY DEF TallyInv, TalliesFit
    <3> QED BY <2>0, <2>1, <3>1
  <2>2. CASE b[v][T] # a[v][T]
    <3>1. v = i /\ T = now
      BY <2>2, TallyGrows
    <3>2. CASE eng'[i].role = Leader
      BY <1>0, <3>1, <3>2 DEF NewTally, NewHistory
    <3>3. CASE eng'[i].role # Leader
      <4>1. PICK r \in rpcs : Accepts(i, r) /\ b[i][now] = LastNew(r.req)
        BY <2>2, <3>1, <3>3 DEF NewTally
      <4> QED BY <1>0, <1>r, <2>0, <3>1, <4>1
    <3> QED BY <3>2, <3>3
  <2> QED BY <2>1, <2>2
<1>2. ASSUME NEW v \in Voters
      PROVE  Holds(Log(eng'[v]), g[CurrentTerm(eng'[v])], b[v][CurrentTerm(eng'[v])])
  <2> DEFINE T == CurrentTerm(eng'[v])
             n == a[v][T]
  <2>0. /\ T \in Nat /\ Log(eng[v]) \in Seq(LogEntry) /\ Log(eng'[v]) \in Seq(LogEntry)
        /\ h[T] \in Seq(LogEntry) /\ g[T] \in Seq(LogEntry) /\ n \in Nat
        /\ CurrentTerm(eng[v]) \in Nat /\ CurrentTerm(eng[v]) <= T
    BY StepTypes, HistoryTypes, TallyTypes, TermsGrow
  <2>1. Holds(Log(eng[v]), h[T], n)
    <3>1. CASE CurrentTerm(eng[v]) = T
      BY <3>1 DEF TallyInv, TalliesStored
    <3>2. CASE CurrentTerm(eng[v]) # T
      <4>1. n = 0
        BY <2>0, <3>2 DEF TallyInv, TalliesFit
      <4> QED BY <2>0, <4>1 DEF Holds, AgreeUpTo
    <3> QED BY <3>1, <3>2
  <2>2. CASE v # i
    <3>1. Log(eng'[v]) = Log(eng[v]) /\ b[v][T] = n
      BY <2>0, <2>2, TallyGrows DEF NodeStep, Moves
    <3> QED BY <1>0, <2>0, <2>1, <3>1, HoldsGrows
  <2>3. CASE v = i /\ eng'[i].role = Leader
    <3>1. g[T] = Log(eng'[i]) /\ b[v][T] = Len(Log(eng'[i]))
      BY <2>3 DEF NewHistory, NewTally
    <3> QED BY <1>0, <2>0, <2>3, <3>1, HoldsItself
  <2>4. CASE v = i /\ eng'[i].role # Leader
    <3>1. Holds(Log(eng'[i]), h[T], n)
      <4>1. CASE Log(eng'[i]) = Log(eng[i])
        BY <2>1, <2>4, <4>1
      <4>2. CASE \E r \in rpcs : Accepts(i, r)
        <5>1. PICK r \in rpcs : Accepts(i, r)
          BY <4>2
        <5> HIDE DEF T, n
        <5>2. FragmentOf(r.req, h[T]) /\ r.req \in AppendEntries
              /\ Accepted(Log(eng[i]), r.req, Log(eng'[i]))
          BY <1>r, <2>4, <5>1 DEF T
        <5> QED BY <2>0, <2>1, <2>4, <5>2, AcceptedKeeps
      <4> QED BY <2>4, <4>1, <4>2, LogChanges
    <3>2. CASE b[i][T] = n
      BY <1>0, <2>0, <2>4, <3>1, <3>2, HoldsGrows
    <3>3. CASE b[i][T] # n
      <4>1. PICK r \in rpcs : Accepts(i, r) /\ b[i][now] = LastNew(r.req)
        BY <2>4, <3>3 DEF NewTally
      <4> DEFINE led == h[T]
                 log == Log(eng[i])
                 new == Log(eng'[i])
                 m == r.req
      <4>2. Follows(led, h) /\ Follows(log, h)
        BY <2>0 DEF LedLogs, LedOk, LogsFollow
      <4>3. /\ FragmentOf(m, led) /\ m \in AppendEntries /\ LastNew(m) \in Nat
            /\ Accepted(log, m, new)
        BY <1>r, <2>4, <4>1
      <4>4. led \in Seq(LogEntry) /\ log \in Seq(LogEntry) /\ new \in Seq(LogEntry)
        BY <2>0, <2>4
      <4>5. Holds(new, led, LastNew(m))
        <5> HIDE DEF led, log, new, m
        <5> QED BY <4>2, <4>3, <4>4, AcceptedFollows
      <4> QED BY <1>0, <2>0, <2>4, <4>1, <4>3, <4>4, <4>5, HoldsGrows
    <3> QED BY <3>2, <3>3
  <2> QED BY <2>2, <2>3, <2>4
<1>3. ASSUME NEW j \in Voters, eng'[j].role = Leader
      PROVE  b[j][CurrentTerm(eng'[j])] = Len(Log(eng'[j]))
  <2>1. CASE j = i
    BY <1>3, <2>1 DEF NewTally
  <2>2. CASE j # i
    BY <1>3, <2>2 DEF NodeStep, Moves, NewTally, TallyInv, LeadersTally
  <2> QED BY <2>1, <2>2
<1>4. ASSUME NEW x \in rpcs', Acks(x)
      PROVE  x.resp.term = x.req.term /\ LastNew(x.req) <= b[x.to][x.req.term]
  <2>0. x.to \in Voters /\ x.req.term \in Nat /\ LastNew(x.req) \in Nat
    BY <1>4, SMTT(30) DEF TypeOK, Rpc, Acks, AppendEntries, LastNew
  <2>1. CASE OldAck(x)
    <3>1. PICK y \in rpcs : SameRpc(x, y) /\ y.resp = x.resp
      BY <2>1 DEF OldAck
    <3>2. Acks(y)
      BY <1>4, <3>1 DEF Acks, SameRpc
    <3>3. y.resp.term = y.req.term /\ LastNew(y.req) <= a[y.to][y.req.term]
      BY <3>2 DEF TallyInv, AcksTally
    <3>4. x.resp.term = x.req.term /\ LastNew(x.req) <= a[x.to][x.req.term]
      BY <3>1, <3>3 DEF SameRpc
    <3>5. /\ a[x.to][x.req.term] \in Nat /\ b[x.to][x.req.term] \in Nat
          /\ a[x.to][x.req.term] <= b[x.to][x.req.term]
      BY <2>0, TallyGrows
    <3> QED BY <2>0, <3>4, <3>5
  <2>2. CASE ~OldAck(x)
    BY <1>4, <2>2 DEF NewTally
  <2> QED BY <2>1, <2>2
<1>5. ASSUME ~mixup', NEW j \in Voters, eng'[j].role = Leader, NEW p \in OtherVoters(j)
      PROVE  eng'[j].match_index[p] <= b[p][CurrentTerm(eng'[j])]
  <2> DEFINE T == CurrentTerm(eng'[j])
             n == eng'[j].match_index[p]
  <2>0. p \in Voters /\ T \in Nat /\ n \in Nat /\ eng'[j] \in Engine
    BY StepTypes, EngineFields DEF OtherVoters
  <2>1. a[p][T] \in Nat /\ b[p][T] \in Nat /\ a[p][T] <= b[p][T]
    BY <2>0, TallyGrows
  <2>2. ~mixup
    BY <1>5 DEF NodeStep
  <2>3. n = 0 \/ n <= a[p][T]
    <3>1. CASE j # i
      BY <1>5, <2>2, <3>1 DEF NodeStep, Moves, TallyInv, MatchTallies
    <3>2. CASE j = i
      <4>1. CASE /\ eng[i].role = Leader /\ T = CurrentTerm(eng[i])
                 /\ n = eng[i].match_index[p]
        BY <1>5, <2>2, <3>2, <4>1 DEF TallyInv, MatchTallies
      <4>2. CASE \E r \in rpcs : /\ Acks(r) /\ r.to = p
                                 /\ r.resp.term = T /\ n = LastNew(r.req)
        BY <4>2 DEF TallyInv, AcksTally
      <4> QED BY <1>5, <3>2, <4>1, <4>2 DEF NodeStep, MatchStep
    <3> QED BY <3>1, <3>2
  <2> QED BY <2>0, <2>1, <2>3
<1>6. TalliesFit(g, b)'
  BY <1>1 DEF TalliesFit, CurrentTerm
<1>7. TalliesStored(g, b)'
  BY <1>2 DEF TalliesStored, CurrentTerm, Log, Holds, AgreeUpTo
<1>8. LeadersTally(b)'
  BY <1>3 DEF LeadersTally, CurrentTerm, Log
<1>9. AcksTally(b)'
  BY <1>4 DEF AcksTally, Acks, LastNew
<1>10. MatchTallies(b)'
  BY <1>5 DEF MatchTallies, CurrentTerm
<1> QED BY <1>6, <1>7, <1>8, <1>9, <1>10 DEF TallyInv

-----------------------------------------------------------------------------
(***************************************************************************)
(* Entries that are, or may still be, committed.                           *)
(***************************************************************************)

\* The n-th entry of the log of term T is of that term: only such an entry
\* is ever committed by counting.
Own(h, T, n) == n \in 1 .. Len(h[T]) /\ h[T][n].term = T

\* A quorum has acknowledged it, or could still do so.
MayCommit(a, T, n) ==
    \E Q \in Majorities : \A v \in Q : a[v][T] >= n \/ CurrentTerm(eng[v]) <= T

Stands(h, a, T, n) == Own(h, T, n) /\ MayCommit(a, T, n)

\* A quorum has acknowledged it.
Chosen(h, a, T, n) ==
    Own(h, T, n) /\ \E Q \in Majorities : \A v \in Q : a[v][T] >= n

\* Leader completeness: a later leader has every entry that may be committed.
LaterLeadersHold(h, a) ==
    \A T, U, n \in Nat :
        T < U /\ Elected(U) /\ Stands(h, a, T, n) => Holds(h[U], h[T], n)

\* Whoever acknowledged such an entry still has it, in whatever term it is.
TalliedIsKept(h, a) ==
    \A v \in Voters : \A T, n \in Nat :
        Stands(h, a, T, n) /\ a[v][T] >= n => Holds(Log(eng[v]), h[T], n)

\* A voter with such an entry only votes for a candidate with it.
CandidatesHold(h, a) ==
    \A x \in ballots :
        (eng[x.cand].role = Candidate /\ CurrentTerm(eng[x.cand]) = x.term) =>
        \A T, n \in Nat :
            T < x.term /\ Stands(h, a, T, n) /\ a[x.voter][T] >= n
            => Holds(Log(eng[x.cand]), h[T], n)

\* A vote request describes the candidate's log while the candidacy lasts.
VoteRequestsTell ==
    \A r \in rpcs : r.req \in RequestVote =>
        /\ r.req.term <= CurrentTerm(eng[r.from])
        /\ (eng[r.from].role = Candidate /\ CurrentTerm(eng[r.from]) = r.req.term) =>
              /\ r.req.last_log_index = LastIndex(eng[r.from].storage)
              /\ r.req.last_log_term = LastTerm(eng[r.from].storage)

\* Votes are for candidacies that have begun.
BallotsAreOld == \A x \in ballots : x.term <= CurrentTerm(eng[x.cand])

SafeInv(h, a) ==
    /\ LaterLeadersHold(h, a) /\ TalliedIsKept(h, a) /\ CandidatesHold(h, a)
    /\ VoteRequestsTell /\ BallotsAreOld

\* Every quorum has a voter that elected the leader.
ElectedByVoters ==
    \A x \in elected : \A Q \in Majorities :
        \E v \in Q : Ballot(v, x.term, x.node) \in ballots

\* It shares one with the quorum that elected it.
LEMMA EveryQuorumVoted == TypeOK /\ ElectionInv => ElectedByVoters
<1> SUFFICES ASSUME TypeOK, ElectionInv, NEW x \in elected, NEW Q \in Majorities
             PROVE  \E v \in Q : Ballot(v, x.term, x.node) \in ballots
  BY DEF ElectedByVoters
<1>1. PICK R \in SUBSET Voters :
        Cardinality(R) >= Quorum /\ \A v \in R : Ballot(v, x.term, x.node) \in ballots
  BY DEF ElectionInv, ElectedByQuorum
<1>2. Q \in SUBSET Voters /\ Cardinality(Q) >= Quorum
  BY DEF Majorities
<1>3. Q \cap R # {}
  BY <1>1, <1>2, VotersAssumption, QuorumsIntersect
<1> QED BY <1>1, <1>3

-----------------------------------------------------------------------------
(* What a step does to such entries.                                       *)

\* What may be committed after a step could be committed before it: a node
\* that has left a term never acknowledges anything in it again.
LEMMA MayCommitBack ==
    ASSUME TypeOK, TypeOK', NEW i \in Voters, NodeStep(i), NEW a \in Tallies,
           NEW b \in Tallies, NewTally(i, a, b), NEW T \in Nat, NEW n \in Nat,
           MayCommit(b, T, n)'
    PROVE  MayCommit(a, T, n)
<1>1. PICK Q \in Majorities : \A v \in Q : b[v][T] >= n \/ CurrentTerm(eng'[v]) <= T
  BY DEF MayCommit, Majorities, CurrentTerm
<1>2. Q \in SUBSET Voters
  BY DEF Majorities
<1>3. ASSUME NEW v \in Q PROVE a[v][T] >= n \/ CurrentTerm(eng[v]) <= T
  <2>1. /\ CurrentTerm(eng[v]) \in Nat /\ CurrentTerm(eng'[v]) \in Nat
        /\ CurrentTerm(eng[v]) <= CurrentTerm(eng'[v])
    BY <1>2, TermsGrow
  <2>2. CASE CurrentTerm(eng'[v]) <= T
    BY <2>1, <2>2
  <2>3. CASE b[v][T] >= n /\ b[v][T] = a[v][T]
    BY <2>3
  <2>4. CASE b[v][T] # a[v][T]
    <3>1. v = i /\ T = CurrentTerm(eng'[i])
      BY <1>2, <2>4, TallyGrows
    <3> QED BY <2>1, <3>1
  <2> QED BY <1>1, <2>2, <2>3, <2>4
<1> QED BY <1>3 DEF MayCommit

\* An entry that stands after the step stood before, or is a new one of the
\* leader i that nobody else has acknowledged.
IsNew(i, h, T, n) ==
    eng'[i].role = Leader /\ T = CurrentTerm(eng'[i]) /\ n > Len(h[T])

\* An entry that may be committed after a step stood before it, or the step
\* is the one that appended it.
LEMMA StandsBack ==
    ASSUME TypeOK, TypeOK', NEW i \in Voters, NodeStep(i),
           NEW h \in Histories, NEW g \in Histories, NewHistory(i, h, g),
           NEW a \in Tallies, NEW b \in Tallies, NewTally(i, a, b),
           NEW T \in Nat, NEW n \in Nat, Stands(g, b, T, n)'
    PROVE  Stands(h, a, T, n) \/ IsNew(i, h, T, n)
<1>1. MayCommit(b, T, n)' /\ n \in 1 .. Len(g[T]) /\ g[T][n].term = T
  BY DEF Stands, Own
<1>2. MayCommit(a, T, n)
  BY <1>1, MayCommitBack
<1>3. Len(h[T]) \in Nat /\ \A k \in 1 .. Len(h[T]) : g[T][k] = h[T][k]
  BY GrowsLen DEF NewHistory
<1>4. CASE n <= Len(h[T])
  <2>1. n \in 1 .. Len(h[T])
    BY <1>1, <1>3, <1>4
  <2> QED BY <1>1, <1>2, <1>3, <2>1 DEF Stands, Own
<1>5. CASE n > Len(h[T])
  <2>1. g[T] # h[T]
    BY <1>1, <1>3, <1>5
  <2> QED BY <1>5, <2>1 DEF NewHistory, IsNew
<1> QED BY <1>3, <1>4, <1>5

\* Of an entry just appended, only the leader has told anybody.
LEMMA NewIsOwn ==
    ASSUME TypeOK, TypeOK', NEW i \in Voters, NEW h \in Histories,
           NEW a \in Tallies, TalliesFit(h, a), NEW b \in Tallies, NewTally(i, a, b),
           NEW T \in Nat, NEW n \in Nat, IsNew(i, h, T, n),
           NEW v \in Voters, b[v][T] >= n
    PROVE  v = i
<1>1. a[v][T] \in Nat /\ (v # i => b[v][T] = a[v][T])
  BY TallyGrows
<1>2. a[v][T] <= Len(h[T]) /\ Len(h[T]) \in Nat
  BY HistoryTypes DEF TalliesFit
<1> QED BY <1>1, <1>2 DEF IsNew

\* Agreement of two leaders' logs survives their growth.
LEMMA LedGrow ==
    ASSUME NEW h \in Histories, NEW g \in Histories, Grows(h, g),
           NEW T \in Nat, NEW U \in Nat, NEW n \in Nat, Holds(h[U], h[T], n)
    PROVE  Holds(g[U], g[T], n)
<1>1. h[U] \in Seq(LogEntry) /\ g[T] \in Seq(LogEntry)
  BY HistoryTypes
<1>2. Holds(h[U], g[T], n)
  BY <1>1, HoldsGrows
<1>3. Holds(g[T], h[U], n)
  BY <1>2, HoldsBack
<1>4. Holds(g[T], g[U], n)
  BY <1>1, <1>3, HoldsGrows
<1> QED BY <1>4, HoldsBack

\* A later leader still has every entry that may be committed: the new one
\* because a voter of the quorum has it and compared the logs.
LEMMA LaterLeadersStillHold ==
    ASSUME TypeOK, TypeOK', ElectionInv, ElectionInv', ElectedByVoters',
           NEW i \in Voters, NodeStep(i),
           NEW h \in Histories, LedLogs(h), NEW g \in Histories, NewHistory(i, h, g),
           NEW a \in Tallies, TallyInv(h, a), NEW b \in Tallies, NewTally(i, a, b),
           SafeInv(h, a)
    PROVE  LaterLeadersHold(g, b)'
<1> SUFFICES ASSUME NEW T \in Nat, NEW U \in Nat, NEW n \in Nat, T < U,
                    Elected(U)', Stands(g, b, T, n)'
             PROVE  Holds(g[U], g[T], n)
  BY DEF LaterLeadersHold, Holds, AgreeUpTo
<1>1. PICK x \in elected' : x.term = U
  BY DEF Elected
<1>2. \A Q \in Majorities : \E v \in Q : Ballot(v, U, x.node) \in ballots'
  BY <1>1 DEF ElectedByVoters, Majorities
<1>3. ASSUME NEW v, Ballot(v, U, x.node) \in ballots'
      PROVE  v \in Voters /\ CurrentTerm(eng'[v]) \in Nat /\ U <= CurrentTerm(eng'[v])
  <2>1. v \in Voters
    BY <1>3 DEF TypeOK, Ballot
  <2>2. U <= CurrentTerm(eng'[v])
    BY <1>3 DEF ElectionInv, VotesArePersisted, Ballot, CurrentTerm
  <2> QED BY <2>1, <2>2, StepTypes
<1>4. CASE IsNew(i, h, T, n)
  <2>1. PICK Q \in Majorities : \A v \in Q : b[v][T] >= n \/ CurrentTerm(eng'[v]) <= T
    BY DEF Stands, MayCommit, Majorities, CurrentTerm
  <2>2. PICK v \in Q : Ballot(v, U, x.node) \in ballots'
    BY <1>2
  <2>3. v \in Voters /\ b[v][T] >= n /\ CurrentTerm(eng'[v]) # T
    BY <1>3, <2>1, <2>2
  <2>4. v = i
    BY <1>4, <2>3, NewIsOwn DEF TallyInv
  <2> QED BY <1>4, <2>3, <2>4 DEF IsNew
<1>5. CASE Stands(h, a, T, n)
  <2>1. CASE x \in elected
    <3>1. Holds(h[U], h[T], n)
      BY <1>1, <1>5, <2>1 DEF SafeInv, LaterLeadersHold, Elected
    <3> QED BY <3>1, LedGrow DEF NewHistory
  <2>2. CASE x \notin elected
    <3>1. /\ x = [term |-> CurrentTerm(eng'[i]), node |-> i]
          /\ eng[i].role = Candidate /\ eng'[i].role = Leader
          /\ CurrentTerm(eng'[i]) = CurrentTerm(eng[i])
      BY <2>2 DEF NodeStep, ElectedStep
    <3>2. U = CurrentTerm(eng[i]) /\ g[U] = Log(eng'[i]) /\ Log(eng'[i]) = Log(eng[i])
      BY <1>1, <3>1, LeaderStep DEF NewHistory
    <3>3. PICK Q \in Majorities : \A v \in Q : a[v][T] >= n \/ CurrentTerm(eng[v]) <= T
      BY <1>5 DEF Stands, MayCommit
    <3>4. PICK v \in Q : Ballot(v, U, i) \in ballots'
      BY <1>2, <3>1
    <3>5. Ballot(v, U, i) \in ballots
      BY <3>1, <3>4 DEF NodeStep, BallotStep, Leader, Candidate, Follower
    <3>6. v \in Voters /\ CurrentTerm(eng[v]) \in Nat /\ U <= CurrentTerm(eng[v])
      <4>1. v \in Voters
        BY <3>5 DEF TypeOK, Ballot
      <4>2. U <= CurrentTerm(eng[v])
        BY <3>5 DEF ElectionInv, VotesArePersisted, Ballot
      <4> QED BY <4>1, <4>2, StepTypes
    <3>7. a[v][T] >= n
      BY <3>3, <3>6
    <3>8. Holds(Log(eng[i]), h[T], n)
      BY <1>5, <3>1, <3>2, <3>5, <3>7 DEF SafeInv, CandidatesHold, Ballot
    <3> QED BY <3>2, <3>8, HoldsGrows, StepTypes DEF NewHistory
  <2> QED BY <2>1, <2>2
<1> QED BY <1>4, <1>5, StandsBack

\* The log of the leader of a term has the entries of earlier terms that may
\* be committed, and its own.
LEMMA LeaderHolds ==
    ASSUME NEW h \in Histories, NEW a \in Tallies, LaterLeadersHold(h, a),
           NEW T \in Nat, NEW U \in Nat, NEW n \in Nat, T <= U, Elected(U),
           Stands(h, a, T, n)
    PROVE  Holds(h[U], h[T], n)
<1>1. CASE T < U
  BY <1>1 DEF LaterLeadersHold
<1>2. CASE T = U
  BY <1>2, HoldsItself, HistoryTypes DEF Stands, Own
<1> QED BY <1>1, <1>2

\* Accepting an AppendEntries removes nothing that may be committed.
LEMMA AcceptsKeeps ==
    ASSUME TypeOK, TypeOK', HintInv, NEW i \in Voters, NodeStep(i),
           NEW h \in Histories, LedLogs(h), NEW a \in Tallies, LaterLeadersHold(h, a),
           NEW r \in rpcs, Accepts(i, r),
           NEW T \in Nat, NEW n \in Nat, NEW k \in Nat, T <= CurrentTerm(eng'[i]),
           Stands(h, a, T, n), k <= n, Holds(Log(eng[i]), h[T], k)
    PROVE  Holds(Log(eng'[i]), h[T], k)
<1> DEFINE U == CurrentTerm(eng'[i])
           led == h[U]
           log == Log(eng[i])
           new == Log(eng'[i])
<1>1. /\ U \in Nat /\ log \in Seq(LogEntry) /\ new \in Seq(LogEntry)
      /\ led \in Seq(LogEntry) /\ h[T] \in Seq(LogEntry)
  BY StepTypes, HistoryTypes
<1>2. r.req \in AppendEntries /\ U = r.req.term /\ Accepted(log, r.req, new)
  BY DEF Accepts
<1>3. FragmentOf(r.req, led)
  BY <1>2 DEF LedLogs, RequestsFollow
<1>4. Elected(U)
  <2>1. [term |-> U, node |-> r.req.leader_id] \in elected
    BY <1>2 DEF HintInv, SendersWereElected
  <2> QED BY <2>1 DEF Elected
<1>5. Holds(led, h[T], n)
  BY <1>1, <1>4, LeaderHolds
<1> HIDE DEF U, led, log, new
<1>6. Holds(h[T], led, n)
  BY <1>5, HoldsBack
<1>7. Holds(log, led, k)
  BY <1>1, <1>6, HoldsTrans DEF log
<1>8. Holds(new, led, k)
  BY <1>1, <1>2, <1>3, <1>7, AcceptedKeeps
<1>9. Holds(new, h[T], k)
  BY <1>1, <1>5, <1>8, HoldsTrans
<1> QED BY <1>9 DEF new

\* No step removes anything that may be committed and is acknowledged.
LEMMA TalliedIsStillKept ==
    ASSUME TypeOK, TypeOK', HintInv, NEW i \in Voters, NodeStep(i),
           NEW h \in Histories, LedLogs(h), NEW g \in Histories, NewHistory(i, h, g),
           NEW a \in Tallies, TallyInv(h, a), NEW b \in Tallies, NewTally(i, a, b),
           TallyInv(g, b)', SafeInv(h, a)
    PROVE  TalliedIsKept(g, b)'
<1> SUFFICES ASSUME NEW v \in Voters, NEW T \in Nat, NEW n \in Nat,
                    Stands(g, b, T, n)', b[v][T] >= n
             PROVE  Holds(Log(eng'[v]), g[T], n)
  BY DEF TalliedIsKept, Log, Holds, AgreeUpTo
<1>0. /\ CurrentTerm(eng'[v]) \in Nat /\ b[v][T] \in Nat
      /\ Log(eng'[v]) \in Seq(LogEntry) /\ Log(eng[v]) \in Seq(LogEntry)
      /\ Len(Log(eng[v])) \in Nat
      /\ g[T] \in Seq(LogEntry) /\ h[T] \in Seq(LogEntry) /\ Grows(h, g)
  BY StepTypes, HistoryTypes, TallyTypes DEF NewHistory
<1>1. CASE T = CurrentTerm(eng'[v])
  <2>1. Holds(Log(eng'[v]), g[CurrentTerm(eng'[v])], b[v][CurrentTerm(eng'[v])])
    BY DEF TallyInv, TalliesStored, Log, CurrentTerm, Holds, AgreeUpTo
  <2> QED BY <1>0, <1>1, <2>1, HoldsLess
<1>2. CASE T # CurrentTerm(eng'[v])
  <2>1. ~IsNew(i, h, T, n)
    BY <1>2, NewIsOwn DEF IsNew, TallyInv
  <2>2. Stands(h, a, T, n)
    BY <2>1, StandsBack
  <2>3. a[v][T] >= n
    BY <1>2, TallyGrows
  <2>4. Holds(Log(eng[v]), h[T], n)
    BY <2>2, <2>3 DEF SafeInv, TalliedIsKept
  <2>5. n \in Nat /\ n >= 1 /\ a[v][T] \in Nat
    BY <2>2, TallyTypes DEF Stands, Own
  <2>6. T <= CurrentTerm(eng'[v])
    <3>1. T <= CurrentTerm(eng[v])
      BY <2>3, <2>5 DEF TallyInv, TalliesFit
    <3> QED BY <3>1, TermsGrow
  <2>7. Holds(Log(eng'[v]), h[T], n)
    <3>1. CASE Log(eng'[v]) = Log(eng[v])
      BY <2>4, <3>1
    <3>2. CASE v = i /\ GrownByOne(Log(eng[i]), Log(eng'[i]), CurrentTerm(eng[i]))
      <4>1. Holds(Log(eng'[v]), Log(eng[v]), Len(Log(eng[v])))
        BY <1>0, <3>2, GrownHolds
      <4>2. n <= Len(Log(eng[v]))
        BY <2>4 DEF Holds
      <4> QED BY <1>0, <2>4, <4>1, <4>2, HoldsTrans
    <3>3. CASE v = i /\ \E r \in rpcs : Accepts(i, r)
      <4>1. PICK r \in rpcs : Accepts(i, r)
        BY <3>3
      <4>2. n <= n /\ LaterLeadersHold(h, a)
        BY DEF SafeInv
      <4> QED BY <2>2, <2>4, <2>6, <3>3, <4>1, <4>2, AcceptsKeeps
    <3>4. v # i => Log(eng'[v]) = Log(eng[v])
      BY DEF NodeStep, Moves
    <3> QED BY <3>1, <3>2, <3>3, <3>4, LogChanges
  <2> QED BY <1>0, <2>7, HoldsGrows
<1> QED BY <1>1, <1>2

\* log_is_up_to_date, applied by a voter whose log has an entry that may be
\* committed, lets no candidate pass that does not have it.
LEMMA UpToDateHolds ==
    ASSUME NEW h \in Histories, LedOk(h), ElectedLed(h), NEW a \in Tallies,
           LaterLeadersHold(h, a),
           NEW e \in Engine, Contiguous(Log(e)), Follows(Log(e), h),
           NEW c \in Engine, Contiguous(Log(c)), Follows(Log(c), h),
           LogIsUpToDate(e.storage, LastIndex(c.storage), LastTerm(c.storage)),
           NEW T \in Nat, NEW n \in Nat, Stands(h, a, T, n), Holds(Log(e), h[T], n)
    PROVE  Holds(Log(c), h[T], n)
<1> DEFINE log == Log(e)
           cand == Log(c)
           k == Len(log)
           m == Len(cand)
           tl == log[k].term
           lt == cand[m].term
<1>1. /\ log \in Seq(LogEntry) /\ cand \in Seq(LogEntry) /\ k \in Nat /\ m \in Nat
      /\ h[T] \in Seq(LogEntry)
  BY EngineFields, HistoryTypes
<1>2. n >= 1 /\ n <= k /\ k \in 1 .. k /\ n \in 1 .. n /\ h[T][n].term = T
  BY <1>1 DEF Stands, Own, Holds
<1>3. tl \in Nat /\ LastTerm(e.storage) = tl /\ LastIndex(e.storage) = k
  <2>1. tl \in Nat
    BY <1>1, <1>2, EntryTerm
  <2>2. log # <<>>
    BY <1>1, <1>2
  <2> QED BY <2>1, <2>2, LastIndexIsLen, EngineFields DEF LastTerm, Log
<1>4. m \in 1 .. m /\ lt \in Nat /\ LastTerm(c.storage) = lt /\ LastIndex(c.storage) = m
  <2>1. LastIndex(c.storage) = m
    BY LastIndexIsLen, EngineFields DEF Log
  <2>2. CASE cand = <<>>
    <3>1. LastTerm(c.storage) = 0 /\ m = 0
      BY <2>2 DEF LastTerm, Log
    <3> QED BY <1>1, <1>2, <1>3, <2>1, <3>1 DEF LogIsUpToDate
  <2>3. CASE cand # <<>>
    <3>1. m \in 1 .. m
      BY <1>1, <2>3
    <3>2. lt \in Nat
      BY <1>1, <3>1, EntryTerm
    <3> QED BY <2>1, <2>3, <3>1, <3>2 DEF LastTerm, Log
  <2> QED BY <2>2, <2>3
<1>5. lt > tl \/ (lt = tl /\ m >= k)
  BY <1>3, <1>4 DEF LogIsUpToDate
<1>6. /\ Holds(log, h[tl], k) /\ Holds(cand, h[lt], m)
      /\ h[tl] \in Seq(LogEntry) /\ h[lt] \in Seq(LogEntry)
  BY <1>2, <1>3, <1>4, HistoryTypes DEF Follows
<1>7. T <= tl
  <2>1. h[tl][n] = log[n] /\ log[n] = h[T][n]
    BY <1>1, <1>2, <1>6, HoldsAt
  <2>2. n \in 1 .. Len(h[tl])
    BY <1>1, <1>2, <1>6 DEF Holds
  <2>3. h[tl][n].term <= tl
    BY <1>3, <2>2 DEF LedOk, TermsUpTo
  <2> QED BY <1>2, <2>1, <2>3
<1> HIDE DEF log, cand, k, m, tl, lt
<1>8. CASE lt = tl /\ m >= k
  <2>1. Holds(h[tl], log, k)
    BY <1>6, HoldsBack
  <2>2. Holds(cand, log, k)
    BY <1>1, <1>6, <1>8, <2>1, HoldsTrans
  <2>3. Holds(cand, h[T], n)
    BY <1>1, <1>2, <2>2, HoldsTrans DEF log
  <2> QED BY <2>3 DEF cand
<1>9. CASE lt > tl
  <2>1. h[lt] # <<>>
    BY <1>1, <1>4, <1>6 DEF Holds
  <2>2. Elected(lt) /\ T < lt
    BY <1>3, <1>4, <1>7, <1>9, <2>1 DEF ElectedLed
  <2>3. Holds(h[lt], h[T], n)
    BY <1>4, <2>2 DEF LaterLeadersHold
  <2>4. m >= n
    <3> SUFFICES ASSUME m < n PROVE FALSE
      BY <1>1
    <3>1. m \in 1 .. n /\ m \in 1 .. Len(h[T])
      BY <1>1, <1>4, <2>3 DEF Holds
    <3>2. cand[m] = h[lt][m] /\ h[lt][m] = h[T][m]
      BY <1>1, <1>4, <1>6, <2>3, <3>1, HoldsAt
    <3>3. h[T][m].term <= T
      BY <3>1 DEF LedOk, TermsUpTo
    <3>4. lt <= T
      BY <3>2, <3>3 DEF lt
    <3> QED BY <1>4, <2>2, <3>4
  <2>5. Holds(cand, h[T], n)
    BY <1>1, <1>6, <2>3, <2>4, HoldsTrans, SMTT(30)
  <2> QED BY <2>5 DEF cand
<1> QED BY <1>5, <1>8, <1>9

\* Candidates of a running election stayed what they were.
LEMMA CandidateStep ==
    ASSUME TypeOK, TypeOK', NEW i \in Voters, NodeStep(i), NEW j \in Voters,
           eng'[j].role = Candidate, CurrentTerm(eng'[j]) <= CurrentTerm(eng[j])
    PROVE  /\ eng[j].role = Candidate
           /\ CurrentTerm(eng'[j]) = CurrentTerm(eng[j])
           /\ Log(eng'[j]) = Log(eng[j])
<1>1. CASE j # i
  BY <1>1 DEF NodeStep, Moves
<1>2. CASE j = i
  <2>1. CurrentTerm(eng[i]) \in Nat /\ CurrentTerm(eng'[i]) \in Nat
    BY StepTypes
  <2>2. RoleStep(eng[i], eng'[i])
    BY DEF NodeStep
  <2>3. eng[i].role = Candidate /\ CurrentTerm(eng'[i]) = CurrentTerm(eng[i])
    BY <1>2, <2>1, <2>2 DEF RoleStep, Leader, Candidate, Follower
  <2>4. Log(eng'[i]) = Log(eng[i])
    BY <1>2, LogChanges DEF Accepts, Leader, Candidate, Follower
  <2> QED BY <1>2, <2>3, <2>4
<1> QED BY <1>1, <1>2

\* Every candidate that a node with such an entry voted for has it.
LEMMA CandidatesStillHold ==
    ASSUME TypeOK, TypeOK', NodesOk, ElectionInv',
           NEW i \in Voters, NodeStep(i),
           NEW h \in Histories, LedLogs(h), NEW g \in Histories, NewHistory(i, h, g),
           NEW a \in Tallies, TallyInv(h, a), NEW b \in Tallies, NewTally(i, a, b),
           SafeInv(h, a)
    PROVE  CandidatesHold(g, b)'
<1> SUFFICES ASSUME NEW x \in ballots', eng'[x.cand].role = Candidate,
                    CurrentTerm(eng'[x.cand]) = x.term,
                    NEW T \in Nat, NEW n \in Nat, T < x.term,
                    Stands(g, b, T, n)', b[x.voter][T] >= n
             PROVE  Holds(Log(eng'[x.cand]), g[T], n)
  BY DEF CandidatesHold, CurrentTerm, Log, Holds, AgreeUpTo
<1> DEFINE c == x.cand
           v == x.voter
<1>1. /\ c \in Voters /\ v \in Voters /\ x.term \in Nat
      /\ Log(eng[c]) \in Seq(LogEntry) /\ Log(eng'[c]) \in Seq(LogEntry)
      /\ CurrentTerm(eng[c]) \in Nat /\ CurrentTerm(eng'[v]) \in Nat
      /\ h[T] \in Seq(LogEntry) /\ Grows(h, g)
  <2>1. c \in Voters /\ v \in Voters /\ x.term \in Nat
    BY DEF TypeOK
  <2> QED BY <2>1, StepTypes, HistoryTypes DEF NewHistory
<1>2. x.term <= CurrentTerm(eng'[v])
  BY DEF ElectionInv, VotesArePersisted, CurrentTerm
<1>3. b[v][T] = a[v][T]
  BY <1>1, <1>2, TallyGrows
<1>4. ~IsNew(i, h, T, n)
  <2> SUFFICES ASSUME IsNew(i, h, T, n) PROVE FALSE
    OBVIOUS
  <2>1. v = i
    BY <1>1, NewIsOwn DEF TallyInv
  <2>2. T = CurrentTerm(eng'[i])
    BY DEF IsNew
  <2> QED BY <1>1, <1>2, <2>1, <2>2
<1>5. Stands(h, a, T, n)
  BY <1>4, StandsBack
<1>6. Holds(Log(eng'[c]), h[T], n)
  <2>1. CASE x \in ballots
    <3>1. x.term <= CurrentTerm(eng[c])
      BY <2>1 DEF SafeInv, BallotsAreOld
    <3>2. /\ eng[c].role = Candidate /\ CurrentTerm(eng[c]) = x.term
          /\ Log(eng'[c]) = Log(eng[c])
      BY <1>1, <3>1, CandidateStep
    <3>3. Holds(Log(eng[c]), h[T], n)
      BY <1>3, <1>5, <2>1, <3>2 DEF SafeInv, CandidatesHold
    <3> QED BY <3>2, <3>3
  <2>2. CASE x \notin ballots
    <3>1. /\ v = i /\ x.term = CurrentTerm(eng'[i]) /\ Log(eng'[i]) = Log(eng[i])
          /\ \/ c = i
             \/ \E r \in rpcs :
                   /\ r.to = i /\ r.from = c
                   /\ r.req \in RequestVote /\ r.req.term = x.term
                   /\ LogIsUpToDate(eng[i].storage, r.req.last_log_index,
                                    r.req.last_log_term)
      BY <2>2 DEF NodeStep, BallotStep
    <3>2. Holds(Log(eng[i]), h[T], n)
      BY <1>3, <1>5, <3>1 DEF SafeInv, TalliedIsKept
    <3>3. CASE c = i
      BY <3>1, <3>2, <3>3
    <3>4. CASE c # i
      <4>1. PICK r \in rpcs :
               /\ r.to = i /\ r.from = c
               /\ r.req \in RequestVote /\ r.req.term = x.term
               /\ LogIsUpToDate(eng[i].storage, r.req.last_log_index, r.req.last_log_term)
        BY <3>1, <3>4
      <4>2. eng'[c] = eng[c]
        BY <1>1, <3>4 DEF NodeStep, Moves
      <4>3. /\ r.req.last_log_index = LastIndex(eng[c].storage)
            /\ r.req.last_log_term = LastTerm(eng[c].storage)
        BY <4>1, <4>2 DEF SafeInv, VoteRequestsTell
      <4>4. LogIsUpToDate(eng[i].storage, LastIndex(eng[c].storage), LastTerm(eng[c].storage))
        BY <4>1, <4>3
      <4>5. /\ eng[i] \in Engine /\ eng[c] \in Engine
            /\ Contiguous(Log(eng[i])) /\ Contiguous(Log(eng[c]))
            /\ Follows(Log(eng[i]), h) /\ Follows(Log(eng[c]), h)
        BY <1>1, StepTypes DEF NodesOk, NodeOk, LedLogs, LogsFollow
      <4>6. LedOk(h) /\ ElectedLed(h) /\ LaterLeadersHold(h, a)
        BY DEF LedLogs, SafeInv
      <4>7. Holds(Log(eng[c]), h[T], n)
        BY <1>5, <3>2, <4>4, <4>5, <4>6, UpToDateHolds
      <4> QED BY <4>2, <4>7
    <3> QED BY <3>3, <3>4
  <2> QED BY <2>1, <2>2
<1> QED BY <1>1, <1>6, HoldsGrows

\* Vote requests, old and new, tell the end of the log of their candidate.
LEMMA VoteRequestsStillTell ==
    ASSUME TypeOK, TypeOK', NodesOk, NodesOk', NEW i \in Voters, NodeStep(i),
           VoteRequestsTell
    PROVE  VoteRequestsTell'
<1> SUFFICES ASSUME NEW x \in rpcs', x.req \in RequestVote
             PROVE  /\ x.req.term <= CurrentTerm(eng'[x.from])
                    /\ (/\ eng'[x.from].role = Candidate
                        /\ CurrentTerm(eng'[x.from]) = x.req.term) =>
                          /\ x.req.last_log_index = LastIndex(eng'[x.from].storage)
                          /\ x.req.last_log_term = LastTerm(eng'[x.from].storage)
  BY DEF VoteRequestsTell, CurrentTerm, LastIndex, LastTerm
<1> DEFINE c == x.from
<1>1. c \in Voters /\ x.req.term \in Nat
  BY DEF TypeOK, Rpc, RequestVote
<1>2. /\ CurrentTerm(eng[c]) \in Nat /\ CurrentTerm(eng'[c]) \in Nat
      /\ CurrentTerm(eng[c]) <= CurrentTerm(eng'[c])
  BY <1>1, TermsGrow
<1>3. CASE \E y \in rpcs : SameRpc(x, y)
  <2>1. /\ x.req.term <= CurrentTerm(eng[c])
        /\ (eng[c].role = Candidate /\ CurrentTerm(eng[c]) = x.req.term) =>
              /\ x.req.last_log_index = LastIndex(eng[c].storage)
              /\ x.req.last_log_term = LastTerm(eng[c].storage)
    BY <1>3 DEF SameRpc, VoteRequestsTell
  <2>2. ASSUME eng'[c].role = Candidate, CurrentTerm(eng'[c]) = x.req.term
        PROVE  /\ x.req.last_log_index = LastIndex(eng'[c].storage)
               /\ x.req.last_log_term = LastTerm(eng'[c].storage)
    <3>1. /\ eng[c].role = Candidate /\ CurrentTerm(eng[c]) = x.req.term
          /\ Log(eng'[c]) = Log(eng[c])
      BY <1>1, <1>2, <2>1, <2>2, CandidateStep
    <3>2. /\ LastIndex(eng'[c].storage) = LastIndex(eng[c].storage)
          /\ LastTerm(eng'[c].storage) = LastTerm(eng[c].storage)
      BY <3>1 DEF LastIndex, LastTerm, Log
    <3> QED BY <2>1, <3>1, <3>2
  <2> QED BY <1>1, <1>2, <2>1, <2>2
<1>4. CASE ~\E y \in rpcs : SameRpc(x, y)
  <2>1. x.req \notin AppendEntries
    BY DEF RequestVote, AppendEntries
  <2>2. c = i /\ x.req = VoteRequest(eng'[i], i)
    BY <1>4, <2>1 DEF NodeStep, RequestStep, FreshRpc
  <2> QED BY <1>2, <2>2 DEF VoteRequest
<1> QED BY <1>3, <1>4

\* No step grants a vote to a candidate that has not reached the term.
LEMMA BallotsAreStillOld ==
    ASSUME TypeOK, TypeOK', NEW i \in Voters, NodeStep(i), VoteRequestsTell, BallotsAreOld
    PROVE  BallotsAreOld'
<1> SUFFICES ASSUME NEW x \in ballots' PROVE x.term <= CurrentTerm(eng'[x.cand])
  BY DEF BallotsAreOld, CurrentTerm
<1>1. x.cand \in Voters /\ x.term \in Nat
  BY DEF TypeOK
<1>2. /\ CurrentTerm(eng[x.cand]) \in Nat /\ CurrentTerm(eng'[x.cand]) \in Nat
      /\ CurrentTerm(eng[x.cand]) <= CurrentTerm(eng'[x.cand])
  BY <1>1, TermsGrow
<1>3. x.term <= CurrentTerm(eng[x.cand]) \/ x.term = CurrentTerm(eng'[x.cand])
  BY DEF NodeStep, BallotStep, BallotsAreOld, VoteRequestsTell
<1> QED BY <1>1, <1>2, <1>3

-----------------------------------------------------------------------------
(***************************************************************************)
(* Committed entries.                                                      *)
(***************************************************************************)

\* An index that a leader of a term up to U committed.
Backed(h, a, c, U) ==
    c = 0 \/ \E T, n \in Nat : T <= U /\ c <= n /\ Chosen(h, a, T, n)

\* So far, this log is one that was committed.
Committed(h, a, log, c, U) ==
    c = 0 \/ \E T, n \in Nat : /\ T <= U /\ c <= n /\ Chosen(h, a, T, n)
                               /\ Holds(log, h[T], c)

NodesCommitted(h, a) ==
    \A i \in Voters :
        /\ Committed(h, a, Log(eng[i]), eng[i].commit_index, CurrentTerm(eng[i]))
        /\ Holds(applied[i], Log(eng[i]), eng[i].commit_index)

RequestsBacked(h, a) ==
    \A r \in rpcs : r.req \in AppendEntries => Backed(h, a, r.req.leader_commit, r.req.term)

CommitInv(h, a) == mixup \/ (NodesCommitted(h, a) /\ RequestsBacked(h, a))

\* An entry that was chosen stays chosen.
LEMMA ChosenGrows ==
    ASSUME TypeOK, TypeOK', NEW i \in Voters,
           NEW h \in Histories, NEW g \in Histories, Grows(h, g),
           NEW a \in Tallies, NEW b \in Tallies, NewTally(i, a, b),
           NEW T \in Nat, NEW n \in Nat, Chosen(h, a, T, n)
    PROVE  Chosen(g, b, T, n)
<1>1. PICK Q \in Majorities : \A v \in Q : a[v][T] >= n
  BY DEF Chosen
<1>2. ASSUME NEW v \in Q PROVE b[v][T] >= n
  <2>1. v \in Voters
    BY DEF Majorities
  <2>2. a[v][T] \in Nat /\ b[v][T] \in Nat /\ a[v][T] <= b[v][T]
    BY <2>1, TallyGrows
  <2> QED BY <1>1, <2>2
<1>3. Own(g, T, n)
  <2>1. n \in 1 .. Len(h[T]) /\ h[T][n].term = T
    BY DEF Chosen, Own
  <2>2. Len(h[T]) \in Nat /\ Len(g[T]) \in Nat /\ Len(h[T]) <= Len(g[T]) /\ g[T][n] = h[T][n]
    BY <2>1, GrowsLen
  <2> QED BY <2>1, <2>2 DEF Own
<1> QED BY <1>2, <1>3 DEF Chosen

\* What a majority has acknowledged may be committed.
LEMMA ChosenStands ==
    ASSUME NEW h, NEW a, NEW T, NEW n, Chosen(h, a, T, n)
    PROVE  Stands(h, a, T, n)
BY DEF Chosen, Stands, MayCommit

\* A commit stays backed in every later state and for every later term.
LEMMA BackedGrows ==
    ASSUME TypeOK, TypeOK', NEW i \in Voters,
           NEW h \in Histories, NEW g \in Histories, Grows(h, g),
           NEW a \in Tallies, NEW b \in Tallies, NewTally(i, a, b),
           NEW c, NEW U, Backed(h, a, c, U)
    PROVE  Backed(g, b, c, U)
<1>1. CASE c = 0
  BY <1>1 DEF Backed
<1>2. ASSUME NEW T \in Nat, NEW n \in Nat, T <= U, c <= n, Chosen(h, a, T, n)
      PROVE  Backed(g, b, c, U)
  BY <1>2, ChosenGrows DEF Backed
<1> QED BY <1>1, <1>2 DEF Backed

\* No step of node i takes back what node i has committed.
LEMMA CommittedStays ==
    ASSUME TypeOK, TypeOK', HintInv, NEW i \in Voters, NodeStep(i),
           NEW h \in Histories, LedLogs(h), NEW a \in Tallies, LaterLeadersHold(h, a),
           NEW T \in Nat, NEW n \in Nat, NEW c \in Nat, T <= CurrentTerm(eng[i]), c <= n,
           Chosen(h, a, T, n), Holds(Log(eng[i]), h[T], c)
    PROVE  Holds(Log(eng'[i]), h[T], c)
<1>1. /\ Log(eng'[i]) \in Seq(LogEntry) /\ Log(eng[i]) \in Seq(LogEntry)
      /\ Len(Log(eng[i])) \in Nat /\ h[T] \in Seq(LogEntry)
  BY StepTypes, HistoryTypes
<1>2. CASE Log(eng'[i]) = Log(eng[i])
  BY <1>2
<1>3. CASE GrownByOne(Log(eng[i]), Log(eng'[i]), CurrentTerm(eng[i]))
  <2>1. Holds(Log(eng'[i]), Log(eng[i]), Len(Log(eng[i])))
    BY <1>1, <1>3, GrownHolds
  <2>2. c <= Len(Log(eng[i]))
    BY DEF Holds
  <2> QED BY <1>1, <2>1, <2>2, HoldsTrans
<1>4. CASE \E r \in rpcs : Accepts(i, r)
  <2>1. PICK r \in rpcs : Accepts(i, r)
    BY <1>4
  <2>2. T <= CurrentTerm(eng'[i])
    BY TermsGrow
  <2>3. Stands(h, a, T, n)
    BY ChosenStands
  <2> QED BY <2>1, <2>2, <2>3, AcceptsKeeps
<1> QED BY <1>2, <1>3, <1>4, LogChanges

\* The application is given the log.
LEMMA AppliedIsLog ==
    ASSUME NEW e \in Engine, NEW f \in Engine, NEW s \in Seq(LogEntry), NEW apply \in Seq(LogEntry),
           Handed(e, f, apply), Len(s) = e.commit_index,
           Holds(s, Log(f), e.commit_index)
    PROVE  Holds(s \o apply, Log(f), f.commit_index)
<1> DEFINE t == s \o apply
           log == Log(f)
           c == e.commit_index
           d == f.commit_index
<1>1. /\ c \in Nat /\ d \in Nat /\ log \in Seq(LogEntry) /\ Len(log) \in Nat
      /\ Len(s) \in Nat /\ Len(apply) \in Nat
  BY EngineFields
<1>2. d >= c /\ Len(apply) = d - c /\ Len(s) = c /\ c <= Len(log)
      /\ (d > c => d <= Len(log)) /\ \A k \in 1 .. Len(apply) : apply[k] = log[c + k]
  BY DEF Handed, Holds
<1>h. Holds(s, log, c)
  OBVIOUS
<1> HIDE DEF log, c, d
<1>3. Len(t) = d /\ d <= Len(log)
  <2>1. Len(t) = Len(s) + Len(apply)
    OBVIOUS
  <2>2. Len(t) = d
    BY <1>1, <1>2, <2>1
  <2>3. d <= Len(log)
    BY <1>1, <1>2
  <2> QED BY <2>2, <2>3
<1>4. ASSUME NEW k \in 1 .. d PROVE t[k] = log[k]
  <2>1. CASE k <= c
    <3>1. t[k] = s[k]
      BY <1>1, <1>2, <2>1
    <3>2. k \in 1 .. c
      BY <2>1, <1>1
    <3>3. s[k] = log[k]
      BY <1>1, <1>h, <3>2, HoldsAt
    <3> QED BY <3>1, <3>3
  <2>2. CASE k > c
    <3>1. t[k] = apply[k - c]
      BY <1>1, <1>2, <2>2
    <3>2. k - c \in 1 .. Len(apply) /\ c + (k - c) = k
      BY <1>1, <1>2, <2>2
    <3>3. apply[k - c] = log[c + (k - c)]
      BY <1>2, <3>2
    <3> QED BY <3>1, <3>2, <3>3
  <2>3. k <= c \/ k > c
    BY <1>1
  <2> HIDE DEF t
  <2> QED BY <2>1, <2>2, <2>3
<1>5. Holds(t, log, d)
  BY <1>1, <1>3, <1>4 DEF Holds, AgreeUpTo
<1> QED BY <1>5 DEF log, d

\* A leader that counts a quorum of its books has a quorum of tallies.
LEMMA CountingChooses ==
    ASSUME TypeOK, TypeOK', NEW i \in Voters, NEW g \in Histories, NEW b \in Tallies,
           eng'[i].role = Leader, g[CurrentTerm(eng'[i])] = Log(eng'[i]),
           b[i][CurrentTerm(eng'[i])] = Len(Log(eng'[i])),
           MatchTallies(b)', ~mixup',
           NEW c \in Nat, c \in 1 .. Len(Log(eng'[i])),
           Log(eng'[i])[c].term = CurrentTerm(eng'[i]),
           1 + Cardinality({p \in OtherVoters(i) : eng'[i].match_index[p] >= c}) >= Quorum
    PROVE  Chosen(g, b, CurrentTerm(eng'[i]), c)
<1> DEFINE T == CurrentTerm(eng'[i])
           P == {p \in OtherVoters(i) : eng'[i].match_index[p] >= c}
           Q == P \cup {i}
<1>1. T \in Nat /\ eng'[i] \in Engine /\ Len(Log(eng'[i])) \in Nat
  BY StepTypes
<1>2. P \in SUBSET Voters /\ i \notin P /\ Q \in SUBSET Voters
  BY DEF OtherVoters
<1>3. IsFiniteSet(P)
  BY <1>2, VotersAssumption, FS_Subset
<1>4. Cardinality(Q) = Cardinality(P) + 1 /\ Cardinality(P) \in Nat
  <2> HIDE DEF P
  <2> QED BY <1>2, <1>3, FS_AddElement, FS_CardinalityType
<1>5. Cardinality(Q) >= Quorum
  <2>1. 1 + Cardinality(P) >= Quorum
    OBVIOUS
  <2> HIDE DEF P, Q
  <2>2. 1 + Cardinality(P) = Cardinality(P) + 1
    BY <1>4
  <2> QED BY <1>4, <2>1, <2>2
<1>6. ASSUME NEW v \in Q PROVE b[v][T] >= c
  <2>1. CASE v = i
    BY <1>1, <2>1
  <2>2. CASE v \in P
    <3>1. v \in OtherVoters(i) /\ v \in Voters /\ eng'[i].match_index[v] >= c
      BY <1>2, <2>2
    <3>2. eng'[i].match_index[v] <= b[v][T]
      BY <3>1 DEF MatchTallies, CurrentTerm
    <3>3. eng'[i].match_index[v] \in Nat /\ b[v][T] \in Nat
      <4>1. eng'[i] \in Engine
        BY DEF TypeOK
      <4> QED BY <1>1, <3>1, <4>1, EngineFields, TallyTypes
    <3> QED BY <3>1, <3>2, <3>3
  <2> QED BY <2>1, <2>2
<1>7. Q \in Majorities
  BY <1>2, <1>5 DEF Majorities
<1>8. Own(g, T, c)
  BY DEF Own
<1> HIDE DEF Q, T
<1>9. Chosen(g, b, T, c)
  BY <1>6, <1>7, <1>8 DEF Chosen
<1> QED BY <1>9 DEF T

\* After a step of a node, what every node has committed is still backed by
\* a leader of its term or an earlier one.
LEMMA NodesStillCommitted ==
    ASSUME TypeOK, TypeOK', HintInv, NodeInv, NEW i \in Voters, NodeStep(i),
           NEW h \in Histories, LedLogs(h), NEW g \in Histories, NewHistory(i, h, g),
           NEW a \in Tallies, TallyInv(h, a), NEW b \in Tallies, NewTally(i, a, b),
           TallyInv(g, b)', LaterLeadersHold(h, a),
           NodesCommitted(h, a), RequestsBacked(h, a), ~mixup'
    PROVE  NodesCommitted(g, b)'
<1> SUFFICES ASSUME NEW j \in Voters
             PROVE  /\ Committed(g, b, Log(eng'[j]), eng'[j].commit_index, CurrentTerm(eng'[j]))
                    /\ Holds(applied'[j], Log(eng'[j]), eng'[j].commit_index)
  BY DEF NodesCommitted, Committed, Chosen, Own, Majorities, CurrentTerm, Log, Holds, AgreeUpTo
<1> DEFINE c == eng[j].commit_index
           d == eng'[j].commit_index
           log == Log(eng[j])
           new == Log(eng'[j])
           now == CurrentTerm(eng'[j])
<1>0. /\ c \in Nat /\ d \in Nat /\ log \in Seq(LogEntry) /\ new \in Seq(LogEntry)
      /\ CurrentTerm(eng[j]) \in Nat /\ now \in Nat /\ CurrentTerm(eng[j]) <= now
      /\ eng[j] \in Engine /\ eng'[j] \in Engine /\ applied[j] \in Seq(LogEntry)
      /\ Grows(h, g) /\ Len(new) \in Nat
  <2>1. eng[j] \in Engine /\ eng'[j] \in Engine /\ applied[j] \in Seq(LogEntry)
    BY DEF TypeOK
  <2> QED BY <2>1, StepTypes, TermsGrow, EngineFields DEF NewHistory
<1>1. /\ Committed(h, a, log, c, CurrentTerm(eng[j]))
      /\ Holds(applied[j], log, c) /\ Len(applied[j]) = c
  BY DEF NodesCommitted, NodeInv, AppliedOk
<1> HIDE DEF c, d, log, new, now
\* What was committed still is.
<1>2. Committed(g, b, new, c, now) /\ Holds(applied[j], new, c)
  <2>1. CASE c = 0
    BY <1>0, <2>1 DEF Committed, Holds, AgreeUpTo
  <2>2. CASE c # 0
    <3>1. PICK T \in Nat, n \in Nat :
            /\ T <= CurrentTerm(eng[j]) /\ c <= n /\ Chosen(h, a, T, n)
            /\ Holds(log, h[T], c)
      BY <1>1, <2>2 DEF Committed
    <3>2. h[T] \in Seq(LogEntry)
      BY HistoryTypes
    <3>3. Holds(new, h[T], c)
      <4>1. CASE j = i
        BY <1>0, <3>1, <4>1, CommittedStays DEF log, new
      <4>2. CASE j # i
        BY <3>1, <4>2 DEF NodeStep, Moves, log, new
      <4> QED BY <4>1, <4>2
    <3>4. Holds(new, g[T], c) /\ Chosen(g, b, T, n) /\ T <= now
      BY <1>0, <3>1, <3>3, HoldsGrows, ChosenGrows
    <3>5. Holds(h[T], new, c)
      BY <3>3, HoldsBack
    <3>6. Holds(log, new, c)
      BY <1>0, <3>1, <3>2, <3>5, HoldsTrans
    <3>7. Holds(applied[j], new, c)
      BY <1>0, <1>1, <3>6, HoldsTrans
    <3> QED BY <3>1, <3>4, <3>7 DEF Committed
  <2> QED BY <2>1, <2>2
\* What is handed out is the log.
<1>3. /\ d >= c /\ (d > c => d <= Len(new)) /\ Holds(applied'[j], new, d)
  <2>1. CASE j = i
    <3>1. PICK apply \in Seq(LogEntry) :
            /\ Handed(eng[i], eng'[i], apply)
            /\ applied' = [applied EXCEPT ![i] = applied[i] \o apply]
      BY DEF NodeStep, ApplyStep
    <3>2. applied'[j] = applied[j] \o apply
      BY <2>1, <3>1 DEF TypeOK
    <3>3. Handed(eng[j], eng'[j], apply)
      BY <2>1, <3>1
    <3>4. Holds(applied[j] \o apply, new, d)
      BY <1>0, <1>1, <1>2, <3>3, AppliedIsLog DEF c, d, new
    <3> QED BY <3>2, <3>3, <3>4 DEF Handed, c, d, new
  <2>2. CASE j # i
    <3>1. d = c /\ applied'[j] = applied[j]
      BY <2>2 DEF NodeStep, Moves, ApplyStep, TypeOK, c, d
    <3> QED BY <1>0, <1>2, <3>1
  <2> QED BY <2>1, <2>2
<1>4. Committed(g, b, new, d, now)
  <2>1. CASE d = c
    BY <1>2, <2>1
  <2>2. CASE d # c
    <3>0. j = i /\ d > c
      BY <1>0, <1>3, <2>2 DEF NodeStep, Moves, c, d
    <3>1. CASE KeepsLog(i)
      <4>1. new = log /\ CommitsByCounting(eng[i], i, eng'[i])
        BY <2>2, <3>0, <3>1 DEF KeepsLog, c, d, log, new
      <4>2. /\ eng'[i].role = Leader /\ log[d].term = CurrentTerm(eng[i])
            /\ 1 + Cardinality({p \in OtherVoters(i) : eng'[i].match_index[p] >= d}) >= Quorum
        BY <3>0, <4>1 DEF CommitsByCounting, c, d, log
      <4>3. /\ now = CurrentTerm(eng[i]) /\ g[now] = new /\ b[i][now] = Len(new)
        BY <3>0, <4>2, LeaderStep DEF NewHistory, NewTally, now, new
      <4>4. d \in 1 .. Len(new)
        BY <1>0, <1>3, <3>0
      <4>5. MatchTallies(b)'
        BY DEF TallyInv
      <4>6. new[d].term = now
        BY <4>1, <4>2, <4>3
      <4>7. Chosen(g, b, now, d)
        BY <1>0, <3>0, <4>2, <4>3, <4>4, <4>5, <4>6, CountingChooses DEF now, new
      <4>8. Holds(new, g[now], d)
        BY <1>0, <4>3, <4>4, HoldsItself
      <4> QED BY <1>0, <4>7, <4>8 DEF Committed
    <3>2. CASE \E r \in rpcs : Accepts(i, r)
      <4>1. PICK r \in rpcs : Accepts(i, r)
        BY <3>2
      <4> DEFINE m == r.req
      <4>2. /\ m \in AppendEntries /\ m.term = now /\ Accepted(log, m, new)
            /\ d <= m.leader_commit /\ d <= LastNew(m)
        BY <3>0, <4>1 DEF Accepts, c, d, log, new, now
      <4>3. m.leader_commit \in Nat /\ LastNew(m) \in Nat
        BY <4>2 DEF AppendEntries, LastNew
      <4>4. Backed(h, a, m.leader_commit, m.term)
        BY <4>2 DEF RequestsBacked
      <4>5. FragmentOf(m, h[now]) /\ Follows(h[now], h) /\ Follows(log, h)
        BY <1>0, <4>2 DEF LedLogs, LedOk, RequestsFollow, LogsFollow, log
      <4>6. [term |-> now, node |-> m.leader_id] \in elected
        BY <4>2 DEF HintInv, SendersWereElected
      <4> HIDE DEF m
      <4>7. PICK T \in Nat, n \in Nat :
              T <= now /\ m.leader_commit <= n /\ Chosen(h, a, T, n)
        BY <1>0, <3>0, <4>2, <4>3, <4>4 DEF Backed
      <4>8. h[now] \in Seq(LogEntry) /\ h[T] \in Seq(LogEntry) /\ d <= n
        BY <1>0, <4>2, <4>3, <4>7, HistoryTypes
      <4>9. Holds(h[now], h[T], n)
        <5>1. Elected(now)
          BY <4>6 DEF Elected
        <5>2. Stands(h, a, T, n)
          BY <4>7, ChosenStands
        <5> QED BY <1>0, <4>7, <5>1, <5>2, LeaderHolds
      <4>10. Holds(new, h[now], LastNew(m))
        BY <1>0, <4>2, <4>5, <4>8, AcceptedFollows
      <4>11. Holds(new, h[T], d)
        BY <1>0, <4>2, <4>3, <4>8, <4>9, <4>10, HoldsTrans
      <4>12. Holds(new, g[T], d) /\ Chosen(g, b, T, n)
        BY <1>0, <4>7, <4>11, HoldsGrows, ChosenGrows
      <4> QED BY <4>7, <4>8, <4>12 DEF Committed
    <3> QED BY <3>1, <3>2 DEF NodeStep, LogStep
  <2> QED BY <2>1, <2>2
<1> QED BY <1>3, <1>4 DEF d, new, now

\* After a step of a node, so is the commit index of every AppendEntries.
LEMMA RequestsStillBacked ==
    ASSUME TypeOK, TypeOK', NEW i \in Voters, NodeStep(i),
           NEW h \in Histories, NEW g \in Histories, NewHistory(i, h, g),
           NEW a \in Tallies, NEW b \in Tallies, NewTally(i, a, b),
           RequestsBacked(h, a), NodesCommitted(g, b)'
    PROVE  RequestsBacked(g, b)'
<1> SUFFICES ASSUME NEW x \in rpcs', x.req \in AppendEntries
             PROVE  Backed(g, b, x.req.leader_commit, x.req.term)
  BY DEF RequestsBacked, Backed, Chosen, Own, Majorities
<1>1. CASE \E y \in rpcs : SameRpc(x, y)
  <2>1. Backed(h, a, x.req.leader_commit, x.req.term)
    BY <1>1 DEF SameRpc, RequestsBacked
  <2> QED BY <2>1, BackedGrows DEF NewHistory
<1>2. CASE ~\E y \in rpcs : SameRpc(x, y)
  <2>1. ~(x.req = VoteRequest(eng'[i], i))
    BY DEF VoteRequest, AppendEntries
  <2>2. x.req.term = CurrentTerm(eng'[i]) /\ x.req.leader_commit = eng'[i].commit_index
    BY <1>2, <2>1 DEF NodeStep, RequestStep
  <2>3. Committed(g, b, Log(eng'[i]), eng'[i].commit_index, CurrentTerm(eng'[i]))
    BY DEF NodesCommitted, Committed, Chosen, Own, Majorities, CurrentTerm, Log, Holds, AgreeUpTo
  <2> QED BY <2>2, <2>3 DEF Committed, Backed
<1> QED BY <1>1, <1>2

-----------------------------------------------------------------------------
(***************************************************************************)
(* The invariant, and what follows from it.                                *)
(***************************************************************************)

\* Some account of the leaders' logs and of what has been acknowledged
\* explains the state.
Explained(h, a) == LedLogs(h) /\ TallyInv(h, a) /\ SafeInv(h, a) /\ CommitInv(h, a)

LogInv == \E h \in Histories : \E a \in Tallies : Explained(h, a)

\* Empty logs explain the initial state.
LEMMA InitLogInv == Init => LogInv
<1> SUFFICES ASSUME Init PROVE LogInv
  OBVIOUS
<1> DEFINE h == [T \in Nat |-> <<>>]
           a == [v \in Voters |-> [T \in Nat |-> 0]]
<1>1. h \in Histories /\ a \in Tallies
  <2>1. <<>> \in Seq(LogEntry)
    OBVIOUS
  <2> QED BY <2>1 DEF Histories, Tallies
<1>2. \A T \in Nat : h[T] = <<>> /\ Len(h[T]) = 0
  OBVIOUS
<1>3. \A v \in Voters : \A T \in Nat : a[v][T] = 0
  OBVIOUS
<1>4. ASSUME NEW i \in Voters
      PROVE  /\ Log(eng[i]) = <<>> /\ Len(Log(eng[i])) = 0 /\ CurrentTerm(eng[i]) = 0
             /\ eng[i].role = Follower /\ eng[i].commit_index = 0 /\ applied[i] = <<>>
  BY DEF Init, NewEngine, NewStorage, Log, CurrentTerm
<1> HIDE DEF h, a
<1>5. LedLogs(h)
  <2>1. LedOk(h)
    BY <1>2 DEF LedOk, TermsUpTo, Follows
  <2>2. LogsFollow(h)
    BY <1>4 DEF LogsFollow, Follows, TermsUpTo
  <2>3. LeadersLead(h)
    BY <1>4 DEF LeadersLead, Leader, Follower
  <2>4. RequestsFollow(h) /\ ElectedLed(h) /\ ElectedOnce
    BY <1>2 DEF Init, RequestsFollow, ElectedLed, ElectedOnce
  <2> QED BY <2>1, <2>2, <2>3, <2>4 DEF LedLogs
<1>6. TallyInv(h, a)
  <2>1. TalliesFit(h, a)
    BY <1>2, <1>3 DEF TalliesFit
  <2>2. TalliesStored(h, a)
    BY <1>2, <1>3, <1>4 DEF TalliesStored, Holds, AgreeUpTo
  <2>3. LeadersTally(a) /\ MatchTallies(a)
    BY <1>4 DEF LeadersTally, MatchTallies, Leader, Follower
  <2>4. AcksTally(a)
    BY DEF Init, AcksTally
  <2> QED BY <2>1, <2>2, <2>3, <2>4 DEF TallyInv
<1>7. SafeInv(h, a)
  <2>1. ASSUME NEW T \in Nat, NEW n \in Nat PROVE ~Stands(h, a, T, n)
    BY <1>2 DEF Stands, Own
  <2>2. LaterLeadersHold(h, a) /\ TalliedIsKept(h, a) /\ CandidatesHold(h, a)
    BY <2>1 DEF LaterLeadersHold, TalliedIsKept, CandidatesHold
  <2>3. VoteRequestsTell /\ BallotsAreOld
    BY DEF Init, VoteRequestsTell, BallotsAreOld
  <2> QED BY <2>2, <2>3 DEF SafeInv
<1>8. CommitInv(h, a)
  <2>1. NodesCommitted(h, a)
    BY <1>4 DEF NodesCommitted, Committed, Holds, AgreeUpTo
  <2>2. RequestsBacked(h, a)
    BY DEF Init, RequestsBacked
  <2> QED BY <2>1, <2>2 DEF CommitInv
<1> QED BY <1>1, <1>5, <1>6, <1>7, <1>8 DEF LogInv, Explained

\* What the steps rely on besides.
Elections == TypeOK /\ ElectionInv /\ ElectionSafety /\ ElectedByVoters /\ HintInv /\ NodeInv

\* The next state is explained by what explained this one, brought up to date.
LEMMA LogInvStep ==
    ASSUME Elections, Elections', LogInv, NEW i \in Voters, NodeStep(i)
    PROVE  LogInv'
<1>0. /\ TypeOK /\ ElectionInv /\ HintInv /\ NodeInv /\ NodesOk
      /\ TypeOK' /\ ElectionInv' /\ ElectionSafety' /\ ElectedByVoters' /\ HintInv'
      /\ LeadersWereElected' /\ NodesOk'
  BY DEF Elections, NodeInv, HintInv
<1>1. PICK h \in Histories, a \in Tallies : Explained(h, a)
  BY DEF LogInv
<1>2. LedLogs(h) /\ TallyInv(h, a) /\ SafeInv(h, a) /\ CommitInv(h, a)
      /\ TalliesFit(h, a) /\ LaterLeadersHold(h, a) /\ VoteRequestsTell /\ BallotsAreOld
  BY <1>1 DEF Explained, TallyInv, SafeInv
<1>3. PICK g : g = IF eng'[i].role = Leader
                   THEN [h EXCEPT ![CurrentTerm(eng'[i])] = Log(eng'[i])] ELSE h
  OBVIOUS
<1>4. g \in Histories /\ NewHistory(i, h, g)
  BY <1>0, <1>2, <1>3, HistoryGrows
<1>5. PICK b \in Tallies : NewTally(i, a, b)
  BY <1>0, <1>2, <1>4, TallyExists
<1>6. LedLogs(g)'
  BY <1>0, <1>2, <1>4, LedLogsStep
<1>7. TallyInv(g, b)'
  BY <1>0, <1>2, <1>4, <1>5, <1>6, TallyInvStep
<1>8. SafeInv(g, b)'
  <2>1. LaterLeadersHold(g, b)'
    BY <1>0, <1>2, <1>4, <1>5, LaterLeadersStillHold
  <2>2. TalliedIsKept(g, b)'
    BY <1>0, <1>2, <1>4, <1>5, <1>7, TalliedIsStillKept
  <2>3. CandidatesHold(g, b)'
    BY <1>0, <1>2, <1>4, <1>5, CandidatesStillHold
  <2>4. VoteRequestsTell' /\ BallotsAreOld'
    BY <1>0, <1>2, VoteRequestsStillTell, BallotsAreStillOld
  <2> QED BY <2>1, <2>2, <2>3, <2>4 DEF SafeInv
<1>9. CommitInv(g, b)'
  <2>1. CASE mixup'
    BY <2>1 DEF CommitInv
  <2>2. CASE ~mixup'
    <3>1. NodesCommitted(h, a) /\ RequestsBacked(h, a)
      BY <1>2, <2>2 DEF CommitInv, NodeStep
    <3>2. NodesCommitted(g, b)'
      BY <1>0, <1>2, <1>4, <1>5, <1>7, <2>2, <3>1, NodesStillCommitted
    <3>3. RequestsBacked(g, b)'
      BY <1>0, <1>4, <1>5, <3>1, <3>2, RequestsStillBacked
    <3> QED BY <3>2, <3>3 DEF CommitInv
  <2> QED BY <2>1, <2>2
<1>10. Explained(g, b)'
  BY <1>6, <1>7, <1>8, <1>9 DEF Explained
<1> QED BY <1>4, <1>5, <1>10 DEF LogInv

\* A stuttering step is explained by the same.
LEMMA LogInvStutters ==
    ASSUME LogInv, UNCHANGED vars
    PROVE  LogInv'
<1>1. PICK h \in Histories, a \in Tallies : Explained(h, a)
  BY DEF LogInv
<1>2. LedLogs(h)'
  BY <1>1 DEF Explained, vars, LedLogs, LedOk, LogsFollow, LeadersLead, RequestsFollow,
              ElectedLed, Elected, ElectedOnce
<1>3. TallyInv(h, a)'
  BY <1>1 DEF Explained, vars, TallyInv, TalliesFit, TalliesStored, LeadersTally,
              AcksTally, MatchTallies
<1>4. \A T, n \in Nat : Stands(h, a, T, n)' <=> Stands(h, a, T, n)
  BY DEF vars, Stands, MayCommit
<1>5. SafeInv(h, a)'
  BY <1>1, <1>4 DEF Explained, vars, SafeInv, LaterLeadersHold, TalliedIsKept, CandidatesHold,
                    VoteRequestsTell, BallotsAreOld, Elected
<1>6. CommitInv(h, a)'
  BY <1>1 DEF Explained, vars, CommitInv, NodesCommitted, RequestsBacked
<1>7. Explained(h, a)'
  BY <1>2, <1>3, <1>5, <1>6 DEF Explained
<1> QED BY <1>7 DEF LogInv

\* The facts about elections and single nodes that the argument about logs
\* starts from hold in every reachable state.
THEOREM ElectionsInvariant == Spec => []Elections
BY TypeCorrect, ElectionInvariant, AtMostOneLeaderPerTerm, EveryQuorumVoted, HintInvariant,
   NodeInvariant, PTL DEF Elections

\* The logs, the acknowledgements and the commits of every execution have an
\* explanation.
THEOREM LogInvariant == Spec => []LogInv
<1>1. Elections /\ Elections' /\ LogInv /\ [Next]_vars => LogInv'
  <2> SUFFICES ASSUME Elections, Elections', LogInv, [Next]_vars PROVE LogInv'
    OBVIOUS
  <2>1. CASE Next
    <3>1. \E i \in Voters : NodeStep(i)
      BY <2>1, StepsAreNodeSteps DEF Elections, ElectionInv
    <3> QED BY <3>1, LogInvStep
  <2>2. CASE UNCHANGED vars
    BY <2>2, LogInvStutters
  <2> QED BY <2>1, <2>2
<1> QED BY <1>1, InitLogInv, ElectionsInvariant, PTL DEF Spec

\* Two logs with entries of one term at one index are one log up to it, under
\* late, repeated and reordered AppendEntries.
THEOREM LogsMatch == Spec => []LogMatching
<1>1. TypeOK /\ LogInv => LogMatching
  <2> SUFFICES ASSUME TypeOK, LogInv, NEW i \in Voters, NEW j \in Voters,
                      NEW n \in DOMAIN Log(eng[i]) \cap DOMAIN Log(eng[j]),
                      Log(eng[i])[n].term = Log(eng[j])[n].term
               PROVE  AgreeUpTo(Log(eng[i]), Log(eng[j]), n)
    BY DEF LogMatching
  <2>1. PICK h \in Histories, a \in Tallies : Explained(h, a)
    BY DEF LogInv
  <2>2. Log(eng[i]) \in Seq(LogEntry) /\ Log(eng[j]) \in Seq(LogEntry)
    BY EngineFields DEF TypeOK
  <2>3. Follows(Log(eng[i]), h) /\ Follows(Log(eng[j]), h)
    BY <2>1 DEF Explained, LedLogs, LogsFollow
  <2>4. n \in 1 .. Len(Log(eng[i])) /\ n <= Len(Log(eng[j]))
    BY <2>2
  <2>5. Holds(Log(eng[i]), Log(eng[j]), n)
    BY <2>2, <2>3, <2>4, FollowersAgree
  <2> QED BY <2>5 DEF Holds
<1> QED BY <1>1, TypeCorrect, LogInvariant, PTL

\* A node keeps what it has acknowledged for as long as it stays in the term.
THEOREM AcksAreStored == Spec => []AckedIsStored
<1>1. TypeOK /\ NodeInv /\ LogInv => AckedIsStored
  <2> SUFFICES ASSUME TypeOK, NodeInv, LogInv, NEW r \in rpcs, r.resp \in AppendEntriesResp,
                      r.resp.success, CurrentTerm(eng[r.to]) = r.req.term,
                      NEW n \in DOMAIN r.req.entries
               PROVE  /\ HasEntry(eng[r.to].storage, r.req.prev_log_index + n)
                      /\ EntryAt(eng[r.to].storage, r.req.prev_log_index + n) = r.req.entries[n]
    BY DEF AckedIsStored
  <2>1. PICK h \in Histories, a \in Tallies : Explained(h, a)
    BY DEF LogInv
  <2>2. r.resp # None /\ r.to \in Voters /\ r.resp \notin RequestVoteResp
    BY NoneIsAbsent DEF TypeOK, Rpc, Response, AppendEntriesResp, RequestVoteResp
  <2>3. r.req \in AppendEntries /\ Acks(r)
    BY <2>2 DEF NodeInv, RpcsOk, Acks
  <2> DEFINE m == r.req
             T == m.term
             log == Log(eng[r.to])
             k == m.prev_log_index + n
  <2>4. /\ T \in Nat /\ m.entries \in Seq(LogEntry) /\ m.prev_log_index \in Nat
        /\ Len(m.entries) \in Nat /\ LastNew(m) = m.prev_log_index + Len(m.entries)
        /\ log \in Seq(LogEntry) /\ a[r.to][T] \in Nat
    <3>1. eng[r.to] \in Engine
      BY <2>2 DEF TypeOK
    <3>2. T \in Nat /\ m.entries \in Seq(LogEntry) /\ m.prev_log_index \in Nat
      BY <2>3 DEF AppendEntries
    <3> HIDE DEF T
    <3>3. a[r.to][T] \in Nat
      BY <2>2, <3>2, TallyTypes
    <3> QED BY <3>1, <3>2, <3>3, EngineFields DEF LastNew
  <2>5. n \in 1 .. Len(m.entries) /\ k \in 1 .. LastNew(m)
    BY <2>4
  <2>6. LastNew(m) <= a[r.to][T] /\ Holds(log, h[T], a[r.to][T]) /\ FragmentOf(m, h[T])
    BY <2>1, <2>2, <2>3
       DEF Explained, TallyInv, AcksTally, TalliesStored, LedLogs, RequestsFollow
  <2>7. k \in 1 .. a[r.to][T] /\ k \in 1 .. Len(log)
    BY <2>4, <2>5, <2>6, SMTT(30) DEF Holds
  <2>8. log[k] = h[T][k] /\ h[T][k] = m.entries[n]
    <3>1. h[T][k] = m.entries[n]
      BY <2>5, <2>6 DEF FragmentOf
    <3> HIDE DEF log, k, T
    <3>2. log[k] = h[T][k]
      BY <2>4, <2>6, <2>7, HoldsAt
    <3> QED BY <3>1, <3>2 DEF k
  <2> QED BY <2>4, <2>7, <2>8 DEF HasEntry, EntryAt, Log
<1> QED BY <1>1, TypeCorrect, NodeInvariant, LogInvariant, PTL

\* Unless a success was credited to another AppendEntries, the books of a
\* leader tell what its peers store.
THEOREM BooksAreTrue == Spec => []MatchIsReplicated
<1>1. TypeOK /\ LogInv => MatchIsReplicated
  <2> SUFFICES ASSUME TypeOK, LogInv, ~mixup, NEW i \in Voters, eng[i].role = Leader,
                      NEW p \in OtherVoters(i), CurrentTerm(eng[p]) = CurrentTerm(eng[i])
               PROVE  /\ eng[i].match_index[p] <= Len(Log(eng[p]))
                      /\ AgreeUpTo(Log(eng[i]), Log(eng[p]), eng[i].match_index[p])
    BY DEF MatchIsReplicated
  <2>1. PICK h \in Histories, a \in Tallies : Explained(h, a)
    BY DEF LogInv
  <2> DEFINE T == CurrentTerm(eng[i])
             n == eng[i].match_index[p]
  <2>2. /\ p \in Voters /\ T \in Nat /\ n \in Nat /\ a[p][T] \in Nat
        /\ Log(eng[p]) \in Seq(LogEntry) /\ Log(eng[i]) \in Seq(LogEntry)
    <3>1. p \in Voters /\ eng[p] \in Engine /\ eng[i] \in Engine
      BY DEF OtherVoters, TypeOK
    <3>2. /\ T \in Nat /\ n \in Nat
          /\ Log(eng[p]) \in Seq(LogEntry) /\ Log(eng[i]) \in Seq(LogEntry)
      BY <3>1, EngineFields
    <3> HIDE DEF T
    <3> QED BY <3>1, <3>2, TallyTypes
  <2>3. n <= a[p][T] /\ Holds(Log(eng[p]), h[T], a[p][T]) /\ h[T] = Log(eng[i])
    BY <2>1, <2>2
       DEF Explained, TallyInv, MatchTallies, TalliesStored, LedLogs, LeadersLead
  <2>4. Holds(Log(eng[p]), Log(eng[i]), n)
    BY <2>2, <2>3, HoldsLess
  <2> QED BY <2>4, HoldsBack DEF Holds
<1> QED BY <1>1, TypeCorrect, LogInvariant, PTL

\* Two logs that were committed agree as far as both go.
LEMMA CommittedAgree ==
    ASSUME NEW h \in Histories, NEW a \in Tallies, ElectedLed(h), LaterLeadersHold(h, a),
           NEW T \in Nat, NEW n \in Nat, Chosen(h, a, T, n),
           NEW U \in Nat, NEW m \in Nat, Chosen(h, a, U, m), T <= U
    PROVE  Holds(h[U], h[T], n)
<1>1. h[U] # <<>>
  BY HistoryTypes DEF Chosen, Own
<1>2. Elected(U)
  BY <1>1 DEF ElectedLed
<1> QED BY <1>2, ChosenStands, LeaderHolds

\* Unless a success was credited to another AppendEntries, what has been
\* handed to the application is the same everywhere and stored by a majority.
THEOREM CommitsAreSafe == Spec => []CommitSafety
<1>1. TypeOK /\ NodeInv /\ LogInv => CommitSafety
  <2> SUFFICES ASSUME TypeOK, NodeInv, LogInv, ~mixup
               PROVE  StateMachineSafety /\ AppliedOnQuorum
    BY DEF CommitSafety
  <2>1. PICK h \in Histories, a \in Tallies : Explained(h, a)
    BY DEF LogInv
  <2>2. NodesCommitted(h, a) /\ LaterLeadersHold(h, a) /\ TalliedIsKept(h, a) /\ ElectedLed(h)
    BY <2>1 DEF Explained, CommitInv, SafeInv, LedLogs
  <2>3. ASSUME NEW i \in Voters, NEW k \in DOMAIN applied[i]
        PROVE  \E T, n \in Nat : /\ k \in 1 .. n /\ Chosen(h, a, T, n)
                                 /\ applied[i][k] = h[T][k]
    <3> DEFINE c == eng[i].commit_index
    <3>1. /\ c \in Nat /\ Log(eng[i]) \in Seq(LogEntry) /\ applied[i] \in Seq(LogEntry)
          /\ Len(applied[i]) = c
      BY EngineFields DEF TypeOK, NodeInv, AppliedOk
    <3>2. k \in 1 .. c
      BY <3>1
    <3>3. PICK T \in Nat, n \in Nat : c <= n /\ Chosen(h, a, T, n) /\ Holds(Log(eng[i]), h[T], c)
      BY <2>2, <3>1, <3>2 DEF NodesCommitted, Committed
    <3>4. applied[i][k] = Log(eng[i])[k] /\ Log(eng[i])[k] = h[T][k]
      BY <2>2, <3>1, <3>2, <3>3, HoldsAt DEF NodesCommitted
    <3>5. k \in 1 .. n
      BY <3>1, <3>2, <3>3
    <3> QED BY <3>3, <3>4, <3>5
  <2>4. StateMachineSafety
    <3> SUFFICES ASSUME NEW i \in Voters, NEW j \in Voters,
                        NEW k \in DOMAIN applied[i] \cap DOMAIN applied[j]
                 PROVE  applied[i][k] = applied[j][k]
      BY DEF StateMachineSafety
    <3>1. PICK T \in Nat, n \in Nat :
            k \in 1 .. n /\ Chosen(h, a, T, n) /\ applied[i][k] = h[T][k]
      BY <2>3
    <3>2. PICK U \in Nat, m \in Nat :
            k \in 1 .. m /\ Chosen(h, a, U, m) /\ applied[j][k] = h[U][k]
      BY <2>3
    <3>3. CASE T <= U
      <4>1. Holds(h[U], h[T], n)
        BY <2>2, <3>1, <3>2, <3>3, CommittedAgree
      <4> QED BY <3>1, <3>2, <4>1, HoldsAt
    <3>4. CASE U <= T
      <4>1. Holds(h[T], h[U], m)
        BY <2>2, <3>1, <3>2, <3>4, CommittedAgree
      <4> QED BY <3>1, <3>2, <4>1, HoldsAt
    <3> QED BY <3>3, <3>4
  <2>5. AppliedOnQuorum
    <3> SUFFICES ASSUME NEW i \in Voters, NEW k \in DOMAIN applied[i]
                 PROVE  Cardinality({j \in Voters : k \in DOMAIN Log(eng[j])
                                        /\ Log(eng[j])[k] = applied[i][k]}) >= Quorum
      BY DEF AppliedOnQuorum
    <3> DEFINE S == {j \in Voters : k \in DOMAIN Log(eng[j])
                                    /\ Log(eng[j])[k] = applied[i][k]}
    <3>1. PICK T \in Nat, n \in Nat :
            k \in 1 .. n /\ Chosen(h, a, T, n) /\ applied[i][k] = h[T][k]
      BY <2>3
    <3>2. PICK Q \in Majorities : \A v \in Q : a[v][T] >= n
      BY <3>1 DEF Chosen
    <3>3. ASSUME NEW v \in Q PROVE v \in S
      <4>1. v \in Voters
        BY DEF Majorities
      <4>2. Holds(Log(eng[v]), h[T], n)
        BY <2>2, <3>1, <3>2, <4>1, ChosenStands DEF TalliedIsKept
      <4>3. Log(eng[v]) \in Seq(LogEntry)
        BY <4>1, EngineFields DEF TypeOK
      <4>4. Log(eng[v])[k] = h[T][k] /\ k \in 1 .. Len(Log(eng[v]))
        BY <3>1, <4>2, <4>3, HoldsAt DEF Holds
      <4> QED BY <3>1, <4>1, <4>3, <4>4
    <3>4. Q \subseteq S /\ S \subseteq Voters
      BY <3>3
    <3> HIDE DEF S
    <3>5. IsFiniteSet(S) /\ IsFiniteSet(Q)
      BY <3>4, VotersAssumption, FS_Subset
    <3>6. Cardinality(Q) <= Cardinality(S) /\ Cardinality(Q) \in Nat /\ Cardinality(S) \in Nat
      BY <3>4, <3>5, FS_Subset, FS_CardinalityType
    <3>7. Cardinality(Q) >= Quorum /\ Quorum \in Nat
      BY VotersAssumption, FS_CardinalityType DEF Majorities, Quorum
    <3>8. Cardinality(S) >= Quorum
      BY <3>6, <3>7
    <3> QED BY <3>8 DEF S
  <2> QED BY <2>4, <2>5
<1> QED BY <1>1, TypeCorrect, NodeInvariant, LogInvariant, PTL

\* Unless a success was credited to another AppendEntries, no step changes an
\* entry that the node has committed: the debug_assert never fails.
THEOREM CommittedPrefixStays == Spec => CommittedPrefixStable
<1>1. ASSUME Elections, Elections', LogInv, Next PROVE CommittedIsKept
  <2>1. PICK i \in Voters : NodeStep(i)
    BY <1>1, StepsAreNodeSteps DEF Elections, ElectionInv
  <2>2. PICK h \in Histories, a \in Tallies : Explained(h, a)
    BY <1>1 DEF LogInv
  <2> SUFFICES ASSUME ~mixup', NEW j \in Voters
               PROVE  /\ eng[j].commit_index <= Len(Log(eng'[j]))
                      /\ AgreeUpTo(Log(eng[j]), Log(eng'[j]), eng[j].commit_index)
    BY DEF CommittedIsKept
  <2>3. TypeOK /\ TypeOK' /\ HintInv /\ LedLogs(h) /\ LaterLeadersHold(h, a) /\ ~mixup
    BY <1>1, <2>1, <2>2 DEF Elections, Explained, SafeInv, NodeStep
  <2>4. Committed(h, a, Log(eng[j]), eng[j].commit_index, CurrentTerm(eng[j]))
    BY <2>2, <2>3 DEF Explained, CommitInv, NodesCommitted
  <2> DEFINE c == eng[j].commit_index
  <2>5. c \in Nat /\ Log(eng[j]) \in Seq(LogEntry) /\ Log(eng'[j]) \in Seq(LogEntry)
        /\ Len(Log(eng'[j])) \in Nat
    BY <2>3, StepTypes, EngineFields
  <2>6. CASE c = 0
    BY <2>5, <2>6 DEF AgreeUpTo
  <2>7. CASE c # 0
    <3>1. PICK T \in Nat, n \in Nat :
            /\ T <= CurrentTerm(eng[j]) /\ c <= n /\ Chosen(h, a, T, n)
            /\ Holds(Log(eng[j]), h[T], c)
      BY <2>4, <2>7 DEF Committed
    <3>2. Holds(Log(eng'[j]), h[T], c)
      <4>1. CASE j = i
        BY <2>1, <2>3, <2>5, <3>1, <4>1, CommittedStays
      <4>2. CASE j # i
        BY <2>1, <3>1, <4>2 DEF NodeStep, Moves
      <4> QED BY <4>1, <4>2
    <3>3. h[T] \in Seq(LogEntry)
      BY HistoryTypes
    <3>4. Holds(h[T], Log(eng'[j]), c)
      BY <3>2, HoldsBack
    <3>5. Holds(Log(eng[j]), Log(eng'[j]), c)
      BY <2>5, <3>1, <3>3, <3>4, HoldsTrans
    <3> QED BY <3>5 DEF Holds
  <2> QED BY <2>6, <2>7
<1>2. Elections /\ Elections' /\ LogInv /\ [Next]_vars => [CommittedIsKept]_vars
  BY <1>1
<1> QED BY <1>2, ElectionsInvariant, LogInvariant, PTL DEF Spec, CommittedPrefixStable

-----------------------------------------------------------------------------
(***************************************************************************)
(* Orderly offices.  An answer is credited to what last_ae remembers of    *)
(* the peer, not to the request it answers.  That is right as long as an   *)
(* AppendEntries that a leader awaits is the only one to its peer and was  *)
(* sent in this office: the leader then remembers just that one.           *)
(***************************************************************************)

\* What send_append_entries_to notes in last_ae about an AppendEntries.
Remembered(m) == [prev |-> m.prev_log_index, len |-> Len(m.entries)]

\* The pending table of i holds the AppendEntries r.
Awaits(i, r) == r.from = i /\ r.waiting /\ r.req \in AppendEntries

\* An AppendEntries that the leader e awaits is the only one to its peer, is
\* marked in ae_inflight, and is the one that last_ae remembers.
Credits(e, i, R) ==
    e.role = Leader => \A r \in R : Awaits(i, r) =>
        /\ r.to \in e.ae_inflight
        /\ e.last_ae[r.to] = Remembered(r.req)
        /\ \A x \in R : Awaits(i, x) /\ x.to = r.to => x = r

\* An answer is on its way only to a node that waits for it.
AnswersAwaited == \A r \in rpcs : r.resp # None => r.waiting

\* The leader_id of an AppendEntries is its sender.
SentByLeader == \A r \in rpcs : r.req \in AppendEntries => r.req.leader_id = r.from

\* The same of every node, and of the answers under way.
Credited == AnswersAwaited /\ \A i \in Voters : Credits(eng[i], i, rpcs)

\* An answer is never to another AppendEntries than the one remembered.
CreditInv == ~mixup /\ SentByLeader /\ Credited

\* The engine and the Sends of s come from g by sending to unmarked peers: the
\* new messages, one per peer, are remembered and marked.
SendsFrom(g, s) ==
    /\ s.eng.role = g.role
    /\ s.eng.ae_inflight = g.ae_inflight \cup {x.to : x \in s.sends}
    /\ \A p \in g.ae_inflight : s.eng.last_ae[p] = g.last_ae[p]
    /\ \A x \in s.sends : /\ x.to \notin g.ae_inflight
                          /\ s.eng.last_ae[x.to] = Remembered(x.msg)
                          /\ \A y \in s.sends : y.to = x.to => y = x

\* A node that loses RPCs it awaits, and no mark of another one.
LEMMA FewerCredits ==
    ASSUME NEW e, NEW f, NEW i, NEW R, NEW Q, Credits(e, i, R),
           \A x \in Q : Awaits(i, x) => x \in R,
           f.role = Leader =>
               /\ e.role = Leader /\ f.last_ae = e.last_ae
               /\ \A x \in Q : Awaits(i, x) /\ x.to \in e.ae_inflight => x.to \in f.ae_inflight
    PROVE  Credits(f, i, Q)
BY DEF Credits

\* An RPC that is answered on its way counts as before.
LEMMA AnsweredCredits ==
    ASSUME NEW e, NEW f, NEW i, NEW R, NEW Q, Credits(e, i, R),
           NEW r \in R, NEW a, SameRpc(a, r), a.waiting <=> r.waiting,
           Q \subseteq (R \ {r}) \cup {a},
           f.role = Leader => f = e
    PROVE  Credits(f, i, Q)
<1> SUFFICES ASSUME f.role = Leader PROVE Credits(e, i, Q)
  BY DEF Credits
<1>1. Awaits(i, a) <=> Awaits(i, r)
  BY DEF Awaits, SameRpc
<1>2. a.to = r.to /\ a.req = r.req
  BY DEF SameRpc
<1>3. \A x \in Q : x = a \/ (x \in R /\ x # r)
  OBVIOUS
<1> QED BY <1>1, <1>2, <1>3 DEF Credits

\* execute_actions with AppendEntries: what was sent is remembered, and what
\* could not be sent is marked free again.
LEMMA SendsCredit ==
    ASSUME TypeOK, NEW i \in Voters, NEW rs \in SUBSET Rpc, NEW g, NEW s,
           s.eng \in Engine, Credits(g, i, rs), SendsFrom(g, s), Replicate(i, rs, s)
    PROVE  /\ Credits(eng'[i], i, rpcs')
           /\ \A j \in Voters : j # i => eng'[j] = eng[j]
           /\ \A x \in rpcs' : x \in rs \/ (x.from = i /\ x.resp = None)
<1>1. PICK conn \in Connections(rs, i) :
        /\ eng' = [eng EXCEPT ![i] = AfterTransmit(s.eng, s.sends, conn)]
        /\ rpcs' = rs \cup Opened(rs, i, Transmitted(s.sends, conn))
  BY DEF Replicate
<1> DEFINE f == AfterTransmit(s.eng, s.sends, conn)
           new == Opened(rs, i, Transmitted(s.sends, conn))
<1>2. /\ f.role = s.eng.role /\ f.last_ae = s.eng.last_ae
      /\ f.ae_inflight = s.eng.ae_inflight \ {y.to : y \in {x \in s.sends : x.to \notin conn}}
  BY DEF AfterTransmit, Engine
<1>3. eng'[i] = f /\ \A j \in Voters : j # i => eng'[j] = eng[j]
  BY <1>1, EngineAfter
<1>4. ASSUME NEW x \in new
      PROVE  \E y \in s.sends :
                /\ y.to \in conn
                /\ x = [id |-> Min(FreeIds(rs, i, y.to)), from |-> i, to |-> y.to,
                        req |-> y.msg, resp |-> None, waiting |-> TRUE]
  BY <1>4 DEF Opened, Transmitted
<1>5. ASSUME NEW x \in new
      PROVE  /\ x.from = i /\ x.resp = None
             /\ x.to \in f.ae_inflight /\ f.last_ae[x.to] = Remembered(x.req)
             /\ x.to \notin g.ae_inflight
             /\ \A z \in new : z.to = x.to => z = x
  <2>1. PICK y \in s.sends :
            /\ y.to \in conn
            /\ x = [id |-> Min(FreeIds(rs, i, y.to)), from |-> i, to |-> y.to,
                    req |-> y.msg, resp |-> None, waiting |-> TRUE]
    BY <1>4, <1>5
  <2>2. x.from = i /\ x.resp = None /\ x.to = y.to /\ x.req = y.msg
    BY <2>1
  <2>3. x.to \in f.ae_inflight
    BY <1>2, <2>1, <2>2 DEF SendsFrom
  <2>4. f.last_ae[x.to] = Remembered(x.req) /\ x.to \notin g.ae_inflight
    BY <1>2, <2>2 DEF SendsFrom
  <2>5. ASSUME NEW z \in new, z.to = x.to PROVE z = x
    <3>1. PICK w \in s.sends :
            /\ w.to \in conn
            /\ z = [id |-> Min(FreeIds(rs, i, w.to)), from |-> i, to |-> w.to,
                    req |-> w.msg, resp |-> None, waiting |-> TRUE]
      BY <1>4, <2>5
    <3>2. w.to = y.to
      BY <2>1, <2>5, <3>1
    <3>3. w = y
      BY <3>2 DEF SendsFrom
    <3> QED BY <2>1, <3>1, <3>3
  <2> QED BY <2>2, <2>3, <2>4, <2>5
<1>6. ASSUME NEW x \in rs, g.role = Leader, Awaits(i, x)
      PROVE  /\ x.to \in g.ae_inflight
             /\ x.to \in f.ae_inflight /\ f.last_ae[x.to] = Remembered(x.req)
             /\ \A z \in rs : Awaits(i, z) /\ z.to = x.to => z = x
  <2>1. x.to \in g.ae_inflight /\ g.last_ae[x.to] = Remembered(x.req)
        /\ \A z \in rs : Awaits(i, z) /\ z.to = x.to => z = x
    BY <1>6 DEF Credits
  <2>2. s.eng.last_ae[x.to] = g.last_ae[x.to] /\ x.to \in s.eng.ae_inflight
    BY <2>1 DEF SendsFrom
  <2>3. \A y \in s.sends : y.to # x.to
    BY <2>1 DEF SendsFrom
  <2>4. x.to \in f.ae_inflight
    BY <1>2, <2>2, <2>3
  <2> QED BY <1>2, <2>1, <2>2, <2>4
<1>7. rpcs' = rs \cup new
  BY <1>1
<1>8. f.role = Leader => g.role = Leader
  BY <1>2 DEF SendsFrom
<1> HIDE DEF f, new
<1>9. Credits(f, i, rpcs')
  <2> SUFFICES ASSUME f.role = Leader, NEW x \in rpcs', Awaits(i, x)
               PROVE  /\ x.to \in f.ae_inflight
                      /\ f.last_ae[x.to] = Remembered(x.req)
                      /\ \A z \in rpcs' : Awaits(i, z) /\ z.to = x.to => z = x
    BY DEF Credits
  <2>1. CASE x \in rs
    BY <1>5, <1>6, <1>7, <1>8, <2>1
  <2>2. CASE x \in new
    BY <1>5, <1>6, <1>7, <1>8, <2>2
  <2> QED BY <1>7, <2>1, <2>2
<1> QED BY <1>3, <1>5, <1>7, <1>9

\* send_append_entries_to remembers and marks what it sends.
LEMMA SendSendsFrom ==
    ASSUME NEW e \in Engine, NEW i \in Voters, NEW peers \in SUBSET Voters,
           NEW s, s = SendAppendEntries(e, i, peers)
    PROVE  SendsFrom(e, s)
<1> DEFINE ready == {p \in peers \ e.ae_inflight : CanBuild(e, p)}
           msg(p) == BuildAppendEntries(e, i, p)
           ae == [p \in Voters |-> IF p \in ready THEN Remembered(msg(p)) ELSE e.last_ae[p]]
<1>1. /\ s.eng = [e EXCEPT !.last_ae = ae, !.ae_inflight = @ \cup ready]
      /\ s.sends = {[to |-> p, msg |-> msg(p)] : p \in ready}
  BY DEF SendAppendEntries, Remembered
<1>2. ready \subseteq Voters /\ \A p \in ready : p \notin e.ae_inflight
  OBVIOUS
<1> HIDE DEF ready, msg
<1>3. \A p \in Voters : ae[p] = IF p \in ready THEN Remembered(msg(p)) ELSE e.last_ae[p]
  OBVIOUS
<1> HIDE DEF ae
<1>4. s.eng.role = e.role /\ s.eng.last_ae = ae /\ s.eng.ae_inflight = e.ae_inflight \cup ready
  BY <1>1 DEF Engine
<1>5. ASSUME NEW x \in s.sends
      PROVE  x.to \in ready /\ x = [to |-> x.to, msg |-> msg(x.to)]
  <2>1. PICK p \in ready : x = [to |-> p, msg |-> msg(p)]
    BY <1>1, <1>5
  <2> QED BY <2>1
<1>6. ASSUME NEW p \in ready PROVE \E x \in s.sends : x.to = p
  <2>1. [to |-> p, msg |-> msg(p)] \in s.sends
    BY <1>1, <1>6
  <2> QED BY <2>1
<1>7. {x.to : x \in s.sends} = ready
  BY <1>5, <1>6
<1>8. e.ae_inflight \subseteq Voters
  BY DEF Engine
<1>9. ASSUME NEW x \in s.sends
      PROVE  /\ x.to \notin e.ae_inflight
             /\ s.eng.last_ae[x.to] = Remembered(x.msg)
             /\ \A y \in s.sends : y.to = x.to => y = x
  <2>1. x.to \in ready /\ x = [to |-> x.to, msg |-> msg(x.to)]
    BY <1>5, <1>9
  <2>2. x.msg = msg(x.to)
    BY <2>1
  <2>3. ASSUME NEW y \in s.sends, y.to = x.to PROVE y = x
    BY <1>5, <2>1, <2>3
  <2> QED BY <1>2, <1>3, <1>4, <2>1, <2>2, <2>3
<1> QED BY <1>2, <1>3, <1>4, <1>7, <1>8, <1>9 DEF SendsFrom

\* The answer to the AppendEntries that is remembered frees the peer, and the
\* handler then sends to it at most once, unless the leader steps down.
LEMMA RespSendsFrom ==
    ASSUME NEW e \in Engine, NEW i \in Voters, NodeOk(e, i), NEW from \in OtherVoters(i),
           NEW m \in AppendEntriesResp, m.term >= CurrentTerm(e), e.last_ae[from] # None,
           e.role = Leader,
           NEW h, h = HandleAppendEntriesResp(e, i, from, m)
    PROVE  \/ h.eng.role = Follower /\ h.sends = {}
           \/ \E g \in Engine : /\ g.role = Leader /\ g.last_ae = e.last_ae
                                /\ g.ae_inflight = e.ae_inflight \ {from}
                                /\ SendsFrom(g, h)
<1> DEFINE quiet(f) == [eng |-> f, sends |-> {}, apply |-> <<>>]
<1>0. m.term \in Nat /\ CurrentTerm(e) \in Nat /\ from \in Voters
  BY EngineFields DEF AppendEntriesResp, OtherVoters
<1>1. CASE m.term > CurrentTerm(e)
  <2>1. h = quiet(BecomeFollower(e, m.term, None))
    BY <1>0, <1>1 DEF HandleAppendEntriesResp
  <2>2. h.eng = BecomeFollower(e, m.term, None) /\ h.sends = {}
    BY <2>1
  <2>3. h.eng.role = Follower
    BY <1>0, <1>1, <2>2, BecomeFollowerFacts
  <2> QED BY <2>2, <2>3
<1>2. CASE m.term = CurrentTerm(e)
  <2>1. h = IF m.success THEN OnSuccess(e, i, from) ELSE OnReject(e, i, from)
    BY <1>0, <1>2 DEF HandleAppendEntriesResp
  <2>2. CASE m.success
    <3> DEFINE f == CreditSuccess(e, from)
               c == MaybeCommit(f, i)
               behind == {p \in {from} : c.eng.next_index[p] <= LastIndex(c.eng.storage)}
               s == SendAppendEntries(c.eng, i, behind)
    <3>1. /\ f \in Engine /\ NodeOk(f, i) /\ SameRecord(e, f) /\ f.role = Leader
          /\ CurrentTerm(f) = CurrentTerm(e)
          /\ f.match_index = [e.match_index EXCEPT ![from] = Matched(e, from)]
          /\ f.ae_inflight = e.ae_inflight \ {from}
          /\ f.last_ae = e.last_ae
      BY CreditSuccessOk
    <3> HIDE DEF f
    <3>2. c.eng \in Engine /\ OnlyCommits(f, c.eng)
      <4>1. Contiguous(Log(f)) /\ f.last_applied = f.commit_index
        BY <3>1 DEF NodeOk
      <4> QED BY <3>1, <4>1, MaybeCommitFacts, MaybeCommitHands
    <3> HIDE DEF c
    <3>3. /\ c.eng.role = f.role
          /\ c.eng.last_ae = f.last_ae /\ c.eng.ae_inflight = f.ae_inflight
      BY <3>1, <3>2, OnlyCommitsOk
    <3>4. behind \in SUBSET Voters
      BY <1>0
    <3>5. h.eng = s.eng /\ h.sends = s.sends
      BY <2>1, <2>2 DEF OnSuccess, f, c
    <3> HIDE DEF behind
    <3>6. SendsFrom(c.eng, s)
      BY <3>2, <3>4, SendSendsFrom
    <3>7. SendsFrom(c.eng, h)
      BY <3>5, <3>6 DEF SendsFrom
    <3> QED BY <3>1, <3>2, <3>3, <3>7
  <2>3. CASE ~m.success
    <3>1. h = OnReject(e, i, from)
      BY <2>1, <2>3
    <3>2. CASE RejectIsStale(e, from)
      <4>1. h.eng = [e EXCEPT !.ae_inflight = e.ae_inflight \ {from}] /\ h.sends = {}
        BY <3>1, <3>2 DEF OnReject
      <4>2. /\ h.eng \in Engine /\ h.eng.role = Leader /\ h.eng.last_ae = e.last_ae
            /\ h.eng.ae_inflight = e.ae_inflight \ {from}
        BY <4>1 DEF Engine
      <4>3. SendsFrom(h.eng, h)
        BY <4>1 DEF SendsFrom
      <4> QED BY <4>2, <4>3
    <3>3. CASE ~RejectIsStale(e, from)
      <4> DEFINE f == StepBack(e, from)
                 one == {from}
                 s == SendAppendEntries(f, i, one)
      <4>1. /\ f \in Engine /\ f.role = Leader
            /\ f.ae_inflight = e.ae_inflight \ {from}
            /\ f.last_ae = e.last_ae
        BY <1>0, StepBackOk
      <4>2. h.eng = s.eng /\ h.sends = s.sends
        BY <3>1, <3>3 DEF OnReject
      <4>3. one \in SUBSET Voters
        BY <1>0
      <4> HIDE DEF f, one
      <4>4. SendsFrom(f, s)
        BY <4>1, <4>3, SendSendsFrom
      <4>5. SendsFrom(f, h)
        BY <4>2, <4>4 DEF SendsFrom
      <4> QED BY <4>1, <4>5
    <3> QED BY <3>2, <3>3
  <2> QED BY <2>2, <2>3
<1> QED BY <1>0, <1>1, <1>2

\* No step gives an AppendEntries another sender.
LEMMA SenderStep ==
    ASSUME TypeOK, SentByLeader, Next
    PROVE  SentByLeader'
<1> SUFFICES ASSUME NEW x \in rpcs', x.req \in AppendEntries
             PROVE  x.req.leader_id = x.from
  BY DEF SentByLeader
<1>1. ASSUME Continues(x) PROVE x.req.leader_id = x.from
  BY <1>1 DEF Continues, SentByLeader
<1>2. ASSUME NEW r \in rpcs, VotesForAnother(r) PROVE x.req.leader_id = x.from
  BY <1>1, <1>2 DEF VotesForAnother, RequestVote, AppendEntries
<1>3. ASSUME NEW i \in Voters, QuietStep(i) PROVE x.req.leader_id = x.from
  BY <1>1, <1>3 DEF QuietStep, FreshRpc
<1>4. ASSUME NEW i \in Voters, VotesForItself(i) PROVE x.req.leader_id = x.from
  BY <1>1, <1>4 DEF VotesForItself, RequestVote, AppendEntries
<1>5. ASSUME NEW r \in rpcs, CountsGrant(r.from, r) PROVE x.req.leader_id = x.from
  BY <1>1, <1>5 DEF CountsGrant
<1> QED BY <1>2, <1>3, <1>4, <1>5, BoundsAssumption, StepKinds

\* A step of node i that adds no RPC of others.
LEMMA OthersCredited ==
    ASSUME TypeOK, Credited, NEW i \in Voters,
           \A j \in Voters : j # i => eng'[j] = eng[j],
           \A x \in rpcs' : \/ x \in rpcs
                            \/ x.resp = None /\ (x.from = i \/ ~x.waiting),
           Credits(eng'[i], i, rpcs')
    PROVE  Credited'
<1>1. ASSUME NEW j \in Voters PROVE Credits(eng'[j], j, rpcs')
  <2>1. CASE j = i
    BY <2>1
  <2>2. CASE j # i
    <3>1. \A x \in rpcs' : Awaits(j, x) => x \in rpcs
      BY <2>2 DEF Awaits
    <3>2. Credits(eng[j], j, rpcs) /\ eng'[j] = eng[j]
      BY <2>2 DEF Credited
    <3> QED BY <3>1, <3>2, FewerCredits
  <2> QED BY <2>1, <2>2
<1>2. AnswersAwaited'
  BY DEF Credited, AnswersAwaited
<1> QED BY <1>1, <1>2 DEF Credited, Credits, Awaits

\* start_election: a candidate awaits no answer as a leader.
LEMMA TimeoutCredited ==
    ASSUME TypeOK, NodeInv, Credited, NEW i \in Voters, ElectionTimeout(i)
    PROVE  Credited'
<1>1. PICK f \in Engine : eng' = [eng EXCEPT ![i] = f] /\ f.role = Candidate
  BY BoundsAssumption, ElectionTimeoutFacts DEF VotesForItself
<1>2. eng'[i] = f /\ \A j \in Voters : j # i => eng'[j] = eng[j]
  BY <1>1, EngineAfter
<1>3. Credits(eng'[i], i, rpcs')
  BY <1>1, <1>2 DEF Credits, Candidate, Leader
<1>4. \A x \in rpcs' : x \in rpcs \/ (x.resp = None /\ x.from = i)
  BY DEF ElectionTimeout, Opened
<1> QED BY <1>2, <1>3, <1>4, OthersCredited

\* A leader that sends AppendEntries.
LEMMA ReplicateCredited ==
    ASSUME TypeOK, Credited, NEW i \in Voters, NEW rs \in SUBSET rpcs, NEW g, NEW s,
           s.eng \in Engine, Credits(g, i, rs), SendsFrom(g, s), Replicate(i, rs, s)
    PROVE  Credited'
<1>1. rs \in SUBSET Rpc
  BY DEF TypeOK
<1>2. /\ Credits(eng'[i], i, rpcs')
      /\ \A j \in Voters : j # i => eng'[j] = eng[j]
      /\ \A x \in rpcs' : x \in rs \/ (x.from = i /\ x.resp = None)
  BY <1>1, SendsCredit
<1> QED BY <1>2, OthersCredited

\* tick on a leader.
LEMMA HeartbeatCredited ==
    ASSUME TypeOK, Credited, NEW i \in Voters, Heartbeat(i)
    PROVE  Credited'
<1> DEFINE e == eng[i]
           peers == OtherVoters(i)
           s == SendAppendEntries(e, i, peers)
<1>1. e \in Engine /\ peers \in SUBSET Voters /\ Replicate(i, rpcs, s) /\ Credits(e, i, rpcs)
  BY DEF TypeOK, Heartbeat, OtherVoters, Credited
<1> HIDE DEF e, peers
<1>2. s.eng \in Engine /\ SendsFrom(e, s)
  BY <1>1, SendFacts, SendSendsFrom
<1> HIDE DEF s
<1> QED BY <1>1, <1>2, ReplicateCredited

\* propose on a leader.
LEMMA ProposeCredited ==
    ASSUME TypeOK, NodeInv, Credited, NEW i \in Voters, NEW data \in Data, ClientPropose(i, data)
    PROVE  Credited'
<1> DEFINE e == eng[i]
           g == ProposeEntry(e, data)
           peers == OtherVoters(i)
           s == SendAppendEntries(g, i, peers)
<1>1. /\ e \in Engine /\ peers \in SUBSET Voters /\ Replicate(i, rpcs, s)
      /\ Credits(e, i, rpcs) /\ Contiguous(Log(e))
  BY DEF TypeOK, ClientPropose, Propose, OtherVoters, Credited, NodeInv, NodesOk, NodeOk
<1> HIDE DEF e, peers
<1>2. g \in Engine /\ g = [e EXCEPT !.storage = g.storage]
  BY <1>1, ProposeEntryAppends
<1> HIDE DEF g
<1>3. g.role = e.role /\ g.last_ae = e.last_ae /\ g.ae_inflight = e.ae_inflight
  <2>1. \A t : [e EXCEPT !.storage = t].role = e.role
               /\ [e EXCEPT !.storage = t].last_ae = e.last_ae
               /\ [e EXCEPT !.storage = t].ae_inflight = e.ae_inflight
    BY <1>1 DEF Engine
  <2> QED BY <1>2, <2>1
<1>4. Credits(g, i, rpcs)
  BY <1>1, <1>3, FewerCredits
<1>5. s.eng \in Engine /\ SendsFrom(g, s)
  BY <1>1, <1>2, SendFacts, SendSendsFrom
<1> HIDE DEF s
<1> QED BY <1>1, <1>4, <1>5, ReplicateCredited

\* A request is handled: the receiver stays as it is, or leads no more.
LEMMA AnswerCredited ==
    ASSUME TypeOK, Credited, NEW r \in rpcs, NEW reply, rpcs' = Answered(r, reply),
           NEW f, eng' = [eng EXCEPT ![r.to] = f], f.role = Leader => f = eng[r.to]
    PROVE  Credited'
<1> DEFINE a == [r EXCEPT !.resp = reply]
<1>1. SameRpc(a, r) /\ a.resp = reply /\ (a.waiting <=> r.waiting) /\ r.to \in Voters
  BY DEF TypeOK, Rpc, SameRpc
<1> HIDE DEF a
<1>2. rpcs' = (rpcs \ {r}) \cup {x \in {a} : x.waiting}
  BY DEF Answered, a
<1>3. eng'[r.to] = f /\ \A j \in Voters : j # r.to => eng'[j] = eng[j]
  BY <1>1, EngineAfter
<1>4. ASSUME NEW j \in Voters PROVE Credits(eng'[j], j, rpcs')
  <2>1. eng'[j].role = Leader => eng'[j] = eng[j]
    BY <1>3
  <2>2. rpcs' \subseteq (rpcs \ {r}) \cup {a}
    BY <1>2
  <2>3. Credits(eng[j], j, rpcs)
    BY DEF Credited
  <2> QED BY <1>1, <2>1, <2>2, <2>3, AnsweredCredits
<1>5. AnswersAwaited'
  BY <1>2 DEF Credited, AnswersAwaited
<1> QED BY <1>4, <1>5 DEF Credited, Credits, Awaits

\* A lost request that nobody awaits.
LEMMA LostCredited ==
    ASSUME TypeOK, Credited, NEW r \in rpcs, RequestLost(r)
    PROVE  Credited'
<1>1. r.from \in Voters /\ \A j \in Voters : eng'[j] = eng[j]
  BY DEF TypeOK, Rpc, RequestLost
<1>2. \A x \in rpcs' : x \in rpcs
  BY DEF RequestLost
<1>3. Credits(eng[r.from], r.from, rpcs)
  BY <1>1 DEF Credited
<1>4. Credits(eng'[r.from], r.from, rpcs')
  BY <1>1, <1>2, <1>3, FewerCredits
<1> QED BY <1>1, <1>2, <1>4, OthersCredited

\* A peer is marked free again together with the only AppendEntries to it.
LEMMA GiveUpCredited ==
    ASSUME TypeOK, Credited, NEW i \in Voters, NEW p \in Voters, NEW rs \in SUBSET rpcs,
           \A r \in rs : r.from = i /\ r.to = p /\ r.waiting,
           GiveUp(i, p, rs)
    PROVE  Credited'
<1> DEFINE e == eng[i]
           fails == \E r \in rs : r.req.kind = "AppendEntries"
           f == IF fails THEN HandleRpcFailure(e, p, "AppendEntries") ELSE e
<1>1. e \in Engine /\ Credits(e, i, rpcs)
  BY DEF TypeOK, Credited
<1>2. eng'[i] = f /\ \A j \in Voters : j # i => eng'[j] = eng[j]
  <2>1. eng' = [eng EXCEPT ![i] = f]
    BY DEF GiveUp
  <2> QED BY <2>1, EngineAfter
<1>3. ASSUME NEW x \in rpcs'
      PROVE  (x \in rpcs /\ x \notin rs) \/ (x.resp = None /\ ~x.waiting)
  <2>1. CASE x \in rpcs \ rs
    BY <2>1
  <2>2. CASE x \notin rpcs \ rs
    <3>1. PICK r \in rs : r.resp = None /\ x = [r EXCEPT !.waiting = FALSE]
      BY <2>2 DEF GiveUp
    <3>2. r \in Rpc
      BY DEF TypeOK
    <3>3. x.resp = None /\ x.waiting = FALSE
      BY <3>1, <3>2 DEF Rpc
    <3> QED BY <3>3
  <2> QED BY <2>1, <2>2
<1>4. f.role = e.role /\ f.last_ae = e.last_ae
      /\ f.ae_inflight = IF fails THEN e.ae_inflight \ {p} ELSE e.ae_inflight
  BY <1>1 DEF HandleRpcFailure, Engine
<1>5. \A r \in rpcs : r.req.kind = "AppendEntries" => r.req \in AppendEntries
  BY DEF TypeOK, Rpc, Request, RequestVote, AppendEntries
<1> HIDE DEF f, e
<1>6. ASSUME NEW x \in rpcs', Awaits(i, x), e.role = Leader, x.to \in e.ae_inflight
      PROVE  x.to \in f.ae_inflight
  <2>1. x \in rpcs /\ x \notin rs
    BY <1>3, <1>6 DEF Awaits
  <2>2. ASSUME fails PROVE x.to # p
    <3>1. PICK r \in rs : r.req.kind = "AppendEntries"
      BY <2>2
    <3>2. Awaits(i, r) /\ r.to = p /\ r \in rpcs
      BY <1>5, <3>1 DEF Awaits
    <3> QED BY <1>1, <1>6, <2>1, <3>2 DEF Credits
  <2> HIDE DEF fails
  <2> QED BY <1>4, <1>6, <2>2
<1>7. Credits(f, i, rpcs')
  <2>1. \A x \in rpcs' : Awaits(i, x) => x \in rpcs
    BY <1>3 DEF Awaits
  <2> HIDE DEF fails
  <2> QED BY <1>1, <1>4, <1>6, <2>1, FewerCredits
<1> QED BY <1>2, <1>3, <1>7, OthersCredited

\* handle_request_vote.
LEMMA RequestVoteCredited ==
    ASSUME TypeOK, GrantsWereCast, NodeInv, Credited, NEW r \in rpcs, OnRequestVote(r)
    PROVE  Credited'
<1> DEFINE i == r.to
           e == eng[i]
           h == HandleRequestVote(e, r.req)
<1>1. /\ r \in Rpc /\ i \in Voters /\ e \in Engine /\ r.req \in RequestVote
      /\ NodeOk(e, i) /\ r.req.candidate_id # i
  BY DEF OnRequestVote, TypeOK, Rpc, Request, AppendEntries, RequestVote,
         NodeInv, NodesOk, GrantsWereCast, OtherVoters
<1>2. eng' = [eng EXCEPT ![r.to] = h.eng] /\ rpcs' = Answered(r, h.reply)
  BY DEF OnRequestVote
<1>3. h.eng.role = Leader => h.eng = e
  <2> HIDE DEF i, e
  <2> QED BY <1>1, HandleRequestVoteOk
<1> QED BY <1>2, <1>3, AnswerCredited

\* handle_append_entries.
LEMMA AppendEntriesCredited ==
    ASSUME TypeOK, Credited, NEW r \in rpcs, OnAppendEntries(r)
    PROVE  Credited'
<1> DEFINE e == eng[r.to]
           h == HandleAppendEntries(e, r.req)
<1>1. r \in Rpc /\ r.to \in Voters /\ e \in Engine /\ r.req \in AppendEntries
  BY DEF OnAppendEntries, TypeOK, Rpc, Request, RequestVote
<1>2. eng' = [eng EXCEPT ![r.to] = h.eng] /\ rpcs' = Answered(r, h.reply)
  BY DEF OnAppendEntries
<1>3. h.eng = e \/ h.eng.role = Follower
  <2> HIDE DEF e
  <2> QED BY <1>1, HandleAppendEntriesFacts
<1>4. h.eng.role = Leader => h.eng = e
  BY <1>3 DEF Leader, Follower
<1> QED BY <1>2, <1>4, AnswerCredited

\* Who leads after handle_request_vote_resp led before or was a candidate.
LEMMA VoteRespKeepsBooks ==
    ASSUME NEW e \in Engine, NEW i \in Voters, NEW from, NEW m \in RequestVoteResp,
           NEW f, f = HandleRequestVoteResp(e, i, from, m), f.role = Leader
    PROVE  f = e \/ (e.role = Candidate /\ CurrentTerm(f) = CurrentTerm(e))
<1>0. m.term \in Nat /\ CurrentTerm(e) \in Nat
  BY EngineFields DEF RequestVoteResp
<1>1. CASE m.term > CurrentTerm(e)
  <2>1. f = BecomeFollower(e, m.term, None)
    BY <1>0, <1>1 DEF HandleRequestVoteResp
  <2>2. f.role = Follower
    BY <1>0, <1>1, <2>1, BecomeFollowerFacts
  <2> QED BY <2>2 DEF Leader, Follower
<1>2. CASE ~(m.term > CurrentTerm(e)) /\ ~(m.term = CurrentTerm(e) /\ e.role = Candidate /\ m.vote_granted)
  BY <1>2 DEF HandleRequestVoteResp
<1>3. CASE ~(m.term > CurrentTerm(e)) /\ m.term = CurrentTerm(e) /\ e.role = Candidate /\ m.vote_granted
  <2>1. f = BecomeLeader(e, i) \/ f = [e EXCEPT !.votes = e.votes \cup {from}]
    BY <1>3 DEF HandleRequestVoteResp
  <2>2. f.storage = e.storage
    BY <2>1 DEF BecomeLeader, Engine
  <2> QED BY <1>3, <2>2 DEF CurrentTerm
<1> QED BY <1>1, <1>2, <1>3

\* handle_request_vote_resp: an office that begins without leftovers begins
\* without any AppendEntries, since nobody sends one of a term that is not won.
LEMMA VoteRespCredited ==
    ASSUME Elections, LogInv, SentByLeader, Credited, NoLeftovers',
           NEW r \in rpcs, OnRequestVoteResp(r)
    PROVE  Credited'
<1> DEFINE i == r.from
           e == eng[i]
           f == HandleRequestVoteResp(e, i, r.to, r.resp)
<1>0. TypeOK /\ SendersWereElected /\ ElectedOnce
  BY DEF Elections, HintInv, LogInv, Explained, LedLogs
<1>1. r \in Rpc /\ i \in Voters /\ e \in Engine /\ r.resp \in RequestVoteResp
  BY <1>0 DEF OnRequestVoteResp, TypeOK, Rpc, Response, AppendEntriesResp
<1>2. eng' = [eng EXCEPT ![i] = f] /\ rpcs' = rpcs \ {r}
  BY DEF OnRequestVoteResp
<1>3. eng'[i] = f /\ \A j \in Voters : j # i => eng'[j] = eng[j]
  BY <1>0, <1>1, <1>2, EngineAfter
<1>e. Credits(e, i, rpcs) /\ e = eng[i]
  BY <1>1 DEF Credited
<1>4. f.role = Leader => f = e \/ (e.role = Candidate /\ CurrentTerm(f) = CurrentTerm(e))
  <2> HIDE DEF i, e
  <2> QED BY <1>1, VoteRespKeepsBooks
<1> HIDE DEF i, e, f
<1>5. Credits(f, i, rpcs')
  <2>1. CASE f.role # Leader
    BY <2>1 DEF Credits
  <2>2. CASE f = e
    BY <1>2, <1>e, <2>2, FewerCredits
  <2>3. CASE f.role = Leader /\ e.role = Candidate /\ CurrentTerm(f) = CurrentTerm(e)
    <3> SUFFICES ASSUME NEW x \in rpcs', Awaits(i, x) PROVE FALSE
      BY DEF Credits
    <3>1. x \in rpcs /\ x.req.kind = "AppendEntries" /\ x.from = i /\ x.waiting
      BY <1>2 DEF Awaits, AppendEntries
    <3>2. x.req.term = CurrentTerm(e)
      BY <1>3, <2>3, <3>1 DEF NoLeftovers, CurrentTerm
    <3> DEFINE won == [term |-> CurrentTerm(e), node |-> i]
    <3>3. won \in elected
      BY <1>0, <3>1, <3>2 DEF Awaits, SentByLeader, SendersWereElected
    <3> QED BY <1>0, <1>e, <2>3, <3>3 DEF ElectedOnce
  <2> QED BY <1>4, <2>1, <2>2, <2>3
<1> QED BY <1>0, <1>1, <1>2, <1>3, <1>5, OthersCredited

\* handle_append_entries_resp: the answer is to the AppendEntries that last_ae
\* remembers.
LEMMA AppendRespCredited ==
    ASSUME TypeOK, NodeInv, Credited, NoLeftovers, NEW r \in rpcs, OnAppendEntriesResp(r)
    PROVE  Credited' /\ ~Misattributed(r)
<1> DEFINE i == r.from
           from == r.to
           e == eng[i]
           m == r.resp
           h == HandleAppendEntriesResp(e, i, from, m)
           rs == rpcs \ {r}
<1>1. /\ r \in Rpc /\ i \in Voters /\ e \in Engine /\ from \in OtherVoters(i)
      /\ m \in AppendEntriesResp /\ rs \in SUBSET rpcs
      /\ NodeOk(e, i) /\ m # None /\ CurrentTerm(e) \in Nat
  BY EngineFields DEF OnAppendEntriesResp, TypeOK, Rpc, Response, RequestVoteResp,
                      AppendEntriesResp, NodeInv, NodesOk
<1>2. Replicate(i, rs, h)
  BY DEF OnAppendEntriesResp
<1>3. r.req \in AppendEntries /\ m.term >= r.req.term
  BY <1>1 DEF NodeInv, RpcsOk, RequestVoteResp, AppendEntriesResp
<1>4. Awaits(i, r) /\ Credits(e, i, rpcs)
  BY <1>1, <1>3 DEF Awaits, Credited, AnswersAwaited
<1>5. ASSUME e.role = Leader
      PROVE  /\ e.last_ae[from] = Remembered(r.req)
             /\ m.term >= CurrentTerm(e)
             /\ \A x \in rs : Awaits(i, x) => x.to # from
  <2>1. r.req.term = CurrentTerm(e)
    BY <1>3, <1>4, <1>5 DEF NoLeftovers, Awaits, AppendEntries
  <2> QED BY <1>3, <1>4, <1>5, <2>1 DEF Credits
<1>6. ~Misattributed(r)
  BY <1>5 DEF Misattributed, Remembered
<1> HIDE DEF i, from, e, m, rs
<1>7. h.eng \in Engine /\ (h.eng.role = Leader => e.role = Leader)
      /\ \A x \in h.sends : e.role = Leader
  <2>1. /\ h.eng \in Engine /\ (h.eng.role = Follower \/ SameOffice(e, h.eng))
        /\ \A x \in h.sends : e.role = Leader
    BY <1>1, HandleAppendEntriesRespFacts
  <2> HIDE DEF h
  <2> QED BY <2>1 DEF SameOffice, Leader, Follower
<1>8. \E g : Credits(g, i, rs) /\ SendsFrom(g, h)
  <2>1. ASSUME h.sends = {}, h.eng.role # Leader PROVE Credits(h.eng, i, rs) /\ SendsFrom(h.eng, h)
    BY <2>1 DEF Credits, SendsFrom
  <2>2. CASE e.role # Leader
    <3>1. h.sends = {} /\ h.eng.role # Leader
      BY <1>7, <2>2
    <3> HIDE DEF h
    <3> QED BY <2>1, <3>1
  <2>3. CASE e.role = Leader
    <3>1. e.last_ae[from] # None
      <4>1. Remembered(r.req) \in [prev : Nat, len : Nat]
        BY <1>3 DEF Remembered, AppendEntries
      <4> QED BY <1>5, <2>3, <4>1, NoneIsAbsent
    <3>2. \/ h.eng.role = Follower /\ h.sends = {}
          \/ \E g \in Engine : /\ g.role = Leader /\ g.last_ae = e.last_ae
                               /\ g.ae_inflight = e.ae_inflight \ {from}
                               /\ SendsFrom(g, h)
      BY <1>1, <1>5, <2>3, <3>1, RespSendsFrom
    <3> HIDE DEF h
    <3>3. CASE h.eng.role = Follower /\ h.sends = {}
      BY <2>1, <3>3 DEF Leader, Follower
    <3>4. ASSUME NEW g \in Engine, g.role = Leader, g.last_ae = e.last_ae,
                 g.ae_inflight = e.ae_inflight \ {from}
          PROVE  Credits(g, i, rs)
      <4>1. \A x \in rs : Awaits(i, x) /\ x.to \in e.ae_inflight => x.to \in g.ae_inflight
        BY <1>5, <2>3, <3>4
      <4>2. \A x \in rs : Awaits(i, x) => x \in rpcs
        BY <1>1
      <4> QED BY <1>4, <2>3, <3>4, <4>1, <4>2, FewerCredits
    <3> QED BY <3>2, <3>3, <3>4
  <2> QED BY <2>2, <2>3
<1> HIDE DEF h
<1> QED BY <1>1, <1>2, <1>6, <1>7, <1>8, ReplicateCredited

\* Every orderly step keeps the invariant.
LEMMA CreditStep ==
    ASSUME Elections, LogInv, CreditInv, NoLeftovers, NoLeftovers', Next
    PROVE  CreditInv'
<1>0. TypeOK /\ GrantsWereCast /\ NodeInv /\ SentByLeader /\ Credited /\ ~mixup
  BY DEF Elections, ElectionInv, CreditInv
<1>1. ASSUME NEW r \in rpcs PROVE r.from \in Voters /\ r.to \in Voters
  BY <1>0 DEF TypeOK, Rpc
<1>2. SentByLeader'
  BY <1>0, SenderStep
<1>3. ASSUME NEW i \in Voters, NEW p \in OtherVoters(i), ConnectionLost(i, p)
      PROVE  Credited'
  <2> DEFINE rs == {r \in rpcs : r.from = i /\ r.to = p /\ r.waiting}
  <2>1. GiveUp(i, p, rs) /\ p \in Voters /\ rs \in SUBSET rpcs
        /\ \A r \in rs : r.from = i /\ r.to = p /\ r.waiting
    BY <1>3 DEF ConnectionLost, OtherVoters
  <2> HIDE DEF rs
  <2> QED BY <1>0, <2>1, GiveUpCredited
<1>4. ASSUME NEW r \in rpcs, RpcFails(r) PROVE Credited'
  <2> DEFINE rs == {r}
             i == r.from
             p == r.to
  <2>1. GiveUp(i, p, rs) /\ i \in Voters /\ p \in Voters /\ rs \in SUBSET rpcs
        /\ \A x \in rs : x.from = i /\ x.to = p /\ x.waiting
    BY <1>1, <1>4 DEF RpcFails
  <2> HIDE DEF rs, i, p
  <2> QED BY <1>0, <2>1, GiveUpCredited
<1>5. Credited'
  BY <1>0, <1>3, <1>4, TimeoutCredited, HeartbeatCredited, ProposeCredited,
     RequestVoteCredited, AppendEntriesCredited, VoteRespCredited, AppendRespCredited,
     LostCredited DEF Next
<1>6. ~mixup'
  <2>1. ASSUME NEW r \in rpcs, OnAppendEntriesResp(r) PROVE ~mixup'
    BY <1>0, <2>1, AppendRespCredited DEF OnAppendEntriesResp
  <2>2. ASSUME NEW i \in Voters, NEW p \in OtherVoters(i), ConnectionLost(i, p)
        PROVE  mixup' = mixup
    BY <2>2 DEF ConnectionLost, GiveUp
  <2>3. ASSUME NEW r \in rpcs, RpcFails(r) PROVE mixup' = mixup
    BY <2>3 DEF RpcFails, GiveUp
  <2> QED BY <1>0, <2>1, <2>2, <2>3 DEF Next, ElectionTimeout, Heartbeat, ClientPropose,
             OnRequestVote, OnAppendEntries, OnRequestVoteResp, RequestLost
<1> QED BY <1>2, <1>5, <1>6 DEF CreditInv

\* The history variable does not restrict the cluster.
LEMMA OrderlyIsSpec == OrderlySpec => Spec
<1>1. OrderlyInit => Init
  BY DEF OrderlyInit
<1>2. [OrderlyNext]_<<vars, orderly>> => [Next]_vars
  BY DEF OrderlyNext
<1> QED BY <1>1, <1>2, PTL DEF OrderlySpec, Spec

\* As long as every office began without leftovers, every AppendEntries a leader
\* awaits is the one that ae_inflight marks and last_ae remembers for its peer.
THEOREM CreditInvariant == OrderlySpec => [](orderly => NoLeftovers /\ CreditInv)
<1> DEFINE Inv == orderly => NoLeftovers /\ CreditInv
<1>1. OrderlyInit => Inv
  BY DEF OrderlyInit, Init, NoLeftovers, CreditInv, SentByLeader, Credited, AnswersAwaited, Credits
<1>2. Elections /\ LogInv /\ Inv /\ [OrderlyNext]_<<vars, orderly>> => Inv'
  <2> SUFFICES ASSUME Elections, LogInv, Inv, [OrderlyNext]_<<vars, orderly>>, orderly'
               PROVE  NoLeftovers' /\ CreditInv'
    OBVIOUS
  <2>1. CASE OrderlyNext
    <3>1. Next /\ orderly /\ NoLeftovers'
      BY <2>1 DEF OrderlyNext
    <3> QED BY <3>1, CreditStep
  <2>2. CASE UNCHANGED <<vars, orderly>>
    BY <2>2 DEF vars, NoLeftovers, CreditInv, SentByLeader, Credited, AnswersAwaited, Credits, Awaits
  <2> QED BY <2>1, <2>2
<1> QED BY <1>1, <1>2, OrderlyIsSpec, ElectionsInvariant, LogInvariant, PTL DEF OrderlySpec

\* No success was credited to another AppendEntries unless an office began with
\* an AppendEntries of an earlier one in the pending table: but for that, the
\* bookkeeping per peer of handle_append_entries_resp is right.
THEOREM OrderlyCredits == OrderlySpec => []CreditsMatch
<1>1. (orderly => NoLeftovers /\ CreditInv) => CreditsMatch
  BY DEF CreditInv, CreditsMatch
<1> QED BY <1>1, CreditInvariant, PTL

\* As long as every office began without leftovers, and so in every
\* implementation that clears the pending table with the role, no two nodes
\* apply different entries at one index.
THEOREM OrderlyIsSafe == OrderlySpec => [](orderly => StateMachineSafety)
<1>1. CreditsMatch /\ CommitSafety => (orderly => StateMachineSafety)
  BY DEF CreditsMatch, CommitSafety
<1> QED BY <1>1, OrderlyCredits, OrderlyIsSpec, CommitsAreSafe, PTL
=============================================================================
