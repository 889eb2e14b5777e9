----------------------------- MODULE TimerProofs -----------------------------
(***************************************************************************)
(* Theorems about the clock of one node, alone (NodeTimers) and under the  *)
(* main loop of raft-node (NodeLoop), for every choice of the timeouts and *)
(* any number of pending RPCs: types, no lost wake-up, and no "hello" of a *)
(* node that has not led for the whole stable time.                        *)
(***************************************************************************)
EXTENDS NodeLoop, WellFoundedInduction, TLAPS

Roles == {"Follower", "Candidate", "Leader"}
Events == Roles \cup {"Other"}

\* The Sleep fires no later than the deadline of the engine's role and the
\* timeout of every pending RPC; polled or not, it is never armed too late.
Covers(t, r, e, h, p) ==
    /\ t <= e
    /\ r = "Leader" => t <= h
    /\ \A s \in DOMAIN p : t <= p[s]

SleepCovers == Covers(sleep, role, election, heartbeat, pending)

WakeInv == TypeOK /\ SleepCovers /\ (asleep => registered)

\* The types of the engine's deadlines and of the pending table.
Timed(r, e, h, p) ==
    /\ r \in Roles /\ e \in 0 .. ElectionTimeout /\ h \in 0 .. HeartbeatInterval
    /\ DOMAIN p \subseteq Slots /\ \A s \in DOMAIN p : p[s] \in 0 .. RpcTimeout

\* A non-empty set of naturals has a least element, and Min is that element.
LEMMA MinOfNats ==
    ASSUME NEW S \in SUBSET Nat, S # {}
    PROVE  Min(S) \in S /\ \A y \in S : Min(S) <= y
<1> DEFINE Below == {ss \in Nat \X Nat : ss[1] < ss[2]}
<1>1. IsWellFoundedOn(Below, Nat)
  BY NatLessThanWellFounded, Zenon DEF OpToRel
<1>2. PICK x \in S : \A y \in S : ~(<<y, x>> \in Below)
  <2> HIDE DEF Below
  <2> QED BY <1>1, WFMin
<1>3. \A y \in S : x <= y
  <2> SUFFICES ASSUME NEW y \in S, y < x PROVE FALSE
    OBVIOUS
  <2>1. <<y, x>> \in Nat \X Nat /\ <<y, x>>[1] < <<y, x>>[2]
    OBVIOUS
  <2> QED BY <1>2, <2>1, Zenon
<1> QED BY <1>3 DEF Min

\* The lesser of two numbers.
LEMMA MinOfTwo ==
    ASSUME NEW a \in Int, NEW b \in Int
    PROVE  Min({a, b}) = IF a <= b THEN a ELSE b
BY DEF Min

\* earliest_wake is a time, and no later than any deadline.
LEMMA EarliestWakeCovers ==
    ASSUME TimeoutsAssumption, NEW r, NEW e, NEW h, NEW p, Timed(r, e, h, p)
    PROVE  /\ EarliestWake(r, e, h, p) \in Nat
           /\ Covers(EarliestWake(r, e, h, p), r, e, h, p)
<1> DEFINE d == NextDeadline(r, e, h)
           S == {d} \cup {p[s] : s \in DOMAIN p}
<1>1. e \in Nat /\ h \in Nat /\ \A s \in DOMAIN p : p[s] \in Nat
  BY DEF Timed, TimeoutsAssumption
<1>2. d \in Nat /\ d <= e /\ (r = "Leader" => d <= h)
  BY <1>1, MinOfTwo DEF NextDeadline
<1> HIDE DEF d
<1>3. S \in SUBSET Nat /\ S # {} /\ d \in S /\ \A s \in DOMAIN p : p[s] \in S
  BY <1>1, <1>2
<1> HIDE DEF S
<1>4. Min(S) \in Nat /\ \A y \in S : Min(S) <= y
  BY <1>3, MinOfNats
<1>5. EarliestWake(r, e, h, p) = Min(S)
  BY DEF EarliestWake, S, d
<1>6. Min(S) <= d /\ \A s \in DOMAIN p : Min(S) <= p[s]
  BY <1>3, <1>4
<1> HIDE DEF S
<1>7. Min(S) <= e /\ (r = "Leader" => Min(S) <= h)
  BY <1>1, <1>2, <1>4, <1>6
<1> QED BY <1>4, <1>5, <1>6, <1>7 DEF Covers

\* send_rpc and the removal of RPCs keep the table in order.
LEMMA TransmitTypes ==
    ASSUME TimeoutsAssumption, TypeOK, NEW gone, NEW evs \in Seq(Events), Transmit(gone, evs)
    PROVE  /\ DOMAIN pending' \subseteq Slots
           /\ \A s \in DOMAIN pending' : pending'[s] \in 0 .. RpcTimeout
           /\ dialing' \in BOOLEAN
           /\ events' \in Seq(Events)
           /\ \E more \in {<<>>, <<"Other">>} : events' = (events \o evs) \o more
<1>1. PICK S \in SUBSET (Slots \ DOMAIN pending), dial \in {dialing, TRUE} :
        /\ pending' = [s \in DOMAIN Without(gone) \cup S |->
                            IF s \in S THEN RpcTimeout ELSE pending[s]]
        /\ dialing' = dial
        /\ events' = events \o evs \o
                (IF S # {} \/ dial # dialing THEN <<"Other">> ELSE <<>>)
  BY DEF Transmit
<1>2. DOMAIN pending' \subseteq S \cup DOMAIN pending
  BY <1>1 DEF Without
<1>3. ASSUME NEW s \in DOMAIN pending' PROVE pending'[s] \in 0 .. RpcTimeout
  <2>1. pending'[s] = IF s \in S THEN RpcTimeout ELSE pending[s]
    BY <1>1, <1>3
  <2> QED BY <1>2, <1>3, <2>1 DEF TypeOK, TimeoutsAssumption
<1>4. dialing' \in BOOLEAN
  BY <1>1 DEF TypeOK
<1> DEFINE more == IF S # {} \/ dial # dialing THEN <<"Other">> ELSE <<>>
<1>5. more \in {<<>>, <<"Other">>} /\ more \in Seq(Events)
  <2>1. <<>> \in Seq(Events) /\ <<"Other">> \in Seq(Events)
    BY DEF Events
  <2> QED BY <2>1
<1>6. events' = (events \o evs) \o more
  BY <1>1
<1> HIDE DEF more
<1>7. events \in Seq(Events)
  BY DEF TypeOK, Events, Roles
<1>8. events \o evs \in Seq(Events)
  BY <1>7
<1>9. events' \in Seq(Events)
  BY <1>5, <1>6, <1>8
<1> QED BY <1>2, <1>3, <1>4, <1>5, <1>6, <1>9 DEF TypeOK

-----------------------------------------------------------------------------
(* The node by itself: one lemma per kind of step.                         *)

\* A step that arms the Sleep for the earliest deadline, whatever else it did.
LEMMA ArmedWakes ==
    ASSUME TimeoutsAssumption, Timed(role', election', heartbeat', pending'),
           dialing' \in BOOLEAN, events' \in Seq(Events),
           registered' \in BOOLEAN, asleep' \in BOOLEAN, asleep' => registered',
           sleep' = EarliestWake(role', election', heartbeat', pending')
    PROVE  WakeInv'
<1>1. sleep' \in Nat /\ Covers(sleep', role', election', heartbeat', pending')
  BY EarliestWakeCovers
<1>2. TypeOK'
  BY <1>1 DEF TypeOK, Timed, Events, Roles
<1> QED BY <1>1, <1>2 DEF WakeInv, SleepCovers, Covers

\* A step that leaves the Sleep alone and may end RPCs.
LEMMA QuietWakes ==
    ASSUME WakeInv, UNCHANGED <<engine, sleep>>,
           NEW S \in SUBSET DOMAIN pending, pending' = Without(S),
           dialing' \in BOOLEAN, events' \in Seq(Events),
           registered' \in BOOLEAN, asleep' \in BOOLEAN, asleep' => registered'
    PROVE  WakeInv'
<1>1. /\ DOMAIN pending' \subseteq DOMAIN pending
      /\ \A s \in DOMAIN pending' : pending'[s] = pending[s]
  BY DEF Without
<1>2. TypeOK'
  BY <1>1 DEF WakeInv, TypeOK, engine, Events, Roles
<1> QED BY <1>1, <1>2 DEF WakeInv, SleepCovers, Covers, engine

\* Queues of events, longer by one kind of event or by two.
LEMMA QueueTypes ==
    ASSUME TypeOK
    PROVE  /\ events \in Seq(Events)
           /\ events # <<>> => Tail(events) \in Seq(Events)
           /\ \A x \in Events : events \o <<x>> \in Seq(Events)
           /\ \A x, y \in Events : events \o <<x, y>> \in Seq(Events)
<1>1. events \in Seq(Events)
  BY DEF TypeOK, Events, Roles
<1>2. ASSUME NEW x \in Events PROVE events \o <<x>> \in Seq(Events)
  BY <1>1
<1>3. ASSUME NEW x \in Events, NEW y \in Events PROVE events \o <<x, y>> \in Seq(Events)
  BY <1>1
<1> QED BY <1>1, <1>2, <1>3

\* The RPCs that are left after some have ended.
LEMMA WithoutTypes ==
    ASSUME TypeOK, NEW S
    PROVE  /\ DOMAIN Without(S) \subseteq Slots
           /\ \A s \in DOMAIN Without(S) : Without(S)[s] \in 0 .. RpcTimeout
BY DEF TypeOK, Without

\* poll keeps the invariant.
LEMMA PollWakes ==
    ASSUME TimeoutsAssumption, WakeInv, Poll
    PROVE  WakeInv'
<1>0. TypeOK
  BY DEF WakeInv
<1>1. CASE PollReady
  BY <1>0, <1>1, QueueTypes DEF PollReady, WakeInv, TypeOK, SleepCovers, Covers, Events, Roles, engine
<1>2. CASE PollIdle
  <2>1. CASE sleep = 0 /\ ArmSleep /\ UNCHANGED asleep
    <3>1. Timed(role', election', heartbeat', pending')
      BY <1>0, <1>2, WithoutTypes DEF PollIdle, Timed, TypeOK, Roles, engine
    <3>2. asleep' = FALSE /\ registered' = FALSE /\ dialing' \in BOOLEAN /\ events' \in Seq(Events)
      BY <1>0, <1>2, <2>1, QueueTypes DEF PollIdle, ArmSleep, TypeOK
    <3> QED BY <2>1, <3>1, <3>2, ArmedWakes DEF ArmSleep
  <2>2. CASE registered' = TRUE /\ asleep' = TRUE /\ UNCHANGED sleep
    <3>1. Expired \in SUBSET DOMAIN pending
      BY DEF Expired
    <3>2. /\ UNCHANGED <<engine, sleep>> /\ pending' = Without(Expired)
          /\ dialing' \in BOOLEAN /\ events' \in Seq(Events)
      BY <1>0, <1>2, <2>2, QueueTypes DEF PollIdle, TypeOK
    <3> QED BY <2>2, <3>1, <3>2, QuietWakes
  <2> QED BY <1>2, <2>1, <2>2 DEF PollIdle
<1>3. CASE PollTick
  <2>1. /\ Timed(role', election', heartbeat', pending')
        /\ dialing' \in BOOLEAN /\ events' \in Seq(Events)
    <3>1. CASE TickElection
      <4>1. <<"Candidate">> \in Seq(Events)
        BY DEF Events, Roles
      <4>2. Transmit(Expired, <<"Candidate">>)
        BY <3>1 DEF TickElection
      <4>3. /\ role' = "Candidate" /\ election' = ElectionTimeout /\ heartbeat' = heartbeat
        BY <3>1 DEF TickElection
      <4>4. /\ DOMAIN pending' \subseteq Slots
            /\ \A s \in DOMAIN pending' : pending'[s] \in 0 .. RpcTimeout
            /\ dialing' \in BOOLEAN /\ events' \in Seq(Events)
        BY <1>0, <4>1, <4>2, TransmitTypes
      <4> QED BY <1>0, <4>3, <4>4 DEF Timed, Roles, TypeOK, TimeoutsAssumption
    <3>2. CASE TickHeartbeat
      <4>1. <<>> \in Seq(Events) /\ Transmit(Expired, <<>>)
        BY <3>2 DEF TickHeartbeat
      <4>2. /\ role' = role /\ election' = election /\ heartbeat' = HeartbeatInterval
        BY <3>2 DEF TickHeartbeat
      <4>3. /\ DOMAIN pending' \subseteq Slots
            /\ \A s \in DOMAIN pending' : pending'[s] \in 0 .. RpcTimeout
            /\ dialing' \in BOOLEAN /\ events' \in Seq(Events)
        BY <1>0, <4>1, TransmitTypes
      <4> QED BY <1>0, <4>2, <4>3 DEF Timed, Roles, TypeOK, TimeoutsAssumption
    <3>3. CASE TickNothing
      BY <1>0, <3>3, QueueTypes, WithoutTypes DEF TickNothing, Timed, Roles, TypeOK, engine
    <3> QED BY <1>3, <3>1, <3>2, <3>3 DEF PollTick
  <2>2. /\ sleep' = EarliestWake(role', election', heartbeat', pending')
        /\ registered' \in BOOLEAN /\ asleep' \in BOOLEAN /\ (asleep' => registered')
    BY <1>3 DEF PollTick
  <2> QED BY <2>1, <2>2, ArmedWakes
<1> QED BY <1>1, <1>2, <1>3 DEF Poll

\* An event of a connection that the Behaviour handles arms the Sleep; one
\* that it ignores may end RPCs.
LEMMA EventWakes ==
    ASSUME TimeoutsAssumption, WakeInv, OnEvent
    PROVE  WakeInv'
<1>0. TypeOK /\ Timed(role, election, heartbeat, pending)
  BY DEF WakeInv, TypeOK, Timed, Roles
<1>1. ASSUME HandlerEvent, Timed(role', election', heartbeat', pending'),
             dialing' \in BOOLEAN, events' \in Seq(Events)
      PROVE  WakeInv'
  BY <1>1, ArmedWakes DEF HandlerEvent, ArmSleep
<1>2. CASE OnContact
  <2>1. events' \in Seq(Events)
    <3>1. /\ "Follower" \in Events /\ "Other" \in Events
          /\ <<"Follower">> \in Seq(Events) /\ <<"Other">> \in Seq(Events) /\ <<>> \in Seq(Events)
      BY DEF Events, Roles
    <3>2. PICK evs \in {<<"Follower">>, <<>>} : events' = events \o evs \o <<"Other">>
      BY <1>2 DEF OnContact
    <3>3. events \o evs \in Seq(Events)
      <4>1. events \in Seq(Events) /\ evs \in Seq(Events)
        BY <1>0, <3>1, <3>2, QueueTypes
      <4> QED BY <4>1
    <3> QED BY <3>1, <3>2, <3>3
  <2>2. Timed(role', election', heartbeat', pending') /\ dialing' \in BOOLEAN /\ HandlerEvent
    BY <1>0, <1>2 DEF OnContact, Timed, Roles, TypeOK, TimeoutsAssumption
  <2> QED BY <1>1, <2>1, <2>2
<1>3. CASE OnLaterTerm
  <2>1. events' \in Seq(Events)
    BY <1>0, <1>3, QueueTypes DEF OnLaterTerm, Events, Roles
  <2>2. Timed(role', election', heartbeat', pending') /\ dialing' \in BOOLEAN /\ HandlerEvent
    BY <1>0, <1>3 DEF OnLaterTerm, Timed, Roles, TypeOK
  <2> QED BY <1>1, <2>1, <2>2
<1>4. CASE OnRefused
  <2>1. events' \in Seq(Events)
    BY <1>0, <1>4, QueueTypes DEF OnRefused, Events, Roles
  <2>2. Timed(role', election', heartbeat', pending') /\ dialing' \in BOOLEAN /\ HandlerEvent
    BY <1>0, <1>4 DEF OnRefused, Timed, TypeOK, engine
  <2> QED BY <1>1, <2>1, <2>2
<1>5. CASE OnSwarmEvent
  <2>1. PICK S \in SUBSET DOMAIN pending : pending' = Without(S)
    BY <1>5 DEF OnSwarmEvent
  <2>2. events' \in Seq(Events)
    BY <1>0, <1>5, QueueTypes DEF OnSwarmEvent, Events
  <2>3. /\ UNCHANGED <<engine, sleep>> /\ dialing' \in BOOLEAN
        /\ registered' \in BOOLEAN /\ asleep' = FALSE
    BY <1>0, <1>5 DEF OnSwarmEvent, TypeOK
  <2> QED BY <2>1, <2>2, <2>3, QuietWakes
<1>6. ASSUME NEW s \in Slots, OnDeposed(s) PROVE WakeInv'
  <2>1. events' \in Seq(Events)
    BY <1>0, <1>6, QueueTypes DEF OnDeposed, Events, Roles
  <2>2. Timed(role', election', heartbeat', pending') /\ dialing' \in BOOLEAN /\ HandlerEvent
    BY <1>0, <1>6, WithoutTypes DEF OnDeposed, Timed, Roles, TypeOK
  <2> QED BY <1>1, <2>1, <2>2
<1>7. ASSUME NEW s \in Slots, OnElected(s) PROVE WakeInv'
  <2>1. events' \in Seq(Events)
    BY <1>0, <1>7, QueueTypes DEF OnElected, Events, Roles
  <2>2. Timed(role', election', heartbeat', pending') /\ dialing' \in BOOLEAN /\ HandlerEvent
    BY <1>0, <1>7, WithoutTypes DEF OnElected, Timed, Roles, TypeOK, TimeoutsAssumption
  <2> QED BY <1>1, <2>1, <2>2
<1>8. ASSUME NEW s \in Slots, OnAnswer(s) PROVE WakeInv'
  <2>1. PICK evs \in {<<>>, <<"Other">>} : Transmit({s}, evs)
    BY <1>8 DEF OnAnswer
  <2>2. evs \in Seq(Events)
    <3>1. <<>> \in Seq(Events) /\ <<"Other">> \in Seq(Events)
      BY DEF Events
    <3> QED BY <3>1
  <2>3. /\ DOMAIN pending' \subseteq Slots
        /\ \A x \in DOMAIN pending' : pending'[x] \in 0 .. RpcTimeout
        /\ dialing' \in BOOLEAN /\ events' \in Seq(Events)
    BY <1>0, <2>1, <2>2, TransmitTypes
  <2>4. Timed(role', election', heartbeat', pending') /\ HandlerEvent
    BY <1>0, <1>8, <2>3 DEF OnAnswer, Timed, engine
  <2> QED BY <1>1, <2>3, <2>4
<1> QED BY <1>2, <1>3, <1>4, <1>5, <1>6, <1>7, <1>8 DEF OnEvent

\* What is left of a time after one unit of it.
LEMMA LessFacts ==
    ASSUME NEW t \in Nat
    PROVE  /\ Less(t) \in Nat /\ Less(t) <= t
           /\ \A u \in Nat : u <= t => Less(u) <= Less(t)
BY DEF Less

\* Everything that a node does, and time.
LEMMA NodeWakes ==
    ASSUME TimeoutsAssumption, WakeInv, Next
    PROVE  WakeInv'
<1>0. TypeOK /\ Timed(role, election, heartbeat, pending)
  BY DEF WakeInv, TypeOK, Timed, Roles
<1>1. CASE Poll
  BY <1>1, PollWakes
<1>2. CASE OnEvent
  BY <1>2, EventWakes
<1>3. CASE Propose
  <2>1. Transmit({}, <<>>) /\ <<>> \in Seq(Events)
    BY <1>3 DEF Propose
  <2>2. /\ DOMAIN pending' \subseteq Slots
        /\ \A x \in DOMAIN pending' : pending'[x] \in 0 .. RpcTimeout
        /\ dialing' \in BOOLEAN /\ events' \in Seq(Events)
    BY <1>0, <2>1, TransmitTypes
  <2>3. Timed(role', election', heartbeat', pending')
    BY <1>0, <1>3, <2>2 DEF Propose, Timed, engine
  <2>4. ArmSleep /\ asleep' = FALSE
    BY <1>3 DEF Propose
  <2> QED BY <2>2, <2>3, <2>4, ArmedWakes DEF ArmSleep
<1>4. CASE DialSeed
  <2>1. events' \in Seq(Events)
    BY <1>0, <1>4, QueueTypes DEF DialSeed, Events
  <2> QED BY <1>0, <1>4, <2>1 DEF DialSeed, WakeInv, TypeOK, SleepCovers, Covers, Events, Roles, engine
<1>5. CASE Pass
  <2>1. /\ election \in Nat /\ heartbeat \in Nat /\ sleep \in Nat
        /\ \A s \in DOMAIN pending : pending[s] \in Nat
    BY <1>0 DEF TypeOK, TimeoutsAssumption
  <2>2. /\ DOMAIN pending' = DOMAIN pending
        /\ \A s \in DOMAIN pending : pending'[s] = Less(pending[s])
    BY <1>5 DEF Pass
  <2>3. /\ election' \in 0 .. ElectionTimeout /\ heartbeat' \in 0 .. HeartbeatInterval
        /\ sleep' \in Nat
    <3>1. /\ Less(election) \in Nat /\ Less(election) <= election
          /\ Less(heartbeat) \in Nat /\ Less(heartbeat) <= heartbeat
          /\ Less(sleep) \in Nat
      BY <2>1, LessFacts
    <3>2. election' = Less(election) /\ heartbeat' = Less(heartbeat) /\ sleep' = Less(sleep)
      BY <1>5 DEF Pass
    <3> QED BY <1>0, <2>1, <3>1, <3>2 DEF TypeOK, TimeoutsAssumption
  <2>4. \A s \in DOMAIN pending' : pending'[s] \in 0 .. RpcTimeout
    BY <1>0, <2>1, <2>2, LessFacts DEF TypeOK, TimeoutsAssumption
  <2>5. TypeOK'
    BY <1>0, <1>5, <2>2, <2>3, <2>4 DEF Pass, TypeOK
  <2>6. SleepCovers'
    BY <1>5, <2>1, <2>2, LessFacts DEF Pass, WakeInv, SleepCovers, Covers
  <2> QED BY <1>5, <2>5, <2>6 DEF Pass, WakeInv
<1> QED BY <1>1, <1>2, <1>3, <1>4, <1>5 DEF Next

\* A new node.
LEMMA InitWakes == TimeoutsAssumption /\ Init => WakeInv
<1> SUFFICES ASSUME TimeoutsAssumption, Init PROVE WakeInv
  OBVIOUS
<1>1. DOMAIN pending = {}
  BY DEF Init
<1>2. TypeOK
  <2>1. events \in Seq({"Follower", "Candidate", "Leader", "Other"})
    BY DEF Init
  <2>2. /\ ElectionTimeout \in Nat /\ ElectionTimeout \in 0 .. ElectionTimeout
        /\ HeartbeatInterval \in 0 .. HeartbeatInterval
    BY DEF TimeoutsAssumption
  <2> QED BY <1>1, <2>1, <2>2 DEF Init, TypeOK
<1>3. Covers(ElectionTimeout, "Follower", ElectionTimeout, HeartbeatInterval, pending)
  BY <1>1 DEF Covers, TimeoutsAssumption
<1> QED BY <1>2, <1>3 DEF Init, WakeInv, SleepCovers

-----------------------------------------------------------------------------
(* The node under the main loop of raft-node.                              *)

\* To the node, every step of the loop is one of its own, or none.
LEMMA LoopSteps == [LoopNext]_allVars => [Next]_vars
<1>1. CASE UNCHANGED allVars
  BY <1>1 DEF allVars
<1>2. CASE LoopNext
  BY <1>2 DEF LoopNext, SwarmPolls, SwarmTakes, DialSeeds, SwarmReturns, Interval, Check, TimePasses,
              Next, Poll
<1> QED BY <1>1, <1>2

\* The strengthened invariant, for a node alone and for one under the loop.
THEOREM WakeInvariant == (Spec => []WakeInv) /\ (LoopSpec => []WakeInv)
<1>1. Init => WakeInv
  BY InitWakes, TimeoutsAssumption
<1>2. WakeInv /\ [Next]_vars => WakeInv'
  <2> SUFFICES ASSUME WakeInv, [Next]_vars PROVE WakeInv'
    OBVIOUS
  <2>1. CASE Next
    BY <2>1, NodeWakes, TimeoutsAssumption
  <2>2. CASE UNCHANGED vars
    BY <2>2 DEF vars, WakeInv, TypeOK, SleepCovers, Covers
  <2> QED BY <2>1, <2>2
<1>3. LoopInit => Init
  BY DEF LoopInit
<1> QED BY <1>1, <1>2, <1>3, LoopSteps, PTL DEF Spec, LoopSpec

\* Type correctness, with and without the main loop.
THEOREM TimersTyped == (Spec => []TypeOK) /\ (LoopSpec => []TypeOK)
<1>1. WakeInv => TypeOK
  BY DEF WakeInv
<1> QED BY <1>1, WakeInvariant, PTL

\* arm_sleep and poll lose no wake-up: a node that sleeps has polled a Sleep
\* that fires no later than any deadline it has to serve.
THEOREM WakesInTime == (Spec => []NoLostWakeup) /\ (LoopSpec => []NoLostWakeup)
<1>1. WakeInv => NoLostWakeup
  BY DEF WakeInv, SleepCovers, Covers, NoLostWakeup
<1> QED BY <1>1, WakeInvariant, PTL

-----------------------------------------------------------------------------
(***************************************************************************)
(* "hello".  The loss of leadership is told by an event, which handle_event *)
(* may see later.  Until it does, the node cannot lead again: it becomes a *)
(* candidate or a leader only when its queue is empty of such events.      *)
(***************************************************************************)

Demotions == {"Follower", "Candidate"}
Demotes(evs) == \E k \in 1 .. Len(evs) : evs[k] \in Demotions

\* What the loop measures is no longer than the node has led, unless the
\* event that ended the leadership is still in the queue; and then the node
\* neither leads nor sleeps.
HelloInv ==
    /\ stable_leader_since \in 0 .. StableFor \cup {None}
    /\ leading \in 0 .. StableFor \cup {None}
    /\ leading # None <=> role = "Leader"
    /\ asleep => ~Demotes(events)
    /\ role = "Leader" => ~Demotes(events)
    /\ pc = "listen" => stable_leader_since = None
    /\ (stable_leader_since # None /\ ~Demotes(events)) =>
          leading # None /\ leading >= stable_leader_since

\* Two queues, one after the other.
LEMMA DemotesAppend ==
    ASSUME NEW s \in Seq(Events), NEW t \in Seq(Events)
    PROVE  s \o t \in Seq(Events) /\ (Demotes(s \o t) <=> Demotes(s) \/ Demotes(t))
<1>1. /\ s \o t \in Seq(Events) /\ Len(s) \in Nat /\ Len(t) \in Nat
      /\ Len(s \o t) = Len(s) + Len(t)
      /\ \A k \in 1 .. Len(s) : (s \o t)[k] = s[k]
      /\ \A k \in 1 .. Len(t) : (s \o t)[Len(s) + k] = t[k]
  OBVIOUS
<1>2. ASSUME Demotes(s) PROVE Demotes(s \o t)
  <2>1. PICK k \in 1 .. Len(s) : s[k] \in Demotions
    BY <1>2 DEF Demotes
  <2>2. k \in 1 .. Len(s \o t)
    BY <1>1
  <2> QED BY <1>1, <2>1, <2>2 DEF Demotes
<1>3. ASSUME Demotes(t) PROVE Demotes(s \o t)
  <2>1. PICK k \in 1 .. Len(t) : t[k] \in Demotions
    BY <1>3 DEF Demotes
  <2>2. Len(s) + k \in 1 .. Len(s \o t)
    BY <1>1
  <2> QED BY <1>1, <2>1, <2>2 DEF Demotes
<1>4. ASSUME Demotes(s \o t) PROVE Demotes(s) \/ Demotes(t)
  <2>1. PICK k \in 1 .. Len(s \o t) : (s \o t)[k] \in Demotions
    BY <1>4 DEF Demotes
  <2>2. CASE k <= Len(s)
    BY <1>1, <2>1, <2>2 DEF Demotes
  <2>3. CASE k > Len(s)
    <3>1. k - Len(s) \in 1 .. Len(t) /\ k = Len(s) + (k - Len(s))
      BY <1>1, <2>3
    <3>2. (s \o t)[k] = t[k - Len(s)]
      BY <1>1, <3>1
    <3> QED BY <2>1, <3>1, <3>2 DEF Demotes
  <2> QED BY <1>1, <2>2, <2>3
<1> QED BY <1>1, <1>2, <1>3, <1>4

\* The queue after poll has returned its first event.
LEMMA DemotesTail ==
    ASSUME NEW s \in Seq(Events), s # <<>>
    PROVE  /\ Head(s) \in Events /\ Tail(s) \in Seq(Events)
           /\ Demotes(s) <=> Head(s) \in Demotions \/ Demotes(Tail(s))
<1>1. /\ <<Head(s)>> \in Seq(Events) /\ Tail(s) \in Seq(Events) /\ Head(s) \in Events
      /\ s = <<Head(s)>> \o Tail(s)
  OBVIOUS
<1>2. Demotes(<<Head(s)>>) <=> Head(s) \in Demotions
  BY DEF Demotes
<1>3. Demotes(<<Head(s)>> \o Tail(s)) <=> Demotes(<<Head(s)>>) \/ Demotes(Tail(s))
  BY <1>1, DemotesAppend
<1> QED BY <1>1, <1>2, <1>3

\* The queues of one or two events that the node adds to its own.
LEMMA SmallQueues ==
    /\ <<>> \in Seq(Events) /\ <<"Other">> \in Seq(Events) /\ <<"Leader">> \in Seq(Events)
    /\ <<"Follower">> \in Seq(Events) /\ <<"Candidate">> \in Seq(Events)
    /\ <<"Follower", "Other">> \in Seq(Events)
    /\ ~Demotes(<<>>) /\ ~Demotes(<<"Other">>) /\ ~Demotes(<<"Leader">>)
    /\ Demotes(<<"Follower">>) /\ Demotes(<<"Candidate">>) /\ Demotes(<<"Follower", "Other">>)
<1>1. /\ <<>> \in Seq(Events) /\ <<"Other">> \in Seq(Events) /\ <<"Leader">> \in Seq(Events)
      /\ <<"Follower">> \in Seq(Events) /\ <<"Candidate">> \in Seq(Events)
      /\ <<"Follower", "Other">> \in Seq(Events)
  BY DEF Events, Roles
<1>2. ~Demotes(<<>>) /\ ~Demotes(<<"Other">>) /\ ~Demotes(<<"Leader">>)
  BY DEF Demotes, Demotions
<1>3. Demotes(<<"Follower">>) /\ Demotes(<<"Candidate">>)
  BY DEF Demotes, Demotions
<1>4. Demotes(<<"Follower", "Other">>)
  <2>1. 1 \in 1 .. Len(<<"Follower", "Other">>) /\ <<"Follower", "Other">>[1] = "Follower"
    OBVIOUS
  <2> QED BY <2>1 DEF Demotes, Demotions
<1> QED BY <1>1, <1>2, <1>3, <1>4

-----------------------------------------------------------------------------
(* What the steps of a node that return no event mean to the main loop.    *)

Kept ==
    /\ role' = role
    /\ Demotes(events') <=> Demotes(events)
    /\ asleep' => ~Demotes(events')

Lost == role' # "Leader" /\ Demotes(events') /\ asleep' = FALSE

Won ==
    /\ role # "Leader" /\ ~Demotes(events)
    /\ role' = "Leader" /\ ~Demotes(events') /\ asleep' = FALSE

AwakeToDemotions == asleep => ~Demotes(events)

\* A step that only sends keeps the role.
LEMMA TransmitKeeps ==
    ASSUME TimeoutsAssumption, TypeOK, NEW gone, NEW evs \in Seq(Events), Transmit(gone, evs)
    PROVE  Demotes(events') <=> Demotes(events) \/ Demotes(evs)
<1>1. PICK more \in {<<>>, <<"Other">>} : events' = (events \o evs) \o more
  BY TransmitTypes
<1>2. events \in Seq(Events) /\ more \in Seq(Events) /\ ~Demotes(more)
  BY <1>1, QueueTypes, SmallQueues
<1>3. events \o evs \in Seq(Events) /\ (Demotes(events \o evs) <=> Demotes(events) \/ Demotes(evs))
  BY <1>2, DemotesAppend
<1>4. Demotes((events \o evs) \o more) <=> Demotes(events \o evs) \/ Demotes(more)
  BY <1>2, <1>3, DemotesAppend
<1> QED BY <1>1, <1>2, <1>3, <1>4

\* Polls that return no event.
LEMMA PollTells ==
    ASSUME TimeoutsAssumption, TypeOK, AwakeToDemotions, PollIdle \/ PollTick
    PROVE  Kept \/ Lost
<1>1. ~asleep /\ events = <<>> /\ ~Demotes(events)
  BY SmallQueues DEF PollIdle, PollTick
<1>2. CASE PollIdle
  BY <1>1, <1>2 DEF PollIdle, Kept, engine
<1>3. CASE PollTick /\ TickElection
  <2>1. Transmit(Expired, <<"Candidate">>) /\ role' = "Candidate"
    BY <1>3 DEF TickElection
  <2>2. Demotes(events')
    BY <2>1, SmallQueues, TransmitKeeps
  <2>3. events' # <<>>
    BY <2>2, SmallQueues
  <2> QED BY <1>3, <2>1, <2>2, <2>3 DEF PollTick, Lost
<1>4. CASE PollTick /\ TickHeartbeat
  <2>1. Transmit(Expired, <<>>) /\ role' = role
    BY <1>4 DEF TickHeartbeat
  <2>2. Demotes(events') <=> Demotes(events)
    BY <2>1, SmallQueues, TransmitKeeps
  <2> QED BY <1>1, <2>1, <2>2 DEF Kept
<1>5. CASE PollTick /\ TickNothing
  BY <1>1, <1>5 DEF TickNothing, Kept, engine
<1> QED BY <1>2, <1>3, <1>4, <1>5 DEF PollTick

\* Events of connections: leadership is won only with no loss of it untold.
LEMMA EventTells ==
    ASSUME TimeoutsAssumption, TypeOK, AwakeToDemotions, OnEvent
    PROVE  Kept \/ Lost \/ Won
<1>0. events \in Seq(Events)
  BY QueueTypes
<1>1. asleep /\ asleep' = FALSE /\ ~Demotes(events)
  BY DEF OnEvent, OnContact, OnLaterTerm, OnRefused, OnSwarmEvent, OnDeposed, OnElected, OnAnswer,
         HandlerEvent, AwakeToDemotions
<1>2. CASE OnContact
  <2>1. role' = "Follower"
    BY <1>2 DEF OnContact
  <2>2. PICK evs \in {<<"Follower">>} \cup {x \in {<<>>} : role = "Follower"} :
          events' = events \o evs \o <<"Other">>
    BY <1>2 DEF OnContact
  <2>3. evs \in Seq(Events)
    BY <2>2, SmallQueues
  <2>4. events \o evs \in Seq(Events) /\ (Demotes(events \o evs) <=> Demotes(evs))
    BY <1>0, <1>1, <2>3, DemotesAppend
  <2>5. Demotes(events') <=> Demotes(evs)
    BY <2>2, <2>4, DemotesAppend, SmallQueues
  <2>6. CASE evs = <<"Follower">>
    BY <1>1, <2>1, <2>5, <2>6, SmallQueues DEF Lost
  <2>7. CASE evs = <<>> /\ role = "Follower"
    BY <1>1, <2>1, <2>5, <2>7, SmallQueues DEF Kept
  <2> QED BY <2>2, <2>6, <2>7
<1>3. CASE OnLaterTerm
  <2>1. events' = events \o <<"Follower", "Other">> /\ role' = "Follower"
    BY <1>3 DEF OnLaterTerm
  <2>2. Demotes(events')
    <3> DEFINE more == <<"Follower", "Other">>
    <3>1. more \in Seq(Events) /\ Demotes(more) /\ events' = events \o more
      BY <2>1, SmallQueues
    <3> HIDE DEF more
    <3> QED BY <1>0, <3>1, DemotesAppend
  <2> QED BY <1>1, <2>1, <2>2 DEF Lost
<1>4. CASE OnRefused
  <2>1. events' = events \o <<"Other">> /\ role' = role
    BY <1>4 DEF OnRefused, engine
  <2>2. Demotes(events') <=> Demotes(events)
    BY <1>0, <2>1, DemotesAppend, SmallQueues
  <2> QED BY <1>1, <2>1, <2>2 DEF Kept
<1>5. CASE OnSwarmEvent
  <2>1. Demotes(events \o <<"Other">>) <=> Demotes(events)
    BY <1>0, DemotesAppend, SmallQueues
  <2>2. events' \in {events, events \o <<"Other">>} /\ role' = role
    BY <1>5 DEF OnSwarmEvent, engine
  <2>3. Demotes(events') <=> Demotes(events)
    BY <2>1, <2>2
  <2> QED BY <1>1, <2>2, <2>3 DEF Kept
<1>6. ASSUME NEW s \in Slots, OnDeposed(s) PROVE Lost
  <2>1. events' = events \o <<"Follower">> /\ role' = "Follower"
    BY <1>6 DEF OnDeposed
  <2>2. Demotes(events')
    BY <1>0, <2>1, DemotesAppend, SmallQueues
  <2> QED BY <1>1, <2>1, <2>2 DEF Lost
<1>7. ASSUME NEW s \in Slots, OnElected(s) PROVE Won
  <2>1. events' = events \o <<"Leader">> /\ role' = "Leader" /\ role # "Leader"
    BY <1>7 DEF OnElected
  <2>2. ~Demotes(events')
    BY <1>0, <1>1, <2>1, DemotesAppend, SmallQueues
  <2> QED BY <1>1, <2>1, <2>2 DEF Won
<1>8. ASSUME NEW s \in Slots, OnAnswer(s) PROVE Kept
  <2>1. PICK evs \in {<<>>, <<"Other">>} : Transmit({s}, evs)
    BY <1>8 DEF OnAnswer
  <2>2. Demotes(events') <=> Demotes(events)
    BY <2>1, SmallQueues, TransmitKeeps
  <2> QED BY <1>1, <1>8, <2>2 DEF OnAnswer, Kept, engine
<1> QED BY <1>2, <1>3, <1>4, <1>5, <1>6, <1>7, <1>8 DEF OnEvent

\* The main loop hands nothing to handle_event in these steps.
LEMMA LoopKeepsHello ==
    ASSUME StableAssumption, HelloInv, Kept \/ Lost \/ Won, Lead,
           stable_leader_since' = stable_leader_since, pc' = "listen" => pc = "listen"
    PROVE  HelloInv'
<1>1. CASE Kept
  <2>1. leading' = leading
    BY <1>1 DEF Kept, Lead, HelloInv
  <2> QED BY <1>1, <2>1 DEF Kept, HelloInv
<1>2. CASE Lost
  <2>1. leading' = None
    BY <1>2 DEF Lost, Lead
  <2> QED BY <1>2, <2>1 DEF Lost, HelloInv
<1>3. CASE Won
  <2>1. leading' = 0 /\ stable_leader_since = None
    BY <1>3 DEF Won, Lead, HelloInv
  <2>2. 0 \in 0 .. StableFor /\ 0 # None
    BY DEF StableAssumption
  <2> QED BY <1>3, <2>1, <2>2 DEF Won, HelloInv
<1> QED BY <1>1, <1>2, <1>3

\* The queue loses its first event, which is handled unless it means nothing.
LEMMA ReadyKeepsHello ==
    ASSUME TypeOK, HelloInv, PollReady, Lead, pc' = "listen" => pc = "listen",
           \/ stable_leader_since' = HandleEvent(Head(events))
           \/ /\ stable_leader_since' = stable_leader_since
              /\ pc = "listen" \/ Head(events) = "Other"
    PROVE  HelloInv'
<1>1. ~asleep /\ asleep' = asleep /\ role' = role /\ events # <<>> /\ events' = Tail(events)
  BY DEF PollReady, engine
<1>2. leading' = leading
  BY <1>1 DEF Lead, HelloInv
<1>3. Demotes(events) <=> Head(events) \in Demotions \/ Demotes(events')
  BY <1>1, QueueTypes, DemotesTail
<1>4. Demotes(events') => Demotes(events)
  BY <1>3
<1>5. CASE stable_leader_since' = None
  BY <1>1, <1>2, <1>4, <1>5 DEF HelloInv
<1>6. CASE stable_leader_since' = stable_leader_since /\ Head(events) \notin Demotions
  BY <1>1, <1>2, <1>3, <1>6 DEF HelloInv
<1>7. stable_leader_since' = None \/
      (stable_leader_since' = stable_leader_since /\ Head(events) \notin Demotions)
  BY DEF HelloInv, HandleEvent, Demotions
<1> QED BY <1>5, <1>6, <1>7

\* The time of a node that leads, and the one that the loop keeps.
LEMMA LaterFacts ==
    ASSUME StableAssumption, NEW t \in 0 .. StableFor
    PROVE  /\ Later(t) \in 0 .. StableFor /\ Later(t) # None
           /\ \A u \in 0 .. StableFor : u >= t => Later(u) >= Later(t)
           /\ Later(None) = None
<1>1. \A u \in 0 .. StableFor : Later(u) = IF u + 1 <= StableFor THEN u + 1 ELSE StableFor
  BY MinOfTwo DEF Later, StableAssumption
<1>2. Later(t) \in 0 .. StableFor
  BY <1>1 DEF StableAssumption
<1>3. \A u \in 0 .. StableFor : u >= t => Later(u) >= Later(t)
  BY <1>1 DEF StableAssumption
<1>4. Later(t) # None
  BY <1>2 DEF StableAssumption
<1> QED BY <1>2, <1>3, <1>4 DEF Later

\* Every step of the loop keeps the account of how long the node has led.
LEMMA HelloStep ==
    ASSUME TimeoutsAssumption, StableAssumption, TypeOK, HelloInv, LoopNext
    PROVE  HelloInv'
<1>0. AwakeToDemotions
  BY DEF HelloInv, AwakeToDemotions
<1>1. CASE SwarmPolls
  <2>1. Lead /\ stable_leader_since' = stable_leader_since /\ pc' = pc
    BY <1>1 DEF SwarmPolls, loop
  <2>2. CASE PollIdle \/ PollTick
    BY <1>0, <2>1, <2>2, PollTells, LoopKeepsHello
  <2>3. CASE PollReady /\ (pc = "listen" \/ Head(events) = "Other")
    BY <2>1, <2>3, ReadyKeepsHello
  <2> QED BY <1>1, <2>2, <2>3 DEF SwarmPolls
<1>2. CASE SwarmTakes
  <2>1. Lead /\ stable_leader_since' = stable_leader_since /\ pc' = pc /\ OnEvent
    BY <1>2 DEF SwarmTakes, loop
  <2> QED BY <1>0, <2>1, EventTells, LoopKeepsHello
<1>3. CASE DialSeeds
  <2>1. /\ pc' = "select" /\ stable_leader_since' = stable_leader_since /\ leading' = leading
        /\ role' = role /\ asleep' = asleep
        /\ events' \in {events, events \o <<"Other">>}
    BY <1>3 DEF DialSeeds, DialSeed, vars, engine
  <2>2. Demotes(events \o <<"Other">>) <=> Demotes(events)
    BY QueueTypes, DemotesAppend, SmallQueues
  <2>3. Demotes(events') <=> Demotes(events)
    BY <2>1, <2>2
  <2> QED BY <2>1, <2>3 DEF HelloInv
<1>4. CASE SwarmReturns
  <2>1. /\ PollReady /\ Lead /\ pc' # "listen"
        /\ stable_leader_since' = HandleEvent(Head(events))
    BY <1>4 DEF SwarmReturns
  <2> QED BY <2>1, ReadyKeepsHello
<1>5. CASE Interval
  BY <1>5 DEF Interval, vars, HelloInv, Demotes
<1>6. CASE Check
  <2>1. pc' = "select" /\ leading' = leading
    BY <1>6 DEF Check
  <2>2. CASE UNCHANGED <<vars, stable_leader_since, proposed>>
    BY <2>1, <2>2 DEF vars, HelloInv, Demotes
  <2>3. CASE role = "Leader" /\ stable_leader_since' = 0 /\ UNCHANGED <<vars, proposed>>
    <3>1. role' = role /\ asleep' = asleep /\ events' = events
      BY <2>3 DEF vars
    <3>2. 0 \in 0 .. StableFor /\ leading \in 0 .. StableFor /\ leading >= 0 /\ leading # None
      BY <2>3 DEF HelloInv, StableAssumption
    <3> QED BY <2>1, <2>3, <3>1, <3>2 DEF HelloInv
  <2>4. CASE Propose /\ stable_leader_since' = stable_leader_since
    <3>1. role' = role /\ asleep' = FALSE /\ Transmit({}, <<>>)
      BY <2>4 DEF Propose, engine
    <3>2. Demotes(events') <=> Demotes(events)
      BY <3>1, SmallQueues, TransmitKeeps
    <3> QED BY <2>1, <2>4, <3>1, <3>2 DEF HelloInv
  <2> QED BY <1>6, <2>2, <2>3, <2>4 DEF Check
<1>7. CASE TimePasses
  <2>1. /\ role' = role /\ events' = events /\ pc' = pc
        /\ asleep' => asleep
        /\ stable_leader_since' = Later(stable_leader_since)
        /\ leading' = Later(leading)
    BY <1>7 DEF TimePasses, Pass
  <2>2. Demotes(events') <=> Demotes(events)
    BY <2>1
  <2>3. /\ stable_leader_since' \in 0 .. StableFor \cup {None}
        /\ stable_leader_since' = None <=> stable_leader_since = None
    BY <2>1, LaterFacts DEF HelloInv, Later
  <2>4. /\ leading' \in 0 .. StableFor \cup {None}
        /\ leading' = None <=> leading = None
    BY <2>1, LaterFacts DEF HelloInv, Later
  <2>5. ASSUME stable_leader_since' # None, ~Demotes(events')
        PROVE  leading' # None /\ leading' >= stable_leader_since'
    <3>1. /\ stable_leader_since \in 0 .. StableFor /\ leading \in 0 .. StableFor
          /\ leading >= stable_leader_since
      BY <2>2, <2>3, <2>5 DEF HelloInv
    <3> QED BY <2>1, <3>1, LaterFacts
  <2> QED BY <2>1, <2>2, <2>3, <2>4, <2>5 DEF HelloInv
<1> QED BY <1>1, <1>2, <1>3, <1>4, <1>5, <1>6, <1>7 DEF LoopNext

\* The loop's account of how long the node has led, in every reachable state.
THEOREM HelloInvariant == LoopSpec => []HelloInv
<1>1. LoopInit => HelloInv
  <2> SUFFICES ASSUME LoopInit PROVE HelloInv
    OBVIOUS
  <2>1. ~Demotes(<<"Other">>)
    BY SmallQueues
  <2> QED BY <2>1 DEF LoopInit, Init, HelloInv
<1>2. TypeOK /\ HelloInv /\ [LoopNext]_allVars => HelloInv'
  <2> SUFFICES ASSUME TypeOK, HelloInv, [LoopNext]_allVars PROVE HelloInv'
    OBVIOUS
  <2>1. CASE LoopNext
    BY <2>1, HelloStep, TimeoutsAssumption, StableAssumption
  <2>2. CASE UNCHANGED allVars
    BY <2>2 DEF allVars, vars, HelloInv, Demotes
  <2> QED BY <2>1, <2>2
<1> QED BY <1>1, <1>2, TimersTyped, PTL DEF LoopSpec

\* main proposes "hello" only after an uninterrupted leadership of the stable
\* time, however late the event that ended an earlier one was handled.
THEOREM HelloIsStable == LoopSpec => HelloAfterStableLead
<1>1. HelloInv /\ [LoopNext]_allVars => [HelloIsDue]_allVars
  <2> SUFFICES ASSUME HelloInv, LoopNext, proposed' # proposed PROVE leading = StableFor
    BY DEF HelloIsDue
  <2>1. Check
    BY DEF LoopNext, SwarmPolls, SwarmTakes, DialSeeds, SwarmReturns, Interval, TimePasses, loop
  <2>2. role = "Leader" /\ stable_leader_since = StableFor
    BY <2>1 DEF Check
  <2>3. StableFor \in Nat /\ StableFor # None
    BY StableAssumption
  <2>4. leading \in 0 .. StableFor /\ leading >= StableFor
    BY <2>2, <2>3 DEF HelloInv
  <2> QED BY <2>3, <2>4
<1> QED BY <1>1, HelloInvariant, PTL DEF LoopSpec, HelloAfterStableLead
=============================================================================
