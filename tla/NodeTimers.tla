------------------------------ MODULE NodeTimers ------------------------------
(***************************************************************************)
(* The clock of one node: the deadlines of engine.rs, the age of the       *)
(* pending RPCs, the one Sleep that behaviour.rs arms for the earliest of  *)
(* them, and poll, which is all that ever looks at a deadline.             *)
(*                                                                         *)
(* Deadlines are kept as the time that is left, 0 once they have passed.   *)
(* The Swarm polls the Behaviour until it returns Pending and only then    *)
(* takes the next event of a connection, after which it polls again; with  *)
(* nothing left to do the node waits for the Sleep or for a wake-up.       *)
(***************************************************************************)
EXTENDS Naturals, Sequences, FiniteSetsExt

CONSTANTS
    ElectionTimeout,    \* election_timeout + election_jitter
    HeartbeatInterval,
    RpcTimeout,
    Slots               \* each RPC in the pending table occupies one of these

ASSUME TimeoutsAssumption ==
    /\ ElectionTimeout \in Nat \ {0}
    /\ HeartbeatInterval \in Nat \ {0}
    /\ RpcTimeout \in Nat \ {0}

VARIABLES
    role,
    election, heartbeat,    \* time left to the engine's two deadlines
    pending,                \* [subset of Slots -> time left to rpc_timeout]
    dialing,                \* a Dial is queued or under way
    events,                 \* pending_events: role changes and "Other" ones
    sleep,                  \* time left on the Sleep
    registered,             \* this Sleep was polled, so it will wake the node
    asleep                  \* poll returned Pending and nothing woke it since

engine == <<role, election, heartbeat>>
vars == <<role, election, heartbeat, pending, dialing, events, sleep, registered, asleep>>

Init ==
    /\ role = "Follower"
    /\ election = ElectionTimeout
    /\ heartbeat = HeartbeatInterval
    /\ pending = <<>> /\ dialing = FALSE
    /\ events = <<"Other">>         \* PeerMapped
    /\ sleep = ElectionTimeout
    /\ registered = FALSE /\ asleep = FALSE

NextDeadline(r, e, h) == IF r = "Leader" THEN Min({h, e}) ELSE e

\* Mutant: only the engine's deadline counts.
EarliestWakeOfEngine(r, e, h, p) == NextDeadline(r, e, h)

EarliestWake(r, e, h, p) == Min({NextDeadline(r, e, h)} \cup {p[s] : s \in DOMAIN p})

\* arm_sleep(earliest_wake()): a new Sleep, which nobody has polled.
ArmSleep ==
    /\ sleep' = EarliestWake(role', election', heartbeat', pending')
    /\ registered' = FALSE

Without(S) == [s \in DOMAIN pending \ S |-> pending[s]]

\* The RPCs of gone leave the pending table, and send_rpc is called for some
\* peers: those connected take a slot each; for one that is not, dial_seed
\* queues a Dial unless there is one already.
Transmit(gone, evs) ==
    \E S \in SUBSET (Slots \ DOMAIN pending), dial \in {dialing, TRUE} :
        /\ pending' = [s \in DOMAIN Without(gone) \cup S |->
                            IF s \in S THEN RpcTimeout ELSE pending[s]]
        /\ dialing' = dial
        /\ events' = events \o evs \o
                (IF S # {} \/ dial # dialing THEN <<"Other">> ELSE <<>>)

-----------------------------------------------------------------------------
(* poll.                                                                   *)

Expired == {s \in DOMAIN pending : pending[s] = 0}
Due == NextDeadline(role, election, heartbeat) = 0

\* A queued event is returned, and the Swarm polls again.
PollReady ==
    /\ ~asleep /\ events # <<>>
    /\ events' = Tail(events)
    /\ UNCHANGED <<engine, pending, dialing, sleep, registered, asleep>>

\* RPCs that have expired fail, which adds no event.  Then a Sleep that has
\* fired is armed again and the loop goes on; otherwise poll returns Pending.
\* A new Sleep of no length may still take until the next turn of the timer.
PollIdle ==
    /\ ~asleep /\ events = <<>> /\ ~Due
    /\ pending' = Without(Expired)
    /\ UNCHANGED <<engine, dialing, events>>
    /\ \/ sleep = 0 /\ ArmSleep /\ UNCHANGED asleep
       \/ /\ sleep > 0 \/ ~registered
          /\ registered' = TRUE /\ asleep' = TRUE
          /\ UNCHANGED sleep

\* tick on a Follower or Candidate: start_election.
TickElection ==
    /\ role # "Leader" /\ election = 0
    /\ role' = "Candidate" /\ election' = ElectionTimeout
    /\ UNCHANGED heartbeat
    /\ Transmit(Expired, <<"Candidate">>)

\* Mutant: the heartbeat deadline is not moved.
TickHeartbeatInPlace ==
    /\ role = "Leader" /\ heartbeat = 0
    /\ UNCHANGED engine
    /\ Transmit(Expired, <<>>)

\* tick on a Leader: replicate_actions.
TickHeartbeat ==
    /\ role = "Leader" /\ heartbeat = 0
    /\ heartbeat' = HeartbeatInterval
    /\ UNCHANGED <<role, election>>
    /\ Transmit(Expired, <<>>)

\* tick on a Leader whose next_deadline is an election deadline: nothing.
TickNothing ==
    /\ role = "Leader" /\ heartbeat > 0
    /\ pending' = Without(Expired)
    /\ UNCHANGED <<engine, dialing, events>>

\* After the tick poll returns an event, goes on with a Sleep that has fired,
\* or returns Pending.
PollTick ==
    /\ ~asleep /\ events = <<>> /\ Due
    /\ TickElection \/ TickHeartbeat \/ TickNothing
    /\ sleep' = EarliestWake(role', election', heartbeat', pending')
    /\ \/ (events' # <<>> \/ sleep' = 0) /\ registered' = FALSE /\ asleep' = FALSE
       \/ events' = <<>> /\ registered' = TRUE /\ asleep' = TRUE

-----------------------------------------------------------------------------
(* on_connection_handler_event: the Behaviour arms the Sleep, and the Swarm *)
(* polls it afterwards.                                                     *)

HandlerEvent == asleep /\ asleep' = FALSE /\ ArmSleep

\* A vote is granted, or the leader of the term (or a later one) is heard of.
OnContact ==
    /\ role' = "Follower" /\ election' = ElectionTimeout
    /\ \E evs \in {<<"Follower">>} \cup {x \in {<<>>} : role = "Follower"} :
          events' = events \o evs \o <<"Other">>
    /\ UNCHANGED <<heartbeat, pending, dialing>>
    /\ HandlerEvent

\* A RequestVote of a later term whose candidate's log is behind: the node
\* steps down and keeps its election deadline.
OnLaterTerm ==
    /\ role' = "Follower"
    /\ events' = events \o <<"Follower", "Other">>
    /\ UNCHANGED <<election, heartbeat, pending, dialing>>
    /\ HandlerEvent

\* Any other request: an answer is sent.
OnRefused ==
    /\ events' = events \o <<"Other">>
    /\ UNCHANGED <<engine, pending, dialing>>
    /\ HandlerEvent

\* An answer of a later term: again the election deadline is kept.
OnDeposed(s) ==
    /\ s \in DOMAIN pending
    /\ role' = "Follower"
    /\ pending' = Without({s})
    /\ events' = events \o <<"Follower">>
    /\ UNCHANGED <<election, heartbeat, dialing>>
    /\ HandlerEvent

\* Mutant: the two deadlines are swapped.
OnElectedSwapped(s) ==
    /\ s \in DOMAIN pending /\ role = "Candidate"
    /\ role' = "Leader"
    /\ election' = HeartbeatInterval /\ heartbeat' = ElectionTimeout
    /\ pending' = Without({s})
    /\ events' = events \o <<"Leader">>
    /\ UNCHANGED dialing
    /\ HandlerEvent

\* The vote that completes a quorum.
OnElected(s) ==
    /\ s \in DOMAIN pending /\ role = "Candidate"
    /\ role' = "Leader"
    /\ election' = ElectionTimeout /\ heartbeat' = HeartbeatInterval
    /\ pending' = Without({s})
    /\ events' = events \o <<"Leader">>
    /\ UNCHANGED dialing
    /\ HandlerEvent

\* Any other answer, after which a Leader may commit or send more; or the
\* failure of the RPC.
OnAnswer(s) ==
    /\ s \in DOMAIN pending
    /\ \E evs \in {<<>>, <<"Other">>} : Transmit({s}, evs)
    /\ role # "Leader" => DOMAIN pending' \subseteq DOMAIN pending /\ dialing' = dialing
    /\ UNCHANGED engine
    /\ HandlerEvent

\* on_swarm_event and what the Behaviour ignores (a late answer, a request of
\* an unknown peer): RPCs may fail, the Sleep is left as it is.
OnSwarmEvent ==
    /\ asleep /\ asleep' = FALSE
    /\ \E S \in SUBSET DOMAIN pending : pending' = Without(S)
    /\ dialing' \in {dialing, FALSE}
    /\ events' \in {events, events \o <<"Other">>}
    /\ UNCHANGED <<engine, sleep, registered>>

-----------------------------------------------------------------------------
(* The application, and time.                                              *)

\* propose on a Leader: the new Sleep has not been polled, so the waker must
\* bring the node back to poll.
Propose ==
    /\ role = "Leader"
    /\ Transmit({}, <<>>)
    /\ UNCHANGED engine
    /\ ArmSleep
    /\ asleep' = FALSE

\* dial_seed queues a Dial and wakes nobody.
DialSeed ==
    /\ ~dialing /\ dialing' = TRUE
    /\ events' = events \o <<"Other">>
    /\ UNCHANGED <<engine, pending, sleep, registered, asleep>>

Less(t) == IF t = 0 THEN 0 ELSE t - 1

\* One unit of time passes; the runtime wakes the node when the Sleep that it
\* polled has fired.
Pass ==
    /\ election' = Less(election) /\ heartbeat' = Less(heartbeat)
    /\ pending' = [s \in DOMAIN pending |-> Less(pending[s])]
    /\ sleep' = Less(sleep)
    /\ asleep' = (asleep /\ ~(registered /\ sleep' = 0))
    /\ UNCHANGED <<role, dialing, events, registered>>

Poll == PollReady \/ PollIdle \/ PollTick

OnEvent ==
    \/ OnContact \/ OnLaterTerm \/ OnRefused \/ OnSwarmEvent
    \/ \E s \in Slots : OnDeposed(s) \/ OnElected(s) \/ OnAnswer(s)

Next == Poll \/ OnEvent \/ Propose \/ DialSeed \/ Pass

\* Time passes, and the runtime polls a node that has been woken.
Spec == Init /\ [][Next]_vars /\ WF_vars(Pass) /\ WF_vars(Poll)

-----------------------------------------------------------------------------
TypeOK ==
    /\ role \in {"Follower", "Candidate", "Leader"}
    /\ election \in 0 .. ElectionTimeout /\ heartbeat \in 0 .. HeartbeatInterval
    /\ DOMAIN pending \subseteq Slots
    /\ \A s \in DOMAIN pending : pending[s] \in 0 .. RpcTimeout
    /\ dialing \in BOOLEAN
    /\ events \in Seq({"Follower", "Candidate", "Leader", "Other"})
    /\ sleep \in Nat /\ registered \in BOOLEAN /\ asleep \in BOOLEAN

\* A node that sleeps will be woken in time: the Sleep it registered with
\* fires no later than the engine's deadline of its role and the timeout of
\* every pending RPC, whatever was sent, answered or failed since.
NoLostWakeup ==
    asleep =>
        /\ registered
        /\ role # "Leader" => sleep <= election
        /\ role = "Leader" => sleep <= heartbeat
        /\ \A s \in DOMAIN pending : sleep <= pending[s]

\* Deadlines are served: a node whose election deadline has passed starts an
\* election or hears of a leader, a leader whose heartbeat is due sends it or
\* steps down, and every pending RPC ends.
DeadlinesAreServed ==
    /\ (role # "Leader" /\ election = 0) ~> (role = "Leader" \/ election > 0)
    /\ (role = "Leader" /\ heartbeat = 0) ~> (role # "Leader" \/ heartbeat > 0)
    /\ \A s \in Slots : s \in DOMAIN pending ~> s \notin DOMAIN pending

\* tick is called only when due: whatever deadline made poll call it has been
\* moved into the future when it returns, so that poll does not spin.
TickMovesDeadline == [][PollTick => ~Due']_vars
=============================================================================
