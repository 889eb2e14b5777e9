------------------------------- MODULE NodeLoop -------------------------------
(***************************************************************************)
(* The main function of bin/raft-node.rs around a node's Swarm: it waits   *)
(* until the Swarm listens, dials the seeds, and then waits for an event   *)
(* of the Swarm or for its own interval, hands events to handle_event, and *)
(* after each round checks whether this node has led for long enough to    *)
(* propose "hello".  While the loop does not wait, nobody polls the Swarm. *)
(***************************************************************************)
EXTENDS NodeTimers

CONSTANTS
    StableFor,  \* how long the node must have led (one second in the code)
    None        \* no Instant

ASSUME StableAssumption == StableFor \in Nat /\ None \notin Nat

VARIABLES
    pc,                     \* "listen", "select", or "check" after a round
    stable_leader_since,    \* time since the Instant, up to StableFor, or None
    proposed,
    leading                 \* history: how long the node has led, or None

loop == <<pc, stable_leader_since, proposed>>
allVars == <<vars, pc, stable_leader_since, proposed, leading>>

LoopInit ==
    /\ Init
    /\ pc = "listen"
    /\ stable_leader_since = None /\ proposed = FALSE
    /\ leading = None

Lead == leading' = IF role' # "Leader" THEN None ELSE IF role = "Leader" THEN leading ELSE 0

\* Mutant: a role change does not end the stable time.
HandleEventIgnored(ev) == stable_leader_since

\* handle_event: what becomes of stable_leader_since.
HandleEvent(ev) == IF ev \in {"Follower", "Candidate"} THEN None ELSE stable_leader_since

\* The Swarm polls the Behaviour.  Until it listens, main drops its events;
\* later it works off what it need not show to the application.
SwarmPolls ==
    /\ pc \in {"listen", "select"}
    /\ PollIdle \/ PollTick \/ (PollReady /\ (pc = "listen" \/ Head(events) = "Other"))
    /\ Lead
    /\ UNCHANGED loop

\* The Swarm has an event of a connection for the Behaviour.
SwarmTakes ==
    /\ pc \in {"listen", "select"}
    /\ OnEvent
    /\ Lead
    /\ UNCHANGED loop

\* NewListenAddr: the seeds are dialled, those that are not being dialled.
DialSeeds ==
    /\ pc = "listen" /\ pc' = "select"
    /\ DialSeed \/ UNCHANGED vars
    /\ UNCHANGED <<stable_leader_since, proposed, leading>>

\* The Swarm returns an event: select_next_some ends the round, whereas once
\* the interval has fired the loop goes on until the Swarm has nothing to do.
SwarmReturns ==
    /\ pc = "select"
    /\ PollReady
    /\ stable_leader_since' = HandleEvent(Head(events))
    /\ pc' \in {"check", "select"}
    /\ Lead
    /\ UNCHANGED proposed

\* The interval has fired, and now_or_never finds the Swarm with nothing to do.
Interval ==
    /\ pc = "select" /\ asleep
    /\ pc' = "check"
    /\ UNCHANGED <<vars, stable_leader_since, proposed, leading>>

\* After a round, with propose_hello set.
Check ==
    /\ pc = "check" /\ pc' = "select"
    /\ \/ /\ proposed \/ role # "Leader"
          /\ UNCHANGED <<vars, stable_leader_since, proposed>>
       \/ /\ ~proposed /\ role = "Leader" /\ stable_leader_since = None
          /\ stable_leader_since' = 0
          /\ UNCHANGED <<vars, proposed>>
       \/ /\ ~proposed /\ role = "Leader" /\ stable_leader_since \in 0 .. StableFor - 1
          /\ UNCHANGED <<vars, stable_leader_since, proposed>>
       \/ /\ ~proposed /\ role = "Leader" /\ stable_leader_since = StableFor
          /\ Propose
          /\ proposed' = TRUE
          /\ UNCHANGED stable_leader_since
    /\ UNCHANGED leading

Later(t) == IF t = None THEN None ELSE Min({t + 1, StableFor})

TimePasses ==
    /\ Pass
    /\ stable_leader_since' = Later(stable_leader_since)
    /\ leading' = Later(leading)
    /\ UNCHANGED <<pc, proposed>>

LoopNext == SwarmPolls \/ SwarmTakes \/ DialSeeds \/ SwarmReturns \/ Interval \/ Check \/ TimePasses

\* Time passes, the runtime polls a Swarm that has been woken and that main
\* waits for, and main goes on.
LoopSpec ==
    /\ LoopInit /\ [][LoopNext]_allVars
    /\ WF_allVars(TimePasses)
    /\ WF_allVars(SwarmPolls \/ SwarmReturns)
    /\ WF_allVars(Check)

-----------------------------------------------------------------------------
HelloIsDue == proposed' # proposed => leading = StableFor

\* "hello" is proposed by a node that has led without interruption for the
\* whole stable time: an earlier leadership never counts, because the event
\* that ended it reaches handle_event before the node can lead again.
HelloAfterStableLead == [][HelloIsDue]_allVars
=============================================================================
