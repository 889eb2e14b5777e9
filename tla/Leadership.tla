------------------------------ MODULE Leadership ------------------------------
(***************************************************************************)
(* What the elections of the cluster promise, without messages, timers and *)
(* storage: a public ballot box.  A voter never votes in a term that is    *)
(* not later than all those it has voted in, and a node takes office only  *)
(* on a majority of the ballots of a term.                                 *)
(***************************************************************************)
EXTENDS Naturals

CONSTANTS
    Voters,
    Majorities  \* the sets of voters whose votes together win an election

VARIABLES
    ballots,    \* the votes ever cast: voter, term, cand
    elected     \* who took office in which term: term, node

Init == ballots = {} /\ elected = {}

\* A vote of v for c is added.  The term is left open: it is that of the
\* ballot that the step adds.
CastVote(v, c) ==
    \E b \in ballots' :
        /\ b.voter = v /\ b.cand = c
        /\ \A a \in ballots : a.voter = v => a.term < b.term
        /\ ballots' = ballots \cup {b}
        /\ UNCHANGED elected

\* Node c takes office in a term in which a majority has voted for it.
Elect(c) ==
    \E x \in elected' :
        /\ x.node = c
        /\ \E Q \in Majorities : \A v \in Q :
              [voter |-> v, term |-> x.term, cand |-> c] \in ballots
        /\ elected' = elected \cup {x}
        /\ UNCHANGED ballots

Next == \E c \in Voters : Elect(c) \/ \E v \in Voters : CastVote(v, c)

Spec == Init /\ [][Next]_<<ballots, elected>>
=============================================================================
