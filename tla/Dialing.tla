-------------------------------- MODULE Dialing --------------------------------
(***************************************************************************)
(* How two nodes come to be connected and stay so.  Each runs the          *)
(* Behaviour of behaviour.rs, which asks for a dial whenever it has        *)
(* something to send and no connection; either may dial the other at any   *)
(* time, so that there may be two connections, or a dial that fails while  *)
(* a connection of the other's making is up.                               *)
(*                                                                         *)
(* With one peer per node, the sets and maps of the Behaviour that are     *)
(* keyed by PeerId are values.  The Swarm and the network are external:    *)
(* a connection comes up, and goes down, at its two ends separately.       *)
(***************************************************************************)
EXTENDS Naturals, FiniteSets, FiniteSetsExt

CONSTANTS
    Nodes,          \* two of them
    Backoff,        \* [Nodes -> Nat]: dial_backoff, 5 s and the node's jitter
    MaxBreaks,      \* connections that the network closes
    MaxFailures,    \* dials that the network makes fail
    MaxConns        \* connections dialled by one node at a time

ASSUME NodesAssumption == IsFiniteSet(Nodes) /\ Cardinality(Nodes) = 2
ASSUME BoundsAssumption ==
    /\ Backoff \in [Nodes -> Nat \ {0}]
    /\ MaxBreaks \in Nat /\ MaxFailures \in Nat /\ MaxConns \in Nat

VARIABLES
    dialing,            \* [Nodes -> BOOLEAN]: the peer is in the set dialing
    dial_backoff_until, \* [Nodes -> Nat]: time left of the back-off
    pending,            \* [Nodes -> BOOLEAN]: there are RPCs to the peer
    dials,              \* [Nodes -> Nat]: Dials in pending_events
    attempt,            \* [Nodes -> BOOLEAN]: the Swarm is dialling
    conn,               \* [Conns -> [Nodes -> {"none", "up", "gone"}]]
    breaks, failures    \* used up of the network's bounds

behaviour == <<dialing, dial_backoff_until, pending, dials>>
network == <<breaks, failures>>
vars == <<dialing, dial_backoff_until, pending, dials, attempt, conn, breaks, failures>>

\* A connection is known by the node that dialled it and a number.
Conns == Nodes \X (1 .. MaxConns)
Peer(n) == CHOOSE p \in Nodes : p # n
Unused == [n \in Nodes |-> "none"]

Init ==
    /\ dialing = [n \in Nodes |-> FALSE]
    /\ dial_backoff_until = [n \in Nodes |-> 0]
    /\ pending = [n \in Nodes |-> FALSE]
    /\ dials = [n \in Nodes |-> 0]
    /\ attempt = [n \in Nodes |-> FALSE]
    /\ conn = [c \in Conns |-> Unused]
    /\ breaks = 0 /\ failures = 0

IsConnected(n) == \E c \in Conns : conn[c][n] = "up"

-----------------------------------------------------------------------------
(* The Behaviour.                                                          *)

\* Mutant: the peer is marked before the back-off is looked at.
DialSeedMarksFirst(n) ==
    /\ ~IsConnected(n) /\ ~dialing[n]
    /\ dialing' = [dialing EXCEPT ![n] = TRUE]
    /\ dials' = [dials EXCEPT ![n] = IF dial_backoff_until[n] = 0 THEN @ + 1 ELSE @]
    /\ UNCHANGED <<dial_backoff_until, pending>>

DialSeed(n) ==
    /\ ~IsConnected(n) /\ ~dialing[n] /\ dial_backoff_until[n] = 0
    /\ dialing' = [dialing EXCEPT ![n] = TRUE]
    /\ dials' = [dials EXCEPT ![n] = @ + 1]
    /\ UNCHANGED <<dial_backoff_until, pending>>

\* send_rpc: to a peer that is not connected the RPC is dropped, and dial_seed
\* returns without a Dial when there is one already or a back-off.
SendRpc(n) ==
    /\ \/ DialSeed(n)
       \/ ~IsConnected(n) /\ (dialing[n] \/ dial_backoff_until[n] > 0) /\ UNCHANGED behaviour
       \/ /\ IsConnected(n)
          /\ pending' = [pending EXCEPT ![n] = TRUE]
          /\ UNCHANGED <<dialing, dial_backoff_until, dials>>
    /\ UNCHANGED <<attempt, conn, network>>

\* The last pending RPC is answered, fails or times out.
RpcsEnd(n) ==
    /\ pending[n]
    /\ pending' = [pending EXCEPT ![n] = FALSE]
    /\ UNCHANGED <<dialing, dial_backoff_until, dials, attempt, conn, network>>

OnConnectionEstablished(n) ==
    /\ dialing' = [dialing EXCEPT ![n] = FALSE]
    /\ dial_backoff_until' = [dial_backoff_until EXCEPT ![n] = 0]
    /\ UNCHANGED <<pending, dials>>

\* Mutant: RPCs stay pending when the last connection is gone.
OnConnectionClosedKeepsPending(n, up) ==
    /\ dialing' = [dialing EXCEPT ![n] = FALSE]
    /\ UNCHANGED <<dial_backoff_until, pending, dials>>

\* "up": another connection to the peer is left.
OnConnectionClosed(n, up) ==
    /\ dialing' = [dialing EXCEPT ![n] = FALSE]
    /\ pending' = [pending EXCEPT ![n] = @ /\ up]
    /\ UNCHANGED <<dial_backoff_until, dials>>

\* Mutant: the peer stays in the set dialing.
OnDialFailureKeepsDialing(n, benign) ==
    /\ dial_backoff_until' = [dial_backoff_until EXCEPT ![n] = IF benign THEN Backoff[n] ELSE @]
    /\ pending' = [pending EXCEPT ![n] = FALSE]
    /\ UNCHANGED dialing

\* "benign": the error is one that is_benign_dial_error knows.
OnDialFailure(n, benign) ==
    /\ dialing' = [dialing EXCEPT ![n] = FALSE]
    /\ dial_backoff_until' = [dial_backoff_until EXCEPT ![n] = IF benign THEN Backoff[n] ELSE @]
    /\ pending' = [pending EXCEPT ![n] = FALSE]

-----------------------------------------------------------------------------
(* The Swarm and the network.                                              *)

\* The Swarm takes a Dial, whose condition is DisconnectedAndNotDialing.  (A
\* busy handler can make it take events of connections before that.)
TakeDial(n) ==
    /\ dials[n] > 0
    /\ dials' = [dials EXCEPT ![n] = @ - 1]
    /\ \/ /\ IsConnected(n) \/ attempt[n]
          /\ OnDialFailure(n, TRUE)
          /\ UNCHANGED attempt
       \/ /\ ~IsConnected(n) /\ ~attempt[n]
          /\ attempt' = [attempt EXCEPT ![n] = TRUE]
          /\ UNCHANGED <<dialing, dial_backoff_until, pending>>
    /\ UNCHANGED <<conn, network>>

\* A connection that is up at no end makes room for another.
SetEnd(c, n, state) ==
    LET ends == [conn[c] EXCEPT ![n] = state] IN
    conn' = [conn EXCEPT ![c] = IF \E x \in Nodes : ends[x] = "up" THEN ends ELSE Unused]

\* Connections that n has dialled and that may come up at n now: one its peer
\* has accepted, or else a new one.
Opening(n) ==
    LET accepted == {c \in Conns : c[1] = n /\ conn[c][n] = "none" /\ conn[c][Peer(n)] = "up"}
        new == {c \in Conns : c[1] = n /\ conn[c] = Unused}
    IN  IF accepted # {} THEN accepted
        ELSE {c \in new : \A d \in new : c[2] <= d[2]}

\* The dial succeeds, at the dialler's end.
Connect(n) ==
    /\ attempt[n]
    /\ \E c \in Opening(n) : SetEnd(c, n, "up")
    /\ attempt' = [attempt EXCEPT ![n] = FALSE]
    /\ OnConnectionEstablished(n)
    /\ UNCHANGED network

\* A connection dialled by the peer comes up, before or after it does there.
Accept(n) ==
    /\ \E c \in Conns :
          /\ c[1] = Peer(n) /\ conn[c][n] = "none"
          /\ conn[c][Peer(n)] = "up" \/ (attempt[Peer(n)] /\ c \in Opening(Peer(n)))
          /\ SetEnd(c, n, "up")
    /\ OnConnectionEstablished(n)
    /\ UNCHANGED <<attempt, network>>

\* A dial fails; an end that the peer has opened already is left alone.
DialFails(n) ==
    /\ attempt[n] /\ failures < MaxFailures
    /\ failures' = failures + 1
    /\ attempt' = [attempt EXCEPT ![n] = FALSE]
    /\ conn' = [c \in Conns |-> IF c[1] = n /\ conn[c][n] = "none" /\ conn[c][Peer(n)] = "up"
                                THEN [conn[c] EXCEPT ![n] = "gone"] ELSE conn[c]]
    /\ \E benign \in BOOLEAN : OnDialFailure(n, benign)
    /\ UNCHANGED <<dials, breaks>>

\* A connection closes at n, because the other end is gone or on its own.
Close(n, c) ==
    /\ conn[c][n] = "up"
    /\ \/ conn[c][Peer(n)] = "gone" /\ UNCHANGED breaks
       \/ conn[c][Peer(n)] # "gone" /\ breaks < MaxBreaks /\ breaks' = breaks + 1
    /\ SetEnd(c, n, "gone")
    /\ OnConnectionClosed(n, \E d \in Conns \ {c} : conn[d][n] = "up")
    /\ UNCHANGED <<attempt, failures>>

CloseSeen(n) == \E c \in Conns : conn[c][Peer(n)] = "gone" /\ Close(n, c)

Pass ==
    /\ \E n \in Nodes : dial_backoff_until[n] > 0
    /\ dial_backoff_until' = [n \in Nodes |-> Max({dial_backoff_until[n], 1}) - 1]
    /\ UNCHANGED <<dialing, pending, dials, attempt, conn, network>>

-----------------------------------------------------------------------------
Next ==
    \/ \E n \in Nodes :
          \/ SendRpc(n) \/ RpcsEnd(n)
          \/ TakeDial(n) \/ Connect(n) \/ Accept(n) \/ DialFails(n)
          \/ \E c \in Conns : Close(n, c)
    \/ Pass

\* A node that hears of nobody comes to its election timeout or heartbeat
\* over and over and sends; the Swarm and the runtime do their work; a dial
\* that the network does not make fail succeeds.
Fairness ==
    /\ WF_vars(Pass)
    /\ \A n \in Nodes :
          /\ WF_vars(SendRpc(n)) /\ WF_vars(TakeDial(n))
          /\ WF_vars(Connect(n)) /\ WF_vars(Accept(n)) /\ WF_vars(CloseSeen(n))

Spec == Init /\ [][Next]_vars /\ Fairness

-----------------------------------------------------------------------------
\* The set dialing never blocks a peer for good: a peer that is in it has a
\* Dial on its way to the Swarm or an attempt under way, whatever connections
\* came and went and whatever dials failed meanwhile.
DialIsUnderWay == \A n \in Nodes : dialing[n] => dials[n] > 0 \/ attempt[n]

\* RPCs are pending only to a peer that is connected.
PendingIsConnected == \A n \in Nodes : pending[n] => IsConnected(n)

\* Once the network has stopped breaking connections and dials, the two nodes
\* connect and stay connected, with no help but the engines' timers.
EventuallyConnected == <>[](\A n \in Nodes : IsConnected(n))
=============================================================================
