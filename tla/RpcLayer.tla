------------------------------- MODULE RpcLayer -------------------------------
(***************************************************************************)
(* How a call of the engine travels: the Behaviour of behaviour.rs gives   *)
(* it a correlation id and a place in its pending table, the RaftHandler   *)
(* of handler.rs at one end of a connection opens a substream for it, the  *)
(* RaftHandler at the other end reads it, hands it to its own Behaviour    *)
(* and waits for the answer in response_txs.                               *)
(*                                                                         *)
(* The queues between these parties are the stages of a call's two ends.   *)
(* An event waits in a stage until the receiver takes it; the order of two *)
(* calls is left open.  A channel id is the substream itself: the          *)
(* Behaviour inserts it into inbound_channels and removes it in one call,  *)
(* and the handler that allocates it keeps it for its lifetime.            *)
(***************************************************************************)
EXTENDS Naturals, FiniteSets

CONSTANTS
    Nodes,
    Conns,      \* the connections that ever exist
    Ends,       \* [Conns -> SUBSET Nodes]: the two ends of each
    Knows,      \* pairs <<n, p>>: node n has p in its peer map
    Callers,    \* the nodes that send requests
    MaxId,      \* correlation ids a node hands out
    None        \* "no node" and "no connection"

ASSUME EndsAssumption == \A c \in Conns : Ends[c] \subseteq Nodes /\ Cardinality(Ends[c]) = 2
ASSUME IdsAssumption == MaxId \in Nat

VARIABLES
    next_correlation_id,    \* [Nodes -> Nat]
    pending,                \* [Nodes -> SET]: ids in the pending table
    streams,                \* [Calls -> Stream]
    ends,                   \* [Conns -> [Nodes -> {"new", "open", "closed"}]]
    answered,               \* history: calls whose answer reached the engine
    handled,                \* history: how often a call reached the remote engine
    stolen                  \* history: calls failed by another call's stream

vars == <<next_correlation_id, pending, streams, ends, answered, handled, stolen>>

\* A call is known by its sender and its correlation id.
Calls == Nodes \X (1 .. MaxId)

\* "out": the caller's end.  "queued" in the Behaviour's events, "opening" in
\* the handler, "sent" on the wire, then an event for the Behaviour ("done",
\* "failed"), then "gone".
\* "inn": the other end.  "incoming" on the wire, "request" with an event for
\* the Behaviour and a sender in response_txs, "unanswered" when the Behaviour
\* has returned without an answer, "responding" with the answer in the
\* Behaviour's events, "writing", "written" on the wire, "failed" with an
\* event for the Behaviour, "gone".
Stream == [to : Nodes \cup {None}, conn : Conns \cup {None},
           out : {"none", "queued", "opening", "sent", "done", "failed", "gone"},
           inn : {"none", "incoming", "request", "unanswered", "responding",
                  "writing", "written", "failed", "gone"}]

Init ==
    /\ next_correlation_id = [n \in Nodes |-> 1]
    /\ pending = [n \in Nodes |-> {}]
    /\ streams = [k \in Calls |-> [to |-> None, conn |-> None, out |-> "none", inn |-> "none"]]
    /\ ends = [c \in Conns |-> [n \in Ends[c] |-> "new"]]
    /\ answered = {} /\ stolen = {}
    /\ handled = [k \in Calls |-> 0]

history == <<answered, handled, stolen>>

Caller(k) == k[1]
Id(k) == k[2]
Waiting(k) == Id(k) \in pending[Caller(k)]

\* connected[peer] at node n.
Open(n, p) == {c \in Conns : Ends[c] = {n, p} /\ ends[c][n] = "open"}

SetOut(k, stage) == streams' = [streams EXCEPT ![k].out = stage]
SetInn(k, stage) == streams' = [streams EXCEPT ![k].inn = stage]

-----------------------------------------------------------------------------
(* The caller's side.                                                      *)

\* send_rpc to a connected peer.  (For any other peer it returns at once: no
\* call comes into being.)
SendRpc(n, p) ==
    LET k == <<n, next_correlation_id[n]>> IN
    /\ <<n, p>> \in Knows /\ Open(n, p) # {}
    /\ k \in Calls
    /\ next_correlation_id' = [next_correlation_id EXCEPT ![n] = @ + 1]
    /\ pending' = [pending EXCEPT ![n] = @ \cup {Id(k)}]
    /\ streams' = [streams EXCEPT ![k] = [@ EXCEPT !.to = p, !.out = "queued"]]
    /\ UNCHANGED <<ends, history>>

\* The swarm passes SendRequest to any connection of the peer and drops it
\* when there is none left.
RouteRequest(k) ==
    /\ streams[k].out = "queued"
    /\ \/ \E c \in Open(Caller(k), streams[k].to) :
            streams' = [streams EXCEPT ![k].out = "opening", ![k].conn = c]
       \/ Open(Caller(k), streams[k].to) = {} /\ SetOut(k, "gone")
    /\ UNCHANGED <<next_correlation_id, pending, ends, history>>

\* FullyNegotiatedOutbound and write_frame.
WriteRequest(k) ==
    /\ streams[k].out = "opening"
    /\ streams' = [streams EXCEPT ![k].out = "sent", ![k].inn = "incoming"]
    /\ UNCHANGED <<next_correlation_id, pending, ends, history>>

\* DialUpgradeError, or an error (or an oversized frame) in the I/O task.
OutboundFails(k) ==
    /\ streams[k].out \in {"opening", "sent"}
    /\ SetOut(k, "failed")
    /\ UNCHANGED <<next_correlation_id, pending, ends, history>>

\* read_frame returns the answer.
OutboundDone(k) ==
    /\ streams[k].out = "sent" /\ streams[k].inn = "written"
    /\ SetOut(k, "done")
    /\ UNCHANGED <<next_correlation_id, pending, ends, history>>

\* Mutant: an answer is passed to the engine whether or not it is awaited.
OnResponseAny(k) ==
    /\ streams[k].out = "done"
    /\ SetOut(k, "gone")
    /\ answered' = answered \cup {k}
    /\ pending' = [pending EXCEPT ![Caller(k)] = @ \ {Id(k)}]
    /\ UNCHANGED <<next_correlation_id, ends, handled, stolen>>

\* ToBehaviour::Response: a late answer finds no pending request.
OnResponse(k) ==
    /\ streams[k].out = "done"
    /\ SetOut(k, "gone")
    /\ answered' = answered \cup {x \in {k} : Waiting(x)}
    /\ pending' = [pending EXCEPT ![Caller(k)] = @ \ {Id(k)}]
    /\ UNCHANGED <<next_correlation_id, ends, handled, stolen>>

\* ToBehaviour::Failure from the outbound task: fail_pending.
OnFailure(k) ==
    /\ streams[k].out = "failed"
    /\ SetOut(k, "gone")
    /\ pending' = [pending EXCEPT ![Caller(k)] = @ \ {Id(k)}]
    /\ UNCHANGED <<next_correlation_id, ends, history>>

\* poll finds the request older than rpc_timeout.
RpcTimeout(k) ==
    /\ Waiting(k)
    /\ pending' = [pending EXCEPT ![Caller(k)] = @ \ {Id(k)}]
    /\ UNCHANGED <<next_correlation_id, streams, ends, history>>

-----------------------------------------------------------------------------
(* The other side.                                                         *)

\* read_frame returns the request: response_txs and the write task are set up.
InboundRead(k) ==
    LET s == streams[k] IN
    /\ s.inn = "incoming" /\ ends[s.conn][s.to] = "open"
    /\ SetInn(k, "request")
    /\ UNCHANGED <<next_correlation_id, pending, ends, history>>

\* The frame does not arrive whole: a failure without a correlation id.
InboundReadFails(k) ==
    /\ streams[k].inn = "incoming"
    /\ SetInn(k, "gone")
    /\ UNCHANGED <<next_correlation_id, pending, ends, history>>

\* Mutant: the request is left with the handler, to be taken again.
OnRequestAgain(k) ==
    LET known == <<streams[k].to, Caller(k)>> \in Knows IN
    /\ streams[k].inn = "request"
    /\ SetInn(k, IF known THEN "request" ELSE "unanswered")
    /\ handled' = [handled EXCEPT ![k] = IF known THEN @ + 1 ELSE @]
    /\ UNCHANGED <<next_correlation_id, pending, ends, answered, stolen>>

\* ToBehaviour::Request: the engine answers a peer of the map; for any other
\* peer the Behaviour returns early.
OnRequest(k) ==
    LET known == <<streams[k].to, Caller(k)>> \in Knows IN
    /\ streams[k].inn = "request"
    /\ SetInn(k, IF known THEN "responding" ELSE "unanswered")
    /\ handled' = [handled EXCEPT ![k] = IF known THEN @ + 1 ELSE @]
    /\ UNCHANGED <<next_correlation_id, pending, ends, answered, stolen>>

\* FromBehaviour::SendResponse: the sender leaves response_txs and wakes the
\* write task.
SendResponse(k) ==
    /\ streams[k].inn = "responding"
    /\ SetInn(k, "writing")
    /\ UNCHANGED <<next_correlation_id, pending, ends, history>>

InboundWritten(k) ==
    /\ streams[k].inn = "writing"
    /\ SetInn(k, "written")
    /\ UNCHANGED <<next_correlation_id, pending, ends, history>>

\* write_frame fails; the event carries the id of the request.
InboundWriteFails(k) ==
    /\ streams[k].inn = "writing"
    /\ SetInn(k, "failed")
    /\ UNCHANGED <<next_correlation_id, pending, ends, history>>

\* ToBehaviour::Failure from the inbound task: fail_pending looks the id of
\* the caller up in the pending table of this node.
OnInboundFailure(k) ==
    LET n == streams[k].to IN
    /\ streams[k].inn = "failed"
    /\ SetInn(k, "gone")
    /\ pending' = [pending EXCEPT ![n] = @ \ {Id(k)}]
    /\ stolen' = stolen \cup {x \in {<<n, Id(k)>>} : Waiting(x)}
    /\ UNCHANGED <<next_correlation_id, ends, answered, handled>>

-----------------------------------------------------------------------------
(* Connections, as the node at one end learns of them.                     *)

ConnectionEstablished(n, c) ==
    /\ n \in Ends[c] /\ ends[c][n] = "new"
    /\ ends' = [ends EXCEPT ![c][n] = "open"]
    /\ UNCHANGED <<next_correlation_id, pending, streams, history>>

\* fail_peer_pending
PendingTo(n, p) == {i \in pending[n] : streams[<<n, i>>].to = p}

\* The handler of node n's end is dropped with its tasks and its events.
Dropped(s, k, n, c) ==
    [s EXCEPT
        !.out = IF s.conn = c /\ Caller(k) = n /\ @ \in {"opening", "sent", "done", "failed"}
                THEN "gone" ELSE @,
        !.inn = IF s.conn = c /\ s.to = n /\ @ \notin {"none", "written"} THEN "gone" ELSE @]

\* The requests on the connection are failed only when it was the last one.
ConnectionClosed(n, c) ==
    /\ n \in Ends[c] /\ ends[c][n] = "open"
    /\ ends' = [ends EXCEPT ![c][n] = "closed"]
    /\ streams' = [k \in Calls |-> Dropped(streams[k], k, n, c)]
    /\ \E p \in Ends[c] \ {n} :
          pending' = [pending EXCEPT ![n] =
              IF Open(n, p) = {c} THEN @ \ PendingTo(n, p) ELSE @]
    /\ UNCHANGED <<next_correlation_id, history>>

\* A dial of p that began before p connected fails: everything pending to p
\* fails with it, connected or not.
DialFailure(n, p) ==
    /\ <<n, p>> \in Knows
    /\ PendingTo(n, p) # {}
    /\ pending' = [pending EXCEPT ![n] = @ \ PendingTo(n, p)]
    /\ UNCHANGED <<next_correlation_id, streams, ends, history>>

-----------------------------------------------------------------------------
Next ==
    \/ \E n \in Callers, p \in Nodes : SendRpc(n, p)
    \/ \E n \in Nodes, p \in Nodes : DialFailure(n, p)
    \/ \E n \in Nodes, c \in Conns : ConnectionEstablished(n, c) \/ ConnectionClosed(n, c)
    \/ \E k \in Calls :
          \/ RouteRequest(k) \/ WriteRequest(k) \/ OutboundFails(k) \/ OutboundDone(k)
          \/ OnResponse(k) \/ OnFailure(k) \/ RpcTimeout(k)
          \/ InboundRead(k) \/ InboundReadFails(k) \/ OnRequest(k) \/ SendResponse(k)
          \/ InboundWritten(k) \/ InboundWriteFails(k) \/ OnInboundFailure(k)

Spec == Init /\ [][Next]_vars

-----------------------------------------------------------------------------
\* Types; no call reaches the remote engine twice.
TypeOK ==
    /\ next_correlation_id \in [Nodes -> 1 .. MaxId + 1]
    /\ pending \in [Nodes -> SUBSET (1 .. MaxId)]
    /\ streams \in [Calls -> Stream]
    /\ \A c \in Conns : ends[c] \in [Ends[c] -> {"new", "open", "closed"}]
    /\ answered \subseteq Calls /\ stolen \subseteq Calls
    /\ handled \in [Calls -> 0 .. 1]

Status(k) ==
    IF Id(k) >= next_correlation_id[Caller(k)] THEN "unsent"
    ELSE IF Waiting(k) THEN "open"
    ELSE IF k \in answered THEN "answered"
    ELSE "failed"

Call == INSTANCE UnaryRpc WITH status <- [k \in Calls |-> Status(k)]

\* The pending table, the handlers and the connections together give every
\* call at most one end: an answer, only after the remote engine handled it,
\* or a failure, and it is handled at most once, however late, lost or
\* repeated the events of its substream are.
CallsAreUnary == Call!Spec

\* A Failure matches the request it is about: no call is failed by the
\* substream of another one.
FailuresMatch == stolen = {}
=============================================================================
