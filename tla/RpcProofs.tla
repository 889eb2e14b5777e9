------------------------------ MODULE RpcProofs ------------------------------
(***************************************************************************)
(* RpcLayer implements UnaryRpc, for any number of nodes, connections and  *)
(* calls: types, the invariant about the two ends of a substream, and each *)
(* step as a step of the abstract call or a stutter.                       *)
(***************************************************************************)
EXTENDS RpcLayer, TLAPS

\* The end that answers exists only after the request was written, and it
\* has passed the request to the engine once it has an answer.
StagesFit(s, count) ==
    /\ s.out \in {"none", "queued", "opening"} => s.inn = "none"
    /\ s.out # "none" => s.to \in Nodes
    /\ s.inn \in {"none", "incoming", "request"} => count = 0
    /\ s.inn \in {"responding", "writing", "written"} => count = 1
    /\ s.out = "done" => count = 1

\* A number that was not given out yet is nowhere.
FreshIsUnused(k) ==
    Id(k) >= next_correlation_id[Caller(k)] =>
        streams[k].out = "none" /\ ~Waiting(k) /\ k \notin answered

RpcInv ==
    /\ TypeOK
    /\ ends = [c \in Conns |-> ends[c]]
    /\ \A k \in Calls : StagesFit(streams[k], handled[k]) /\ FreshIsUnused(k)
    /\ \A k \in answered : ~Waiting(k)

\* A call is a pair, and the pair of its parts.
LEMMA CallParts ==
    ASSUME NEW k \in Calls
    PROVE  /\ Caller(k) \in Nodes /\ Id(k) \in 1 .. MaxId /\ k = <<Caller(k), Id(k)>>
           /\ \A x \in Calls : Caller(x) = Caller(k) /\ Id(x) = Id(k) => x = k
BY DEF Calls, Caller, Id

-----------------------------------------------------------------------------
(* What a step does to the two tables, and what it is to the caller.       *)

\* The step only takes calls out of pending tables, if anything.
OnlyFails ==
    /\ UNCHANGED <<next_correlation_id, answered, handled>>
    /\ pending' \in [Nodes -> SUBSET (1 .. MaxId)]
    /\ \A n \in Nodes : pending'[n] \subseteq pending[n]

status == [k \in Calls |-> Status(k)]

\* The calls that leave the pending table fail together.
LEMMA FailuresAreFail ==
    ASSUME RpcInv, OnlyFails
    PROVE  [Call!Next]_<<status, handled>>
<1> DEFINE K == {k \in Calls : Waiting(k) /\ ~Waiting(k)'}
<1>1. \A k \in Calls : Caller(k) \in Nodes /\ Caller(k)' = Caller(k) /\ Id(k)' = Id(k)
  BY CallParts DEF Caller, Id
<1>2. \A k \in Calls : Waiting(k)' => Waiting(k)
  BY <1>1 DEF OnlyFails, Waiting
<1>3. ASSUME NEW k \in Calls
      PROVE  status'[k] = IF k \in K THEN "failed" ELSE status[k]
  <2>1. status[k] = Status(k) /\ status'[k] = Status(k)'
    BY DEF status
  <2>2. k \in answered' <=> k \in answered
    BY DEF OnlyFails
  <2>3. next_correlation_id'[Caller(k)] = next_correlation_id[Caller(k)]
    BY DEF OnlyFails
  <2>4. CASE k \in K
    <3>1. k \notin answered /\ ~(Id(k) >= next_correlation_id[Caller(k)])
      BY <2>4 DEF RpcInv, FreshIsUnused
    <3> QED BY <1>1, <2>1, <2>2, <2>3, <2>4, <3>1 DEF Status
  <2>5. CASE k \notin K
    <3>1. Waiting(k)' <=> Waiting(k)
      BY <1>2, <2>5
    <3> QED BY <1>1, <2>1, <2>2, <2>3, <2>5, <3>1 DEF Status
  <2> QED BY <2>4, <2>5
<1>4. status' = [k \in Calls |-> IF k \in K THEN "failed" ELSE status[k]]
  <2> HIDE DEF K
  <2>1. status' = [k \in Calls |-> status'[k]]
    BY DEF status
  <2> QED BY <1>3, <2>1
<1>5. handled' = handled
  BY DEF OnlyFails
<1>6. CASE K = {}
  <2>1. status' = status
    BY <1>4, <1>6 DEF status
  <2> QED BY <1>5, <2>1
<1>7. CASE K # {}
  <2>1. \A k \in K : status[k] = "open"
    <3> SUFFICES ASSUME NEW k \in K PROVE Status(k) = "open"
      BY DEF status
    <3>1. Waiting(k) /\ ~(Id(k) >= next_correlation_id[Caller(k)])
      BY DEF RpcInv, FreshIsUnused
    <3> QED BY <3>1 DEF Status
  <2> HIDE DEF K
  <2>2. K \in SUBSET Calls
    BY DEF K
  <2>3. Call!Fail(K)
    BY <1>4, <1>5, <1>7, <2>1 DEF Call!Fail, status
  <2> QED BY <2>2, <2>3 DEF Call!Next
<1> QED BY <1>6, <1>7

\* A call with the next number becomes open.
LEMMA SendIsSend ==
    ASSUME RpcInv, RpcInv', NEW n \in Nodes, NEW p \in Nodes, SendRpc(n, p)
    PROVE  [Call!Next]_<<status, handled>>
<1>0. PICK k \in Calls : k = <<n, next_correlation_id[n]>>
  BY DEF SendRpc
<1>1. /\ k \in Calls /\ Caller(k) = n /\ Id(k) = next_correlation_id[n]
      /\ next_correlation_id \in [Nodes -> 1 .. MaxId + 1]
      /\ pending \in [Nodes -> SUBSET (1 .. MaxId)]
      /\ next_correlation_id' = [next_correlation_id EXCEPT ![n] = @ + 1]
      /\ pending' = [pending EXCEPT ![n] = @ \cup {Id(k)}]
      /\ answered' = answered /\ handled' = handled
  BY <1>0 DEF SendRpc, RpcInv, TypeOK, Caller, Id, history
<1>2. Status(k) = "unsent"
  <2>1. Id(k) >= next_correlation_id[Caller(k)]
    BY <1>1, IdsAssumption
  <2> QED BY <2>1 DEF Status
<1>3. Status(k)' = "open"
  <2>1. ~(Id(k) >= next_correlation_id[Caller(k)])' /\ Waiting(k)'
    BY <1>1, IdsAssumption DEF Waiting, Caller, Id
  <2> QED BY <2>1 DEF Status
<1>4. ASSUME NEW x \in Calls, x # k PROVE Status(x)' = Status(x)
  <2>1. Caller(x)' = Caller(x) /\ Id(x)' = Id(x) /\ (x \in answered' <=> x \in answered)
    BY <1>1 DEF Caller, Id
  <2>2. CASE Caller(x) # n
    <3>1. /\ next_correlation_id'[Caller(x)] = next_correlation_id[Caller(x)]
          /\ pending'[Caller(x)] = pending[Caller(x)]
      BY <1>1, <2>2, CallParts
    <3> QED BY <2>1, <3>1 DEF Status, Waiting
  <2>3. CASE Caller(x) = n
    <3>1. Id(x) # Id(k) /\ Id(x) \in Nat /\ Id(k) \in Nat
      BY <1>1, <1>4, <2>3, CallParts, IdsAssumption
    <3>2. /\ next_correlation_id'[Caller(x)] = Id(k) + 1
          /\ next_correlation_id[Caller(x)] = Id(k)
      BY <1>1, <2>3
    <3>3. Waiting(x)' <=> Waiting(x)
      BY <1>1, <2>1, <2>3, <3>1 DEF Waiting
    <3>4. Id(x) >= next_correlation_id'[Caller(x)] <=> Id(x) >= next_correlation_id[Caller(x)]
      BY <3>1, <3>2
    <3> QED BY <2>1, <3>3, <3>4 DEF Status
  <2> QED BY <2>2, <2>3
<1>5. status' = [status EXCEPT ![k] = "open"] /\ status[k] = "unsent"
  BY <1>1, <1>2, <1>3, <1>4 DEF status
<1>6. Call!Send(k)
  BY <1>1, <1>5 DEF Call!Send, status
<1> QED BY <1>1, <1>6 DEF Call!Next

\* An answer ends the call that waits for it, and nothing else.
LEMMA ResponseIsAnswer ==
    ASSUME RpcInv, NEW k \in Calls, OnResponse(k)
    PROVE  [Call!Next]_<<status, handled>>
<1>1. /\ next_correlation_id' = next_correlation_id /\ handled' = handled
      /\ answered' = answered \cup {x \in {k} : Waiting(x)}
      /\ pending' = [pending EXCEPT ![Caller(k)] = @ \ {Id(k)}]
      /\ pending \in [Nodes -> SUBSET (1 .. MaxId)]
      /\ streams[k].out = "done"
  BY DEF OnResponse, RpcInv, TypeOK
<1>2. \A x \in Calls : Caller(x)' = Caller(x) /\ Id(x)' = Id(x)
  BY DEF Caller, Id
<1>3. ASSUME NEW x \in Calls, x # k PROVE Status(x)' = Status(x)
  <2>1. Waiting(x)' <=> Waiting(x)
    <3>1. Caller(x) = Caller(k) => Id(x) # Id(k)
      BY <1>3, CallParts
    <3> QED BY <1>1, <1>2, <3>1, CallParts DEF Waiting
  <2>2. x \in answered' <=> x \in answered
    BY <1>1, <1>3
  <2> QED BY <1>1, <1>2, <2>1, <2>2 DEF Status
<1>4. ~Waiting(k)'
  BY <1>1, <1>2, CallParts DEF Waiting
<1>5. ~(Id(k) >= next_correlation_id[Caller(k)])
  BY <1>1 DEF RpcInv, FreshIsUnused
<1>6. ~(Id(k) >= next_correlation_id[Caller(k)])'
  BY <1>1, <1>2, <1>5
<1>7. CASE Waiting(k)
  <2>1. Status(k) = "open"
    BY <1>5, <1>7 DEF Status
  <2>2. k \in answered'
    BY <1>1, <1>7
  <2>3. Status(k)' = "answered"
    BY <1>4, <1>6, <2>2 DEF Status
  <2>4. status' = [status EXCEPT ![k] = "answered"] /\ status[k] = "open"
    BY <1>3, <2>1, <2>3 DEF status
  <2>5. handled[k] = 1
    BY <1>1 DEF RpcInv, StagesFit
  <2>6. Call!Answer(k)
    BY <1>1, <2>4, <2>5 DEF Call!Answer, status
  <2> QED BY <2>6 DEF Call!Next
<1>8. CASE ~Waiting(k)
  <2>1. k \in answered' <=> k \in answered
    BY <1>1, <1>8
  <2>2. Status(k)' = Status(k)
    BY <1>1, <1>2, <1>4, <1>8, <2>1 DEF Status
  <2>3. status' = status
    BY <1>3, <2>2 DEF status
  <2> QED BY <1>1, <2>3
<1> QED BY <1>7, <1>8

\* A request reaches the engine of a known peer once.
LEMMA RequestIsHandle ==
    ASSUME RpcInv, NEW k \in Calls, OnRequest(k)
    PROVE  [Call!Next]_<<status, handled>>
<1> DEFINE known == <<streams[k].to, Caller(k)>> \in Knows
<1>1. /\ UNCHANGED <<next_correlation_id, pending, answered>>
      /\ handled' = [handled EXCEPT ![k] = IF known THEN @ + 1 ELSE @]
      /\ handled \in [Calls -> 0 .. 1]
      /\ streams[k].inn = "request"
  BY DEF OnRequest, RpcInv, TypeOK
<1>2. status' = status
  BY <1>1 DEF status, Status, Waiting, Caller, Id
<1>3. handled[k] = 0 /\ streams[k].out # "none"
  BY <1>1 DEF RpcInv, StagesFit
<1>4. CASE known
  <2>1. handled' = [handled EXCEPT ![k] = 1]
    BY <1>1, <1>3, <1>4
  <2>2. ~(Id(k) >= next_correlation_id[Caller(k)])
    BY <1>3 DEF RpcInv, FreshIsUnused
  <2>3. Status(k) # "unsent"
    <3>1. CASE Waiting(k)
      BY <2>2, <3>1 DEF Status
    <3>2. CASE ~Waiting(k)
      BY <2>2, <3>2 DEF Status
    <3> QED BY <3>1, <3>2
  <2>4. status[k] # "unsent"
    BY <2>3 DEF status
  <2>5. Call!Handle(k)
    BY <1>2, <1>3, <2>1, <2>4 DEF Call!Handle, status
  <2> QED BY <2>5 DEF Call!Next
<1>5. CASE ~known
  <2>1. handled' = handled
    BY <1>1, <1>5
  <2> QED BY <1>2, <2>1
<1> QED BY <1>4, <1>5

-----------------------------------------------------------------------------
(* The invariant.                                                          *)

\* A step that moves only the stages of one call.
LEMMA StageKeeps ==
    ASSUME RpcInv, NEW k \in Calls, NEW s \in Stream,
           StagesFit(s, handled[k]), streams[k].out # "none",
           streams' = [streams EXCEPT ![k] = s],
           UNCHANGED <<next_correlation_id, pending, ends, history>>
    PROVE  RpcInv'
<1>1. UNCHANGED <<next_correlation_id, pending, ends, answered, handled, stolen>>
  BY DEF history
<1>2. TypeOK' /\ (ends = [c \in Conns |-> ends[c]])'
  BY <1>1 DEF RpcInv, TypeOK
<1>3. ASSUME NEW x \in Calls
      PROVE  StagesFit(streams'[x], handled'[x]) /\ FreshIsUnused(x)'
  <2>1. streams'[x] = IF x = k THEN s ELSE streams[x]
    BY DEF RpcInv, TypeOK
  <2>2. StagesFit(streams[x], handled[x]) /\ FreshIsUnused(x) /\ FreshIsUnused(k)
    BY DEF RpcInv
  <2>3. Waiting(x)' <=> Waiting(x)
    BY <1>1 DEF Waiting, Caller, Id
  <2>4. x # k => FreshIsUnused(x)'
    BY <1>1, <2>1, <2>2, <2>3 DEF FreshIsUnused, Caller, Id
  <2>5. FreshIsUnused(k)'
    BY <1>1, <2>2 DEF FreshIsUnused, Caller, Id
  <2> QED BY <1>1, <2>1, <2>2, <2>4, <2>5
<1>4. \A x \in answered' : ~Waiting(x)'
  BY <1>1 DEF RpcInv, Waiting, Caller, Id
<1> QED BY <1>2, <1>3, <1>4 DEF RpcInv, StagesFit

\* A step that takes calls out of pending tables and perhaps moves stages, of
\* calls that were sent.
LEMMA FailsKeep ==
    ASSUME RpcInv, OnlyFails, stolen' \subseteq Calls,
           streams' \in [Calls -> Stream],
           \A k \in Calls : /\ StagesFit(streams'[k], handled[k])
                            /\ streams[k].out = "none" => streams'[k].out = "none",
           ends' = [c \in Conns |-> ends'[c]],
           \A c \in Conns : ends'[c] \in [Ends[c] -> {"new", "open", "closed"}]
    PROVE  RpcInv'
<1>1. UNCHANGED <<next_correlation_id, answered, handled>>
  BY DEF OnlyFails
<1>2. TypeOK'
  BY <1>1 DEF RpcInv, TypeOK, OnlyFails
<1>3. \A x \in Calls : Waiting(x)' => Waiting(x)
  BY CallParts DEF OnlyFails, Waiting, Caller, Id
<1>4. ASSUME NEW x \in Calls
      PROVE  StagesFit(streams'[x], handled'[x]) /\ FreshIsUnused(x)'
  <2>1. FreshIsUnused(x)
    BY DEF RpcInv
  <2> QED BY <1>1, <1>3, <2>1 DEF FreshIsUnused, Caller, Id
<1>5. \A x \in answered' : ~Waiting(x)'
  BY <1>1, <1>3 DEF RpcInv, TypeOK
<1> QED BY <1>2, <1>4, <1>5 DEF RpcInv, StagesFit

\* What every step is: it keeps the invariant and is a step of the abstract
\* call, or a stutter.
Implements == RpcInv' /\ [Call!Next]_<<status, handled>>

\* The fields of a call's stream.
LEMMA StreamFields ==
    ASSUME RpcInv, NEW k \in Calls
    PROVE  /\ streams[k] \in Stream /\ StagesFit(streams[k], handled[k])
           /\ \A out \in {"none", "queued", "opening", "sent", "done", "failed", "gone"} :
                 [streams[k] EXCEPT !.out = out] \in Stream
           /\ \A inn \in {"none", "incoming", "request", "unanswered", "responding",
                          "writing", "written", "failed", "gone"} :
                 [streams[k] EXCEPT !.inn = inn] \in Stream
BY DEF RpcInv, TypeOK, Stream

\* A step that moves only the stages of one call says nothing to the caller.
LEMMA StageSteps ==
    ASSUME RpcInv, NEW k \in Calls, NEW s \in Stream,
           StagesFit(s, handled[k]), streams[k].out # "none",
           streams' = [streams EXCEPT ![k] = s],
           UNCHANGED <<next_correlation_id, pending, ends, history>>
    PROVE  Implements
<1>1. RpcInv'
  BY StageKeeps
<1>2. OnlyFails
  BY DEF OnlyFails, history, RpcInv, TypeOK
<1> QED BY <1>1, <1>2, FailuresAreFail DEF Implements

\* The handlers at both ends and the wire between them.
LEMMA HandlerSteps ==
    ASSUME RpcInv, NEW k \in Calls,
           \/ RouteRequest(k) \/ WriteRequest(k) \/ OutboundFails(k) \/ OutboundDone(k)
           \/ InboundRead(k) \/ InboundReadFails(k) \/ SendResponse(k)
           \/ InboundWritten(k) \/ InboundWriteFails(k)
    PROVE  Implements
<1>0. streams[k] \in Stream /\ StagesFit(streams[k], handled[k]) /\ streams \in [Calls -> Stream]
  BY StreamFields DEF RpcInv, TypeOK
<1>1. CASE RouteRequest(k)
  <2>1. CASE \E c \in Conns : streams' = [streams EXCEPT ![k].out = "opening", ![k].conn = c]
    <3>1. PICK c \in Conns : streams' = [streams EXCEPT ![k].out = "opening", ![k].conn = c]
      BY <2>1
    <3> DEFINE s == [streams[k] EXCEPT !.out = "opening", !.conn = c]
    <3>2. s \in Stream /\ StagesFit(s, handled[k]) /\ streams' = [streams EXCEPT ![k] = s]
      BY <1>0, <1>1, <3>1 DEF RouteRequest, StagesFit, Stream
    <3> HIDE DEF s
    <3> QED BY <1>1, <3>2, StageSteps DEF RouteRequest
  <2>2. CASE SetOut(k, "gone")
    <3> DEFINE s == [streams[k] EXCEPT !.out = "gone"]
    <3>1. s \in Stream /\ StagesFit(s, handled[k]) /\ streams' = [streams EXCEPT ![k] = s]
      BY <1>0, <1>1, <2>2 DEF RouteRequest, StagesFit, Stream, SetOut
    <3> HIDE DEF s
    <3> QED BY <1>1, <3>1, StageSteps DEF RouteRequest
  <2> QED BY <1>1, <2>1, <2>2 DEF RouteRequest, Open
<1>2. CASE WriteRequest(k)
  <2> DEFINE s == [streams[k] EXCEPT !.out = "sent", !.inn = "incoming"]
  <2>1. s \in Stream /\ StagesFit(s, handled[k]) /\ streams' = [streams EXCEPT ![k] = s]
    BY <1>0, <1>2 DEF WriteRequest, StagesFit, Stream
  <2> HIDE DEF s
  <2> QED BY <1>2, <2>1, StageSteps DEF WriteRequest
<1>3. CASE OutboundFails(k)
  <2> DEFINE s == [streams[k] EXCEPT !.out = "failed"]
  <2>1. s \in Stream /\ StagesFit(s, handled[k]) /\ streams' = [streams EXCEPT ![k] = s]
    BY <1>0, <1>3 DEF OutboundFails, StagesFit, Stream, SetOut
  <2> HIDE DEF s
  <2> QED BY <1>3, <2>1, StageSteps DEF OutboundFails
<1>4. CASE OutboundDone(k)
  <2> DEFINE s == [streams[k] EXCEPT !.out = "done"]
  <2>1. s \in Stream /\ StagesFit(s, handled[k]) /\ streams' = [streams EXCEPT ![k] = s]
    BY <1>0, <1>4 DEF OutboundDone, StagesFit, Stream, SetOut
  <2> HIDE DEF s
  <2> QED BY <1>4, <2>1, StageSteps DEF OutboundDone
<1>5. ASSUME NEW stage \in {"request", "gone", "writing", "written", "failed"}, SetInn(k, stage),
             UNCHANGED <<next_correlation_id, pending, ends, history>>,
             streams[k].inn \in IF stage \in {"request", "gone"} THEN {"incoming"}
                                ELSE {"responding", "writing"}
      PROVE  Implements
  <2> DEFINE s == [streams[k] EXCEPT !.inn = stage]
  <2>1. s \in Stream /\ StagesFit(s, handled[k]) /\ streams' = [streams EXCEPT ![k] = s]
    BY <1>0, <1>5 DEF StagesFit, Stream, SetInn
  <2>2. streams[k].out # "none"
    BY <1>0, <1>5 DEF StagesFit
  <2> HIDE DEF s
  <2> QED BY <1>5, <2>1, <2>2, StageSteps
<1>6. CASE InboundRead(k)
  BY <1>5, <1>6 DEF InboundRead
<1>7. CASE InboundReadFails(k)
  BY <1>5, <1>7 DEF InboundReadFails
<1>8. CASE SendResponse(k)
  BY <1>5, <1>8 DEF SendResponse
<1>9. CASE InboundWritten(k) \/ InboundWriteFails(k)
  BY <1>5, <1>9 DEF InboundWritten, InboundWriteFails
<1> QED BY <1>1, <1>2, <1>3, <1>4, <1>6, <1>7, <1>8, <1>9

\* Failures: of one call in the Behaviour or its handler, and of the call that
\* the other side's failure hits.
LEMMA FailureSteps ==
    ASSUME RpcInv, NEW k \in Calls,
           OnFailure(k) \/ RpcTimeout(k) \/ OnInboundFailure(k)
    PROVE  Implements
<1>0. /\ streams[k] \in Stream /\ StagesFit(streams[k], handled[k])
      /\ streams \in [Calls -> Stream] /\ pending \in [Nodes -> SUBSET (1 .. MaxId)]
      /\ Caller(k) \in Nodes /\ stolen \subseteq Calls
  BY CallParts DEF RpcInv, TypeOK
<1>1. ASSUME NEW n \in Nodes, pending' = [pending EXCEPT ![n] = @ \ {Id(k)}],
             NEW s \in Stream, StagesFit(s, handled[k]), streams[k].out = "none" => s.out = "none",
             streams' = [streams EXCEPT ![k] = s], stolen' \subseteq Calls,
             UNCHANGED <<next_correlation_id, ends, answered, handled>>
      PROVE  Implements
  <2>1. OnlyFails
    BY <1>0, <1>1 DEF OnlyFails
  <2>2. ASSUME NEW x \in Calls
        PROVE  /\ StagesFit(streams'[x], handled[x])
               /\ streams[x].out = "none" => streams'[x].out = "none"
    <3>1. StagesFit(streams[x], handled[x]) /\ streams'[x] = IF x = k THEN s ELSE streams[x]
      BY <1>0, <1>1 DEF RpcInv
    <3> QED BY <1>1, <3>1
  <2>3. streams' \in [Calls -> Stream]
    BY <1>0, <1>1
  <2>4. ends' = [c \in Conns |-> ends'[c]]
        /\ \A c \in Conns : ends'[c] \in [Ends[c] -> {"new", "open", "closed"}]
    BY <1>1 DEF RpcInv, TypeOK
  <2>5. RpcInv'
    BY <1>1, <2>1, <2>2, <2>3, <2>4, FailsKeep
  <2> QED BY <2>1, <2>5, FailuresAreFail DEF Implements
<1>2. CASE OnFailure(k)
  <2> DEFINE s == [streams[k] EXCEPT !.out = "gone"]
  <2>1. s \in Stream /\ StagesFit(s, handled[k]) /\ streams' = [streams EXCEPT ![k] = s]
    BY <1>0, <1>2 DEF OnFailure, StagesFit, Stream, SetOut
  <2> HIDE DEF s
  <2> QED BY <1>0, <1>1, <1>2, <2>1 DEF OnFailure, history
<1>3. CASE RpcTimeout(k)
  <2>1. streams' = [streams EXCEPT ![k] = streams[k]]
    BY <1>0, <1>3 DEF RpcTimeout
  <2> QED BY <1>0, <1>1, <1>3, <2>1 DEF RpcTimeout, history
<1>4. CASE OnInboundFailure(k)
  <2> DEFINE s == [streams[k] EXCEPT !.inn = "gone"]
             n == streams[k].to
  <2>1. s \in Stream /\ StagesFit(s, handled[k]) /\ streams' = [streams EXCEPT ![k] = s]
    BY <1>0, <1>4 DEF OnInboundFailure, StagesFit, Stream, SetInn
  <2>2. streams[k].out # "none" /\ n \in Nodes
    BY <1>0, <1>4 DEF OnInboundFailure, StagesFit
  <2>3. stolen' \subseteq Calls
    <3>1. <<n, Id(k)>> \in Calls
      BY <2>2, CallParts DEF Calls
    <3> QED BY <1>0, <1>4, <3>1 DEF OnInboundFailure
  <2>4. pending' = [pending EXCEPT ![n] = @ \ {Id(k)}]
        /\ UNCHANGED <<next_correlation_id, ends, answered, handled>>
    BY <1>4 DEF OnInboundFailure
  <2> HIDE DEF s, n
  <2> QED BY <1>1, <2>1, <2>2, <2>3, <2>4
<1> QED BY <1>2, <1>3, <1>4

-----------------------------------------------------------------------------
(* The three steps that the caller sees as something other than a failure. *)

LEMMA SendStep ==
    ASSUME RpcInv, NEW n \in Callers, NEW p \in Nodes, SendRpc(n, p)
    PROVE  Implements
<1>0. PICK k \in Calls : k = <<n, next_correlation_id[n]>>
  BY DEF SendRpc
<1> DEFINE s == [streams[k] EXCEPT !.to = p, !.out = "queued"]
<1>1. /\ n \in Nodes /\ Caller(k) = n /\ Id(k) = next_correlation_id[n]
      /\ Id(k) \in 1 .. MaxId
      /\ next_correlation_id' = [next_correlation_id EXCEPT ![n] = @ + 1]
      /\ pending' = [pending EXCEPT ![n] = @ \cup {Id(k)}]
      /\ streams' = [streams EXCEPT ![k] = s]
      /\ UNCHANGED <<ends, answered, handled, stolen>>
  BY <1>0, CallParts DEF SendRpc, history, Caller, Id
<1>2. /\ next_correlation_id \in [Nodes -> 1 .. MaxId + 1]
      /\ pending \in [Nodes -> SUBSET (1 .. MaxId)]
      /\ streams \in [Calls -> Stream]
  BY DEF RpcInv, TypeOK
<1>3. FreshIsUnused(k) /\ StagesFit(streams[k], handled[k]) /\ streams[k] \in Stream
  BY <1>2 DEF RpcInv
<1>4. streams[k].out = "none" /\ ~Waiting(k) /\ k \notin answered
  BY <1>1, <1>3, IdsAssumption DEF FreshIsUnused
<1>5. s \in Stream /\ StagesFit(s, handled[k])
  BY <1>3, <1>4 DEF StagesFit, Stream
<1> HIDE DEF s
<1>6. TypeOK'
  <2>1. next_correlation_id' \in [Nodes -> 1 .. MaxId + 1]
    BY <1>1, <1>2, IdsAssumption
  <2>2. pending' \in [Nodes -> SUBSET (1 .. MaxId)]
    BY <1>1, <1>2
  <2>3. streams' \in [Calls -> Stream]
    BY <1>1, <1>2, <1>5
  <2> QED BY <1>1, <2>1, <2>2, <2>3 DEF RpcInv, TypeOK
<1>7. ASSUME NEW x \in Calls, x # k
      PROVE  (Waiting(x)' <=> Waiting(x)) /\ FreshIsUnused(x)'
  <2>1. Caller(x)' = Caller(x) /\ Id(x)' = Id(x) /\ Caller(x) \in Nodes /\ Id(x) \in Nat
    BY CallParts, IdsAssumption DEF Caller, Id
  <2>2. Caller(x) = n => Id(x) # Id(k)
    BY <1>1, <1>7, CallParts
  <2>3. Waiting(x)' <=> Waiting(x)
    BY <1>1, <1>2, <2>1, <2>2 DEF Waiting
  <2>4. Id(x) >= next_correlation_id'[Caller(x)] => Id(x) >= next_correlation_id[Caller(x)]
    BY <1>1, <1>2, <2>1, IdsAssumption
  <2>5. FreshIsUnused(x) /\ streams'[x] = streams[x]
    BY <1>1, <1>2, <1>7 DEF RpcInv
  <2> QED BY <1>1, <2>1, <2>3, <2>4, <2>5 DEF FreshIsUnused
<1>8. FreshIsUnused(k)'
  <2>1. ~(Id(k) >= next_correlation_id[Caller(k)])'
    BY <1>1, <1>2, IdsAssumption DEF Caller, Id
  <2> QED BY <2>1 DEF FreshIsUnused
<1>9. \A x \in Calls : StagesFit(streams'[x], handled'[x])
  <2> TAKE x \in Calls
  <2>1. streams'[x] = (IF x = k THEN s ELSE streams[x]) /\ StagesFit(streams[x], handled[x])
    BY <1>1, <1>2 DEF RpcInv
  <2> QED BY <1>1, <1>5, <2>1
<1>10. \A x \in answered' : ~Waiting(x)'
  BY <1>1, <1>4, <1>7 DEF RpcInv, TypeOK
<1>11. (ends = [c \in Conns |-> ends[c]])'
  BY <1>1 DEF RpcInv
<1>12. RpcInv'
  BY <1>6, <1>7, <1>8, <1>9, <1>10, <1>11 DEF RpcInv, StagesFit
<1> QED BY <1>1, <1>12, SendIsSend DEF Implements

LEMMA ResponseStep ==
    ASSUME RpcInv, NEW k \in Calls, OnResponse(k)
    PROVE  Implements
<1> DEFINE s == [streams[k] EXCEPT !.out = "gone"]
<1>1. /\ streams[k].out = "done" /\ streams' = [streams EXCEPT ![k] = s]
      /\ answered' = answered \cup {x \in {k} : Waiting(x)}
      /\ pending' = [pending EXCEPT ![Caller(k)] = @ \ {Id(k)}]
      /\ UNCHANGED <<next_correlation_id, ends, handled, stolen>>
  BY DEF OnResponse, SetOut
<1>2. /\ pending \in [Nodes -> SUBSET (1 .. MaxId)] /\ Caller(k) \in Nodes
      /\ streams \in [Calls -> Stream] /\ StagesFit(streams[k], handled[k])
  BY CallParts DEF RpcInv, TypeOK
<1>3. s \in Stream /\ StagesFit(s, handled[k])
  BY <1>1, <1>2 DEF StagesFit, Stream
<1> HIDE DEF s
<1>4. TypeOK'
  <2>1. pending' \in [Nodes -> SUBSET (1 .. MaxId)] /\ streams' \in [Calls -> Stream]
    BY <1>1, <1>2, <1>3
  <2> QED BY <1>1, <2>1 DEF RpcInv, TypeOK
<1>5. \A x \in Calls : (Waiting(x)' => Waiting(x)) /\ (x = k => ~Waiting(x)')
  BY <1>1, <1>2, CallParts DEF Waiting, Caller, Id
<1>6. ASSUME NEW x \in Calls
      PROVE  StagesFit(streams'[x], handled'[x]) /\ FreshIsUnused(x)'
  <2>1. /\ streams'[x] = IF x = k THEN s ELSE streams[x]
        /\ StagesFit(streams[x], handled[x]) /\ FreshIsUnused(x) /\ FreshIsUnused(k)
    BY <1>1, <1>2 DEF RpcInv
  <2>2. ~(Id(k) >= next_correlation_id[Caller(k)])
    BY <1>1, <2>1 DEF FreshIsUnused
  <2>3. CASE x = k
    BY <1>1, <1>3, <2>1, <2>2, <2>3 DEF FreshIsUnused, Caller, Id
  <2>4. CASE x # k
    BY <1>1, <1>5, <2>1, <2>4 DEF FreshIsUnused, Caller, Id
  <2> QED BY <2>3, <2>4
<1>7. \A x \in answered' : ~Waiting(x)'
  BY <1>1, <1>5 DEF RpcInv, TypeOK
<1>8. (ends = [c \in Conns |-> ends[c]])'
  BY <1>1 DEF RpcInv
<1>9. RpcInv'
  BY <1>4, <1>6, <1>7, <1>8 DEF RpcInv, StagesFit
<1> QED BY <1>9, ResponseIsAnswer DEF Implements

LEMMA RequestStep ==
    ASSUME RpcInv, NEW k \in Calls, OnRequest(k)
    PROVE  Implements
<1>0. PICK stage \in {"responding", "unanswered"}, h \in 0 .. 1 :
         /\ stage = "responding" <=> <<streams[k].to, Caller(k)>> \in Knows
         /\ h = IF stage = "responding" THEN 1 ELSE 0
  OBVIOUS
<1> DEFINE s == [streams[k] EXCEPT !.inn = stage]
<1>1. /\ streams[k] \in Stream /\ StagesFit(streams[k], handled[k])
      /\ streams \in [Calls -> Stream] /\ handled \in [Calls -> 0 .. 1]
  BY DEF RpcInv, TypeOK
<1>2. /\ streams[k].inn = "request" /\ streams' = [streams EXCEPT ![k] = s]
      /\ handled[k] = 0 /\ handled' = [handled EXCEPT ![k] = h]
      /\ UNCHANGED <<next_correlation_id, pending, ends, answered, stolen>>
  <2>1. streams[k].inn = "request" /\ handled[k] = 0
    BY <1>1 DEF OnRequest, StagesFit
  <2>2. streams' = [streams EXCEPT ![k] = s]
    <3>1. CASE <<streams[k].to, Caller(k)>> \in Knows
      BY <1>0, <1>1, <3>1 DEF OnRequest, SetInn
    <3>2. CASE <<streams[k].to, Caller(k)>> \notin Knows
      BY <1>0, <1>1, <3>2 DEF OnRequest, SetInn
    <3> QED BY <3>1, <3>2
  <2>3. handled' = [handled EXCEPT ![k] = h]
    <3>1. CASE <<streams[k].to, Caller(k)>> \in Knows
      <4>1. handled' = [handled EXCEPT ![k] = handled[k] + 1] /\ h = 1
        BY <1>0, <3>1 DEF OnRequest
      <4> QED BY <2>1, <4>1
    <3>2. CASE <<streams[k].to, Caller(k)>> \notin Knows
      BY <1>0, <1>1, <2>1, <3>2 DEF OnRequest
    <3> QED BY <3>1, <3>2
  <2> QED BY <2>1, <2>2, <2>3 DEF OnRequest
<1>3. s \in Stream /\ StagesFit(s, h) /\ s.out # "none"
  BY <1>0, <1>1, <1>2 DEF StagesFit, Stream
<1> HIDE DEF s
<1>4. TypeOK'
  <2>1. streams' \in [Calls -> Stream] /\ handled' \in [Calls -> 0 .. 1]
    BY <1>1, <1>2, <1>3
  <2> QED BY <1>2, <2>1 DEF RpcInv, TypeOK
<1>5. ASSUME NEW x \in Calls
      PROVE  StagesFit(streams'[x], handled'[x]) /\ FreshIsUnused(x)'
  <2>1. /\ streams'[x] = IF x = k THEN s ELSE streams[x]
        /\ handled'[x] = IF x = k THEN h ELSE handled[x]
        /\ StagesFit(streams[x], handled[x]) /\ FreshIsUnused(x)
    BY <1>1, <1>2 DEF RpcInv
  <2>2. streams[k].out # "none"
    BY <1>1, <1>2 DEF StagesFit
  <2> QED BY <1>2, <1>3, <2>1, <2>2 DEF FreshIsUnused, Waiting, Caller, Id
<1>6. (\A x \in answered : ~Waiting(x))' /\ (ends = [c \in Conns |-> ends[c]])'
  BY <1>2 DEF RpcInv, Waiting, Caller, Id
<1>7. RpcInv'
  BY <1>4, <1>5, <1>6 DEF RpcInv, StagesFit
<1> QED BY <1>7, RequestIsHandle DEF Implements

-----------------------------------------------------------------------------
(* Connections.                                                            *)

\* A connection that goes down takes the stages at one of its ends along.
LEMMA DroppedFits ==
    ASSUME NEW s \in Stream, NEW k, NEW n, NEW c, NEW h, StagesFit(s, h)
    PROVE  /\ Dropped(s, k, n, c) \in Stream /\ StagesFit(Dropped(s, k, n, c), h)
           /\ s.out = "none" => Dropped(s, k, n, c).out = "none"
<1>1. /\ Dropped(s, k, n, c) \in Stream
      /\ Dropped(s, k, n, c).to = s.to
      /\ Dropped(s, k, n, c).out = s.out
         \/ (Dropped(s, k, n, c).out = "gone" /\ s.out \notin {"none", "queued", "gone"})
      /\ Dropped(s, k, n, c).inn = s.inn
         \/ (Dropped(s, k, n, c).inn = "gone" /\ s.inn \notin {"none", "written"})
  BY DEF Dropped, Stream
<1> QED BY <1>1 DEF StagesFit, Stream

LEMMA ConnectionSteps ==
    ASSUME RpcInv, NEW n \in Nodes, NEW c \in Conns,
           ConnectionEstablished(n, c) \/ ConnectionClosed(n, c)
    PROVE  Implements
<1>0. /\ streams \in [Calls -> Stream] /\ pending \in [Nodes -> SUBSET (1 .. MaxId)]
      /\ stolen \subseteq Calls
      /\ \A k \in Calls : StagesFit(streams[k], handled[k])
      /\ ends = [x \in Conns |-> ends[x]]
      /\ \A x \in Conns : ends[x] \in [Ends[x] -> {"new", "open", "closed"}]
  BY DEF RpcInv, TypeOK
<1>1. \A x \in Conns, v \in {"open", "closed"} :
         n \in Ends[c] => LET e == [ends EXCEPT ![c][n] = v] IN
            e = [y \in Conns |-> e[y]] /\ e[x] \in [Ends[x] -> {"new", "open", "closed"}]
  <2> SUFFICES ASSUME NEW x \in Conns, NEW v \in {"open", "closed"}, n \in Ends[c]
               PROVE  LET e == [ends EXCEPT ![c][n] = v] IN
                      e = [y \in Conns |-> e[y]] /\ e[x] \in [Ends[x] -> {"new", "open", "closed"}]
    OBVIOUS
  <2> QED BY <1>0
<1>2. CASE ConnectionEstablished(n, c)
  <2>1. OnlyFails
    BY <1>0, <1>2 DEF OnlyFails, ConnectionEstablished, history
  <2>2. RpcInv'
    <3>1. streams' = streams /\ stolen' = stolen /\ n \in Ends[c]
          /\ ends' = [ends EXCEPT ![c][n] = "open"]
      BY <1>2 DEF ConnectionEstablished, history
    <3>2. ends' = [x \in Conns |-> ends'[x]]
          /\ \A x \in Conns : ends'[x] \in [Ends[x] -> {"new", "open", "closed"}]
      BY <1>1, <3>1
    <3> QED BY <1>0, <2>1, <3>1, <3>2, FailsKeep
  <2> QED BY <2>1, <2>2, FailuresAreFail DEF Implements
<1>3. CASE ConnectionClosed(n, c)
  <2>1. OnlyFails
    BY <1>0, <1>3 DEF OnlyFails, ConnectionClosed, history
  <2>2. RpcInv'
    <3>1. streams' = [k \in Calls |-> Dropped(streams[k], k, n, c)] /\ stolen' = stolen
          /\ n \in Ends[c] /\ ends' = [ends EXCEPT ![c][n] = "closed"]
      BY <1>3 DEF ConnectionClosed, history
    <3>2. ends' = [x \in Conns |-> ends'[x]]
          /\ \A x \in Conns : ends'[x] \in [Ends[x] -> {"new", "open", "closed"}]
      BY <1>1, <3>1
    <3>3. ASSUME NEW k \in Calls
          PROVE  /\ streams'[k] \in Stream /\ StagesFit(streams'[k], handled[k])
                 /\ streams[k].out = "none" => streams'[k].out = "none"
      <4>1. streams'[k] = Dropped(streams[k], k, n, c)
        BY <3>1
      <4>2. streams[k] \in Stream /\ StagesFit(streams[k], handled[k])
        BY <1>0
      <4>3. /\ Dropped(streams[k], k, n, c) \in Stream
            /\ StagesFit(Dropped(streams[k], k, n, c), handled[k])
            /\ streams[k].out = "none" => Dropped(streams[k], k, n, c).out = "none"
        BY <4>2, DroppedFits
      <4> QED BY <4>1, <4>3
    <3>4. streams' \in [Calls -> Stream]
      BY <3>1, <3>3
    <3> QED BY <1>0, <2>1, <3>1, <3>2, <3>3, <3>4, FailsKeep
  <2> QED BY <2>1, <2>2, FailuresAreFail DEF Implements
<1> QED BY <1>2, <1>3

LEMMA DialFailureStep ==
    ASSUME RpcInv, NEW n \in Nodes, NEW p \in Nodes, DialFailure(n, p)
    PROVE  Implements
<1>0. /\ UNCHANGED <<next_correlation_id, streams, ends, answered, handled, stolen>>
      /\ pending' = [pending EXCEPT ![n] = @ \ PendingTo(n, p)]
  BY DEF DialFailure, history
<1>1. OnlyFails
  BY <1>0 DEF OnlyFails, RpcInv, TypeOK
<1>2. RpcInv'
  BY <1>0, <1>1, FailsKeep DEF RpcInv, TypeOK
<1> QED BY <1>1, <1>2, FailuresAreFail DEF Implements

-----------------------------------------------------------------------------
(* The theorems.                                                           *)

LEMMA InitRpcInv == Init => RpcInv /\ Call!Init
<1> SUFFICES ASSUME Init PROVE RpcInv /\ Call!Init
  OBVIOUS
<1>1. TypeOK /\ ends = [c \in Conns |-> ends[c]]
  <2>1. next_correlation_id \in [Nodes -> 1 .. MaxId + 1]
        /\ pending \in [Nodes -> SUBSET (1 .. MaxId)]
        /\ streams \in [Calls -> Stream] /\ handled \in [Calls -> 0 .. 1]
    BY IdsAssumption DEF Init, Stream
  <2>2. ends = [c \in Conns |-> ends[c]]
        /\ \A c \in Conns : ends[c] \in [Ends[c] -> {"new", "open", "closed"}]
    BY DEF Init
  <2> QED BY <2>1, <2>2 DEF Init, TypeOK
<1>2. ASSUME NEW k \in Calls
      PROVE  StagesFit(streams[k], handled[k]) /\ FreshIsUnused(k) /\ Status(k) = "unsent"
  <2>1. Id(k) >= next_correlation_id[Caller(k)] /\ pending[Caller(k)] = {}
    BY CallParts, IdsAssumption DEF Init
  <2> QED BY <2>1 DEF Init, StagesFit, FreshIsUnused, Waiting, Status
<1>3. RpcInv
  BY <1>1, <1>2 DEF RpcInv, Init
<1>4. Call!Init
  BY <1>2 DEF Call!Init, Init
<1> QED BY <1>3, <1>4

LEMMA RpcStep ==
    ASSUME RpcInv, [Next]_vars
    PROVE  Implements
<1>1. CASE UNCHANGED vars
  <2>1. OnlyFails
    BY <1>1 DEF vars, OnlyFails, RpcInv, TypeOK
  <2>2. RpcInv'
    BY <1>1, <2>1, FailsKeep DEF vars, RpcInv, TypeOK
  <2> QED BY <2>1, <2>2, FailuresAreFail DEF Implements
<1>2. ASSUME NEW n \in Callers, NEW p \in Nodes, SendRpc(n, p) PROVE Implements
  BY <1>2, SendStep
<1>3. ASSUME NEW n \in Nodes, NEW p \in Nodes, DialFailure(n, p) PROVE Implements
  BY <1>3, DialFailureStep
<1>4. ASSUME NEW n \in Nodes, NEW c \in Conns,
             ConnectionEstablished(n, c) \/ ConnectionClosed(n, c)
      PROVE  Implements
  BY <1>4, ConnectionSteps
<1>5. ASSUME NEW k \in Calls,
             \/ RouteRequest(k) \/ WriteRequest(k) \/ OutboundFails(k) \/ OutboundDone(k)
             \/ OnResponse(k) \/ OnFailure(k) \/ RpcTimeout(k)
             \/ InboundRead(k) \/ InboundReadFails(k) \/ OnRequest(k) \/ SendResponse(k)
             \/ InboundWritten(k) \/ InboundWriteFails(k) \/ OnInboundFailure(k)
      PROVE  Implements
  BY <1>5, HandlerSteps, FailureSteps, ResponseStep, RequestStep
<1> QED BY <1>1, <1>2, <1>3, <1>4, <1>5 DEF Next

\* The invariant of the substreams and the pending tables.
THEOREM RpcInvariant == Spec => []RpcInv
<1>1. Init => RpcInv
  BY InitRpcInv
<1>2. RpcInv /\ [Next]_vars => RpcInv'
  BY RpcStep DEF Implements
<1> QED BY <1>1, <1>2, PTL DEF Spec

\* The types of the tables and stages, and that no request reaches the engine
\* of the other node twice (on_connection_handler_event takes it out of the
\* handler as it passes it on).
THEOREM RpcTyped == Spec => []TypeOK
<1>1. RpcInv => TypeOK
  BY DEF RpcInv
<1> QED BY <1>1, RpcInvariant, PTL

\* The pending table of behaviour.rs, the handlers and any number of
\* connections implement the abstract call: one end, an answer only after the
\* remote engine handled the request, and never handled twice.
THEOREM CallsEndOnce == Spec => CallsAreUnary
<1>1. Init => Call!Init
  BY InitRpcInv
<1>2. RpcInv /\ [Next]_vars => [Call!Next]_<<status, handled>>
  BY RpcStep DEF Implements
<1> QED BY <1>1, <1>2, RpcInvariant, PTL DEF Spec, CallsAreUnary, Call!Spec, status
=============================================================================
