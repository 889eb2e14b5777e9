---------------------------- MODULE DialingProofs ----------------------------
(***************************************************************************)
(* The two safety properties of Dialing, for any back-off and any number   *)
(* of connections, broken connections and failed dials.                    *)
(***************************************************************************)
EXTENDS Dialing, TLAPS

DialTypes ==
    /\ dialing \in [Nodes -> BOOLEAN] /\ pending \in [Nodes -> BOOLEAN]
    /\ dials \in [Nodes -> Nat] /\ attempt \in [Nodes -> BOOLEAN]
    /\ conn \in [Conns -> [Nodes -> {"none", "up", "gone"}]]

DialInv == DialTypes /\ DialIsUnderWay /\ PendingIsConnected

\* The state of a connection's ends after SetEnd: the other end is as it was,
\* unless the connection is down at both and makes room.
LEMMA SetEndState ==
    ASSUME DialTypes, NEW c \in Conns, NEW n \in Nodes, NEW state \in {"up", "gone"},
           SetEnd(c, n, state)
    PROVE  /\ conn' \in [Conns -> [Nodes -> {"none", "up", "gone"}]]
           /\ \A d \in Conns, x \in Nodes :
                 d # c \/ x # n => (conn'[d][x] = "up" <=> conn[d][x] = "up")
           /\ conn'[c][n] = "up" <=> state = "up"
<1> DEFINE ends == [conn[c] EXCEPT ![n] = state]
<1>1. /\ conn \in [Conns -> [Nodes -> {"none", "up", "gone"}]]
      /\ conn' = [conn EXCEPT ![c] = IF \E x \in Nodes : ends[x] = "up" THEN ends ELSE Unused]
  BY DEF DialTypes, SetEnd
<1>2. /\ ends \in [Nodes -> {"none", "up", "gone"}]
      /\ ends[n] = state
      /\ \A x \in Nodes : x # n => ends[x] = conn[c][x]
  BY <1>1
<1>3. Unused \in [Nodes -> {"none", "up", "gone"}] /\ \A x \in Nodes : Unused[x] = "none"
  BY DEF Unused
<1> HIDE DEF ends
<1>4. CASE \E x \in Nodes : ends[x] = "up"
  <2>1. conn' = [conn EXCEPT ![c] = ends]
    BY <1>1, <1>4
  <2> QED BY <1>1, <1>2, <2>1
<1>5. CASE ~\E x \in Nodes : ends[x] = "up"
  <2>1. conn' = [conn EXCEPT ![c] = Unused]
    BY <1>1, <1>5
  <2> QED BY <1>1, <1>2, <1>3, <1>5, <2>1
<1> QED BY <1>4, <1>5

\* What the steps of a node do: for the others nothing changes but their end
\* of a connection, which stays up.
LEMMA DialStep ==
    ASSUME DialInv, [Next]_vars
    PROVE  DialInv'
<1>0. DialTypes /\ DialIsUnderWay /\ PendingIsConnected
  BY DEF DialInv
\* Steps that leave every connection alone.
<1>1. ASSUME UNCHANGED conn, DialTypes', DialIsUnderWay',
             \A n \in Nodes : pending'[n] => pending[n] \/ IsConnected(n)
      PROVE  DialInv'
  BY <1>0, <1>1 DEF DialInv, PendingIsConnected, IsConnected
<1>2. CASE UNCHANGED vars
  <2>1. UNCHANGED <<conn, dialing, pending, dials, attempt>>
    BY <1>2 DEF vars
  <2> QED BY <1>0, <1>1, <2>1 DEF DialTypes, DialIsUnderWay
<1>3. CASE Pass
  <2>1. UNCHANGED <<conn, dialing, pending, dials, attempt>>
    BY <1>3 DEF Pass
  <2> QED BY <1>0, <1>1, <2>1 DEF DialTypes, DialIsUnderWay
<1>4. ASSUME NEW n \in Nodes, SendRpc(n) PROVE DialInv'
  <2>1. CASE DialSeed(n)
    <3>1. DialTypes' /\ DialIsUnderWay' /\ pending' = pending
      BY <1>0, <1>4, <2>1 DEF SendRpc, DialSeed, DialTypes, DialIsUnderWay
    <3> QED BY <1>1, <1>4, <3>1 DEF SendRpc
  <2>2. CASE UNCHANGED behaviour
    <3>1. DialTypes' /\ DialIsUnderWay' /\ pending' = pending
      BY <1>0, <1>4, <2>2 DEF SendRpc, behaviour, DialTypes, DialIsUnderWay
    <3> QED BY <1>1, <1>4, <3>1 DEF SendRpc
  <2>3. CASE IsConnected(n) /\ pending' = [pending EXCEPT ![n] = TRUE]
             /\ UNCHANGED <<dialing, dial_backoff_until, dials>>
    <3>1. DialTypes' /\ DialIsUnderWay'
      BY <1>0, <1>4, <2>3 DEF SendRpc, DialTypes, DialIsUnderWay
    <3>2. \A x \in Nodes : pending'[x] => pending[x] \/ IsConnected(x)
      BY <1>0, <2>3 DEF DialTypes
    <3> QED BY <1>1, <1>4, <3>1, <3>2 DEF SendRpc
  <2> QED BY <1>4, <2>1, <2>2, <2>3 DEF SendRpc
<1>5. ASSUME NEW n \in Nodes, RpcsEnd(n) PROVE DialInv'
  <2>1. DialTypes' /\ DialIsUnderWay'
    BY <1>0, <1>5 DEF RpcsEnd, DialTypes, DialIsUnderWay
  <2>2. \A x \in Nodes : pending'[x] => pending[x] \/ IsConnected(x)
    BY <1>0, <1>5 DEF RpcsEnd, DialTypes
  <2> QED BY <1>1, <1>5, <2>1, <2>2 DEF RpcsEnd
<1>6. ASSUME NEW n \in Nodes, TakeDial(n) PROVE DialInv'
  <2>1. CASE OnDialFailure(n, TRUE) /\ UNCHANGED attempt
    <3>1. DialTypes' /\ DialIsUnderWay'
      BY <1>0, <1>6, <2>1 DEF TakeDial, OnDialFailure, DialTypes, DialIsUnderWay
    <3>2. \A x \in Nodes : pending'[x] => pending[x] \/ IsConnected(x)
      BY <1>0, <2>1 DEF OnDialFailure, DialTypes
    <3> QED BY <1>1, <1>6, <3>1, <3>2 DEF TakeDial
  <2>2. CASE attempt' = [attempt EXCEPT ![n] = TRUE]
             /\ UNCHANGED <<dialing, dial_backoff_until, pending>>
    <3>1. DialTypes' /\ DialIsUnderWay'
      BY <1>0, <1>6, <2>2 DEF TakeDial, DialTypes, DialIsUnderWay
    <3> QED BY <1>1, <1>6, <2>2, <3>1 DEF TakeDial
  <2> QED BY <1>6, <2>1, <2>2 DEF TakeDial
\* A connection comes up at n.
<1>7. ASSUME NEW n \in Nodes, NEW c \in Conns, SetEnd(c, n, "up"), OnConnectionEstablished(n),
             attempt' \in {attempt, [attempt EXCEPT ![n] = FALSE]}
      PROVE  DialInv'
  <2>1. /\ conn' \in [Conns -> [Nodes -> {"none", "up", "gone"}]]
        /\ \A x \in Nodes : IsConnected(x) => IsConnected(x)'
    BY <1>0, <1>7, SetEndState DEF IsConnected
  <2>2. DialTypes' /\ DialIsUnderWay'
    BY <1>0, <1>7, <2>1 DEF OnConnectionEstablished, DialTypes, DialIsUnderWay
  <2>3. PendingIsConnected'
    BY <1>0, <1>7, <2>1 DEF OnConnectionEstablished, PendingIsConnected
  <2> QED BY <2>2, <2>3 DEF DialInv
<1>8. ASSUME NEW n \in Nodes, Connect(n) PROVE DialInv'
  BY <1>7, <1>8 DEF Connect, Opening
<1>9. ASSUME NEW n \in Nodes, Accept(n) PROVE DialInv'
  BY <1>7, <1>9 DEF Accept
<1>10. ASSUME NEW n \in Nodes, DialFails(n) PROVE DialInv'
  <2>1. PICK benign \in BOOLEAN : OnDialFailure(n, benign)
    BY <1>10 DEF DialFails
  <2>2. /\ conn' \in [Conns -> [Nodes -> {"none", "up", "gone"}]]
        /\ \A c \in Conns, x \in Nodes : conn[c][x] = "up" => conn'[c][x] = "up"
    BY <1>0, <1>10 DEF DialFails, DialTypes
  <2>3. DialTypes' /\ DialIsUnderWay'
    BY <1>0, <1>10, <2>1, <2>2 DEF DialFails, OnDialFailure, DialTypes, DialIsUnderWay
  <2>4. PendingIsConnected'
    BY <1>0, <2>1, <2>2 DEF OnDialFailure, DialTypes, PendingIsConnected, IsConnected
  <2> QED BY <2>3, <2>4 DEF DialInv
<1>11. ASSUME NEW n \in Nodes, NEW c \in Conns, Close(n, c) PROVE DialInv'
  <2>0. PICK up \in BOOLEAN : up <=> \E d \in Conns \ {c} : conn[d][n] = "up"
    OBVIOUS
  <2>1. /\ dialing' = [dialing EXCEPT ![n] = FALSE]
        /\ \A x \in Nodes : pending'[x] => pending[x] /\ (x = n => up)
        /\ pending' \in [Nodes -> BOOLEAN]
        /\ UNCHANGED <<dials, attempt>>
    BY <1>0, <1>11, <2>0 DEF Close, OnConnectionClosed, DialTypes
  <2>2. /\ conn' \in [Conns -> [Nodes -> {"none", "up", "gone"}]]
        /\ \A d \in Conns, x \in Nodes :
              d # c \/ x # n => (conn'[d][x] = "up" <=> conn[d][x] = "up")
    BY <1>0, <1>11, SetEndState DEF Close
  <2>3. DialTypes' /\ DialIsUnderWay'
    BY <1>0, <2>1, <2>2 DEF DialTypes, DialIsUnderWay
  <2>4. PendingIsConnected'
    <3> SUFFICES ASSUME NEW x \in Nodes, pending'[x] PROVE IsConnected(x)'
      BY DEF PendingIsConnected
    <3>1. CASE x = n
      BY <2>0, <2>1, <2>2, <3>1 DEF IsConnected
    <3>2. CASE x # n
      BY <1>0, <2>1, <2>2, <3>2 DEF IsConnected, PendingIsConnected
    <3> QED BY <3>1, <3>2
  <2> QED BY <2>3, <2>4 DEF DialInv
<1> QED BY <1>2, <1>3, <1>4, <1>5, <1>6, <1>8, <1>9, <1>10, <1>11 DEF Next

THEOREM DialInvariant == Spec => []DialInv
<1>1. Init => DialInv
  BY DEF Init, DialInv, DialTypes, DialIsUnderWay, PendingIsConnected, Unused
<1>2. DialInv /\ [Next]_vars => DialInv'
  BY DialStep
<1> QED BY <1>1, <1>2, PTL DEF Spec

\* A peer in the set dialing of behaviour.rs always has a Dial or an attempt
\* on its way, so that dial_seed is never blocked for good.
THEOREM DialingEnds == Spec => []DialIsUnderWay
<1>1. DialInv => DialIsUnderWay
  BY DEF DialInv
<1> QED BY <1>1, DialInvariant, PTL

\* on_connection_closed and on_dial_failure leave no RPC pending to a peer
\* that is not connected, with any number of connections to it.
THEOREM PendingNeedsConnection == Spec => []PendingIsConnected
<1>1. DialInv => PendingIsConnected
  BY DEF DialInv
<1> QED BY <1>1, DialInvariant, PTL
=============================================================================
