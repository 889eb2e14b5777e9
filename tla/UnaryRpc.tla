------------------------------- MODULE UnaryRpc -------------------------------
(***************************************************************************)
(* What the transport promises of a remote call: it ends at most once,     *)
(* with an answer or with a failure; the remote engine handles it at most  *)
(* once; an answer means that it did; and a failure says nothing, the      *)
(* request may have been handled or may still be.  The pending RPCs of     *)
(* RaftCluster behave like this.                                           *)
(***************************************************************************)
EXTENDS Naturals

CONSTANT Calls

VARIABLES
    status,     \* [Calls -> {"unsent", "open", "answered", "failed"}]
    handled     \* [Calls -> Nat]: how often the remote engine handled it

Init ==
    /\ status = [k \in Calls |-> "unsent"]
    /\ handled = [k \in Calls |-> 0]

Send(k) ==
    /\ status[k] = "unsent"
    /\ status' = [status EXCEPT ![k] = "open"]
    /\ UNCHANGED handled

Handle(k) ==
    /\ status[k] # "unsent" /\ handled[k] = 0
    /\ handled' = [handled EXCEPT ![k] = 1]
    /\ UNCHANGED status

Answer(k) ==
    /\ status[k] = "open" /\ handled[k] = 1
    /\ status' = [status EXCEPT ![k] = "answered"]
    /\ UNCHANGED handled

\* The calls of a set fail together, as when a connection closes.
Fail(K) ==
    /\ K # {} /\ \A k \in K : status[k] = "open"
    /\ status' = [k \in Calls |-> IF k \in K THEN "failed" ELSE status[k]]
    /\ UNCHANGED handled

Next ==
    \/ \E k \in Calls : Send(k) \/ Handle(k) \/ Answer(k)
    \/ \E K \in SUBSET Calls : Fail(K)

Spec == Init /\ [][Next]_<<status, handled>>
=============================================================================
