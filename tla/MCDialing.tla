------------------------------- MODULE MCDialing -------------------------------
(* Two nodes for TLC. *)
EXTENDS Dialing, TLC

CONSTANTS n1, n2

MCNodes == {n1, n2}

\* The jitter of dial_backoff_jitter_ms differs from node to node.
MCBackoff == n1 :> 1 @@ n2 :> 2
=============================================================================
