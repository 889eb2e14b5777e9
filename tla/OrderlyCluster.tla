---------------------------- MODULE OrderlyCluster ----------------------------
(***************************************************************************)
(* RaftCluster with a history variable that tells whether every office so  *)
(* far began without a leftover: an AppendEntries of an earlier office of  *)
(* the same node that is still in its pending table.  The engine keeps one *)
(* mark in ae_inflight and one last_ae per peer; this module states when   *)
(* that is enough.                                                         *)
(***************************************************************************)
EXTENDS RaftCluster

VARIABLE orderly    \* no leader has waited for an answer to an earlier office

\* No leader waits for the answer to an AppendEntries of an earlier office of
\* its own.  The code does not see to it: become_follower and become_leader
\* clear ae_inflight and last_ae, but not the pending table of behaviour.rs.
NoLeftovers ==
    \A r \in rpcs : r.waiting /\ r.req.kind = "AppendEntries" /\ eng[r.from].role = Leader
                    => r.req.term = CurrentTerm(eng[r.from])

OrderlyInit == Init /\ orderly = TRUE

OrderlyNext == Next /\ orderly' = (orderly /\ NoLeftovers')

OrderlySpec == OrderlyInit /\ [][OrderlyNext]_<<vars, orderly>>

\* As long as no office began with a leftover in the pending table, one mark
\* and one last_ae per peer are enough: an answer is always to the
\* AppendEntries that last_ae remembers, through failures, late answers and
\* rejects.
CreditsMatch == orderly => ~mixup
=============================================================================
