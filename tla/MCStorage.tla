------------------------------ MODULE MCStorage ------------------------------
(* What a caller passes, for TLC. *)
EXTENDS StorageMachine

MCHardStates == {[current_term |-> 1, voted_for |-> None]}
MCSnapshots == {[last_included_index |-> 1, last_included_term |-> 1,
                 conf |-> <<>>, state_blob |-> d] :
                    d \in Data}
=============================================================================
