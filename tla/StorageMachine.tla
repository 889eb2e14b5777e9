---------------------------- MODULE StorageMachine ----------------------------
(***************************************************************************)
(* A MemoryStorage behind the Storage trait, driven by any caller: persist *)
(* with any hard state and any batch, truncate_from and install_snapshot.  *)
(***************************************************************************)
EXTENDS MemoryStorage

CONSTANTS
    MaxIndex,   \* the largest entry index of a batch
    MaxTerm,    \* the largest term of an entry
    MaxBatch,   \* the largest number of entries in one persist
    HardStates, \* the hard states a caller passes
    Snapshots   \* the snapshots a caller passes

ASSUME StorageBounds ==
    /\ MaxIndex \in Nat /\ MaxTerm \in Nat /\ MaxBatch \in Nat
    /\ HardStates \subseteq HardState
    /\ Snapshots \subseteq Snapshot

VARIABLES
    st,         \* the storage
    result      \* what the last call returned

vars == <<st, result>>

Entries == [index : 0 .. MaxIndex, term : 1 .. MaxTerm, data : Data]
Batches == UNION {[1 .. n -> Entries] : n \in 0 .. MaxBatch}

Init == st = NewStorage /\ result = "Ok"

\* persist(Some(hs), batch), and persist(None, batch) with the old hard state.
Persist(hs, batch) ==
    /\ st' = PersistEntries(PersistHardState(st, hs), batch)
    /\ result' = IF PersistOk(st, batch) THEN "Ok" ELSE "Err"

Truncate(index) == st' = TruncateFrom(st, index) /\ result' = "Ok"

Install(snap) == st' = InstallSnapshot(st, snap) /\ result' = "Ok"

Next ==
    \/ \E hs \in HardStates \cup {st.hard_state}, batch \in Batches : Persist(hs, batch)
    \/ \E index \in 0 .. MaxIndex + 1 : Truncate(index)
    \/ \E snap \in Snapshots : Install(snap)

Spec == Init /\ [][Next]_vars

-----------------------------------------------------------------------------
(* persist as the loop it is in the source, on the log alone: the          *)
(* reference for the closed form of MemoryStorage.                         *)

\* One turn: push at the end, overwrite and cut, or return an error.
LoopStep(loop, entry) ==
    LET slot == entry.index - 1 IN
    IF ~loop.ok THEN loop
    ELSE IF entry.index # 0 /\ slot = Len(loop.entries)
    THEN [loop EXCEPT !.entries = Append(@, entry)]
    ELSE IF entry.index # 0 /\ slot < Len(loop.entries)
    THEN [loop EXCEPT !.entries = SubSeq([@ EXCEPT ![entry.index] = entry], 1, entry.index)]
    ELSE [loop EXCEPT !.ok = FALSE]

\* The log and the result after n entries of the batch.
PersistLoop(entries, batch) ==
    LET loop[n \in 0 .. Len(batch)] ==
            IF n = 0 THEN [entries |-> entries, ok |-> TRUE]
            ELSE LoopStep(loop[n - 1], batch[n])
    IN  loop

-----------------------------------------------------------------------------
\* Whatever callers write and truncate, in any order and with batches that
\* fail half-way, the entry at position k is the one with index k: entry()
\* addresses the log by position and last_index_term reads the stored index,
\* and the engine relies on their agreement.
SlotHoldsItsIndex == \A k \in DOMAIN st.entries : st.entries[k].index = k

\* A batch that persist accepts is in the log afterwards, the log ends with
\* it, and the entries before its lowest index are untouched.
AcceptedBatchIsReadBack ==
    \A batch \in Batches \ {<<>>} : PersistOk(st, batch) =>
        LET after == PersistEntries(st, batch)
            low == Min({batch[n].index : n \in DOMAIN batch})
        IN  /\ LastIndex(after) = batch[Len(batch)].index
            /\ \A n \in DOMAIN batch :
                  (\A m \in n + 1 .. Len(batch) : batch[m].index > batch[n].index)
                  => EntryAt(after, batch[n].index) = batch[n]
            /\ \A k \in 1 .. low - 1 : EntryAt(after, k) = EntryAt(st, k)

\* For every log the storage can reach and every batch, the closed form
\* writes what the loop of persist writes and fails when the loop fails.
PersistMatchesLoop ==
    \A batch \in Batches :
        LET end == PersistLoop(st.entries, batch)[Len(batch)] IN
        /\ PersistEntries(st, batch).entries = end.entries
        /\ PersistOk(st, batch) <=> end.ok
=============================================================================
