---------------------------- MODULE MemoryStorage ----------------------------
(***************************************************************************)
(* The operations of storage/memory.rs on a storage value: the hard state, *)
(* the log and the snapshot of one node.  Every operation is a function of *)
(* the storage before it, so that the engine can use it inside a handler.  *)
(***************************************************************************)
EXTENDS Integers, Sequences, FiniteSetsExt

CONSTANTS
    Voters,     \* the configured node ids
    Data,       \* the payloads of commands and snapshots
    None        \* Option::None

ASSUME NoneAssumption == None \notin Voters

LogEntry == [index : Nat, term : Nat, data : Data]
HardState == [current_term : Nat, voted_for : Voters \cup {None}]
Snapshot == [last_included_index : Nat, last_included_term : Nat,
             conf : Seq(Voters), state_blob : Data]

Storage == [hard_state : HardState,
            entries    : Seq(LogEntry),
            snapshot   : Snapshot \cup {None}]

\* MemoryStorage::new
NewStorage == [hard_state |-> [current_term |-> 0, voted_for |-> None],
               entries    |-> <<>>,
               snapshot   |-> None]

-----------------------------------------------------------------------------
\* entry(index): the log is addressed by position, whatever the entry says.
HasEntry(st, index) == index \in 1 .. Len(st.entries)
EntryAt(st, index) == st.entries[index]

\* last_index_term: read from the last entry itself, not from the length.
LastIndex(st) == IF st.entries = <<>> THEN 0 ELSE st.entries[Len(st.entries)].index
LastTerm(st) == IF st.entries = <<>> THEN 0 ELSE st.entries[Len(st.entries)].term

\* truncate_from(index) drops the entry at index and everything after it;
\* 0 clears the log and an index past the end is ignored.
TruncateFrom(st, index) ==
    [st EXCEPT !.entries = IF index = 0 THEN <<>>
                           ELSE IF index - 1 < Len(@) THEN SubSeq(@, 1, index - 1)
                           ELSE @]

InstallSnapshot(st, snap) == [st EXCEPT !.snapshot = snap]

-----------------------------------------------------------------------------
(***************************************************************************)
(* persist(hard_state, entries).  The loop accepts entry n of a batch when *)
(* its index is at most one past the log as entry n - 1 left it (writing   *)
(* an index cuts the log right after it), and returns an error at the      *)
(* first entry that is not accepted, keeping what it has written.          *)
(***************************************************************************)
LenBefore(entries, batch, n) == IF n = 1 THEN Len(entries) ELSE batch[n - 1].index

Fits(entries, batch, n) == batch[n].index \in 1 .. (LenBefore(entries, batch, n) + 1)

\* How many entries of the batch the loop writes before it returns.
Written(entries, batch) ==
    Min({n \in 1 .. Len(batch) : ~Fits(entries, batch, n)} \cup {Len(batch) + 1}) - 1

\* Mutant: the first writer of a position wins.
FirstWriter(batch, m, k) == Min({n \in 1 .. m : batch[n].index = k})

\* The last of the first m batch entries that was written at position k.
LastWriter(batch, m, k) == Max({n \in 1 .. m : batch[n].index = k})

\* Mutant: entries are always pushed at the end.
PushEntries(entries, batch) == entries \o SubSeq(batch, 1, Written(entries, batch))

\* Mutant: an overwritten entry does not cut the log after it.
OverwriteEntries(entries, batch) ==
    LET m == Written(entries, batch) IN
    IF m = 0 THEN entries
    ELSE [k \in 1 .. Max({Len(entries)} \cup {batch[n].index : n \in 1 .. m}) |->
            IF \E n \in 1 .. m : batch[n].index = k
            THEN batch[LastWriter(batch, m, k)]
            ELSE entries[k]]

WriteEntries(entries, batch) ==
    LET m == Written(entries, batch) IN
    IF m = 0 THEN entries
    ELSE [k \in 1 .. batch[m].index |->
            IF \E n \in 1 .. m : batch[n].index = k
            THEN batch[LastWriter(batch, m, k)]
            ELSE entries[k]]

PersistHardState(st, hs) == [st EXCEPT !.hard_state = hs]

PersistEntries(st, batch) == [st EXCEPT !.entries = WriteEntries(@, batch)]

\* The result of persist: Ok(()) when every entry was written.
PersistOk(st, batch) == Written(st.entries, batch) = Len(batch)

-----------------------------------------------------------------------------
\* log_is_up_to_date of raft/log.rs: is a candidate's log at least as
\* up-to-date as the local one?
LogIsUpToDate(st, lastIndex, lastTerm) ==
    \/ lastTerm > LastTerm(st)
    \/ lastTerm = LastTerm(st) /\ lastIndex >= LastIndex(st)
=============================================================================
