------------------------ MODULE StorageMachineProofs ------------------------
(***************************************************************************)
(* A MemoryStorage under any sequence of calls keeps the entry of index k  *)
(* at position k, and what persist accepts can be read back, for every     *)
(* bound on the calls.                                                     *)
(***************************************************************************)
EXTENDS StorageMachine, EngineProofs

TypedStorage == st \in Storage

\* The batches of the model are sequences of log entries.
LEMMA BatchesAreSequences ==
    ASSUME StorageBounds, NEW batch \in Batches
    PROVE  batch \in Seq(LogEntry)
<1>1. PICK n \in 0 .. MaxBatch : batch \in [1 .. n -> Entries]
  BY DEF Batches
<1>2. n \in Nat /\ batch \in [1 .. n -> LogEntry]
  BY <1>1 DEF Entries, LogEntry, StorageBounds
<1> QED BY <1>2

\* One call of persist, also one that fails half-way.
LEMMA PersistKeepsSlots ==
    ASSUME StorageBounds, TypedStorage, SlotHoldsItsIndex,
           NEW hs \in HardState, NEW batch \in Batches, Persist(hs, batch)
    PROVE  TypedStorage' /\ SlotHoldsItsIndex'
<1> DEFINE s == PersistHardState(st, hs)
           new == WriteEntries(st.entries, batch)
<1>1. st \in Storage /\ st.entries \in Seq(LogEntry) /\ batch \in Seq(LogEntry)
  BY BatchesAreSequences DEF TypedStorage, Storage
<1>2. Contiguous(st.entries)
  BY DEF SlotHoldsItsIndex, Contiguous
<1>3. new \in Seq(LogEntry) /\ Contiguous(new)
  BY <1>1, <1>2, WriteEntriesType
<1>4. s \in Storage /\ s.entries = st.entries
  BY <1>1 DEF PersistHardState, Storage
<1>5. st' = [s EXCEPT !.entries = new]
  BY <1>4 DEF Persist, PersistEntries
<1> HIDE DEF s, new
<1>6. st' \in Storage /\ st'.entries = new
  BY <1>3, <1>4, <1>5 DEF Storage
<1> QED BY <1>3, <1>6 DEF TypedStorage, SlotHoldsItsIndex, Contiguous

\* One call of truncate_from.
LEMMA TruncateKeepsSlots ==
    ASSUME TypedStorage, SlotHoldsItsIndex, NEW index \in Nat, Truncate(index)
    PROVE  TypedStorage' /\ SlotHoldsItsIndex'
<1> DEFINE old == st.entries
           new == IF index = 0 THEN <<>>
                  ELSE IF index - 1 < Len(old) THEN SubSeq(old, 1, index - 1) ELSE old
<1>1. st \in Storage /\ old \in Seq(LogEntry) /\ \A k \in 1 .. Len(old) : old[k].index = k
  BY DEF TypedStorage, Storage, SlotHoldsItsIndex
<1>2. st' = [st EXCEPT !.entries = new]
  BY DEF Truncate, TruncateFrom
<1> HIDE DEF old
<1>3. new \in Seq(LogEntry) /\ \A k \in 1 .. Len(new) : new[k].index = k
  <2>1. CASE index = 0
    BY <2>1
  <2>2. CASE index # 0 /\ index - 1 < Len(old)
    <3>1. index - 1 \in 0 .. Len(old)
      BY <1>1, <2>2
    <3>2. /\ SubSeq(old, 1, index - 1) \in Seq(LogEntry)
          /\ Len(SubSeq(old, 1, index - 1)) = index - 1
          /\ \A k \in 1 .. index - 1 : SubSeq(old, 1, index - 1)[k] = old[k]
      BY <1>1, <3>1
    <3> QED BY <1>1, <2>2, <3>1, <3>2
  <2>3. CASE index # 0 /\ ~(index - 1 < Len(old))
    BY <1>1, <2>3
  <2> QED BY <2>1, <2>2, <2>3
<1> HIDE DEF new
<1>4. st' \in Storage /\ st'.entries = new
  BY <1>1, <1>2, <1>3 DEF Storage
<1> QED BY <1>3, <1>4 DEF TypedStorage, SlotHoldsItsIndex

\* persist with a batch that fits: what is read afterwards.
LEMMA PersistIsReadBack ==
    ASSUME st \in Storage, NEW batch \in Seq(LogEntry), batch # <<>>, PersistOk(st, batch)
    PROVE  LET after == PersistEntries(st, batch)
               low == Min({batch[n].index : n \in DOMAIN batch})
           IN  /\ LastIndex(after) = batch[Len(batch)].index
               /\ \A n \in DOMAIN batch :
                     (\A k \in n + 1 .. Len(batch) : batch[k].index > batch[n].index)
                     => EntryAt(after, batch[n].index) = batch[n]
               /\ \A k \in 1 .. low - 1 : EntryAt(after, k) = EntryAt(st, k)
<1> DEFINE old == st.entries
           m == Len(batch)
           new == WriteEntries(old, batch)
           end == batch[m].index
           wrote(k) == \E n \in 1 .. m : batch[n].index = k
           after == PersistEntries(st, batch)
           Indices == {batch[n].index : n \in DOMAIN batch}
<1>1. old \in Seq(LogEntry) /\ m \in Nat /\ m >= 1 /\ m \in 1 .. m /\ DOMAIN batch = 1 .. m
  BY DEF Storage
<1>2. \A n \in 1 .. m : batch[n] \in LogEntry /\ batch[n].index \in Nat
  <2>1. \A n \in 1 .. Len(batch) : batch[n] \in LogEntry
    OBVIOUS
  <2> QED BY <2>1 DEF LogEntry
<1>3. Written(old, batch) = m /\ \A n \in 1 .. m : Fits(old, batch, n)
  <2>1. Written(old, batch) = m
    BY DEF PersistOk
  <2> QED BY <1>1, <2>1, WrittenPrefix
<1>4. end \in Nat /\ end >= 1
  <2>1. LenBefore(old, batch, m) \in Nat
    <3>1. CASE m = 1
      BY <1>1, <3>1 DEF LenBefore
    <3>2. CASE m # 1
      <4>1. m - 1 \in 1 .. m
        BY <1>1, <3>2
      <4> QED BY <1>2, <3>2, <4>1 DEF LenBefore
    <3> QED BY <3>1, <3>2
  <2>2. end \in 1 .. LenBefore(old, batch, m) + 1
    BY <1>1, <1>3 DEF Fits
  <2> QED BY <2>1, <2>2
<1>5. new = [k \in 1 .. end |-> IF wrote(k) THEN batch[LastWriter(batch, m, k)] ELSE old[k]]
  BY <1>1, <1>3 DEF WriteEntries
<1>6. after.entries = new /\ new \in Seq(LogEntry)
  BY <1>1, WriteEntriesType DEF PersistEntries, Storage
<1> HIDE DEF new, after
<1>7. Len(new) = end /\ new # <<>>
  <2>1. DOMAIN new = 1 .. end
    BY <1>5
  <2> QED BY <1>4, <1>6, <2>1
<1>8. ASSUME NEW n \in 1 .. m, batch[n].index \in 1 .. end
      PROVE  /\ LastWriter(batch, m, batch[n].index) \in 1 .. m
             /\ batch[LastWriter(batch, m, batch[n].index)].index = batch[n].index
             /\ n <= LastWriter(batch, m, batch[n].index)
             /\ new[batch[n].index] = batch[LastWriter(batch, m, batch[n].index)]
  <2> DEFINE k == batch[n].index
  <2>1. k \in Nat /\ k \in 1 .. end /\ wrote(k) /\ m \in 0 .. Len(batch)
    BY <1>1, <1>2, <1>8
  <2>2. batch[n].index = k
    OBVIOUS
  <2> HIDE DEF k
  <2>3. /\ LastWriter(batch, m, k) \in 1 .. m /\ batch[LastWriter(batch, m, k)].index = k
        /\ n <= LastWriter(batch, m, k)
    BY <2>1, <2>2, LastWriterWrites
  <2>4. new[k] = batch[LastWriter(batch, m, k)]
    BY <1>5, <2>1
  <2> QED BY <2>3, <2>4 DEF k
<1>9. LastIndex(after) = end
  <2>1. end \in 1 .. end
    BY <1>4
  <2>2. new[end].index = end
    BY <1>1, <1>8, <2>1
  <2> QED BY <1>6, <1>7, <2>2 DEF LastIndex
<1>10. ASSUME NEW n \in 1 .. m, \A k \in n + 1 .. m : batch[k].index > batch[n].index
       PROVE  EntryAt(after, batch[n].index) = batch[n]
  <2> DEFINE last == LastWriter(batch, m, batch[n].index)
  <2>1. batch[n].index \in 1 .. end
    <3>1. batch[n].index \in Nat /\ batch[n].index >= 1
      <4>1. LenBefore(old, batch, n) \in Nat
        <5>1. CASE n = 1
          BY <1>1, <5>1 DEF LenBefore
        <5>2. CASE n # 1
          <6>1. n - 1 \in 1 .. m
            BY <1>1, <5>2
          <6> QED BY <1>2, <5>2, <6>1 DEF LenBefore
        <5> QED BY <5>1, <5>2
      <4>2. batch[n].index \in 1 .. LenBefore(old, batch, n) + 1
        BY <1>3 DEF Fits
      <4> QED BY <4>1, <4>2
    <3>2. CASE n = m
      BY <1>4, <3>1, <3>2
    <3>3. CASE n # m
      <4>1. m \in n + 1 .. m
        <5> HIDE DEF m
        <5> QED BY <1>1, <3>3
      <4>2. end > batch[n].index
        BY <1>10, <4>1
      <4> HIDE DEF end
      <4> QED BY <1>4, <3>1, <4>2
    <3> QED BY <3>2, <3>3
  <2>2. /\ last \in 1 .. m /\ batch[last].index = batch[n].index /\ n <= last
        /\ new[batch[n].index] = batch[last]
    BY <1>8, <2>1
  <2> HIDE DEF last
  <2>3. last = n
    <3> SUFFICES ASSUME last # n PROVE FALSE
      OBVIOUS
    <3>1. last \in n + 1 .. m
      BY <1>1, <2>2
    <3>2. batch[last].index > batch[n].index
      BY <1>10, <3>1
    <3> QED BY <1>2, <2>2, <3>2
  <2> QED BY <1>6, <2>2, <2>3 DEF EntryAt
<1>11. ASSUME NEW k \in 1 .. Min(Indices) - 1 PROVE EntryAt(after, k) = EntryAt(st, k)
  <2>1. Indices \in SUBSET Nat /\ Indices # {} /\ \A n \in 1 .. m : batch[n].index \in Indices
    BY <1>1, <1>2
  <2> HIDE DEF Indices
  <2>2. Min(Indices) \in Nat /\ \A n \in 1 .. m : Min(Indices) <= batch[n].index
    BY <2>1, MinOfNats
  <2>3. k \in Nat /\ k < Min(Indices) /\ k >= 1
    BY <2>2
  <2>4. ~wrote(k)
    BY <1>2, <2>2, <2>3
  <2>5. Min(Indices) <= end
    BY <1>1, <2>2
  <2>6. k \in 1 .. end
    <3> HIDE DEF end
    <3> QED BY <1>4, <2>2, <2>3, <2>5
  <2> HIDE DEF wrote, end
  <2>7. new[k] = old[k]
    BY <1>5, <2>4, <2>6
  <2> QED BY <1>6, <2>7 DEF EntryAt
<1> QED BY <1>1, <1>9, <1>10, <1>11 DEF after

\* The storage keeps its types and its slots, under any calls.
THEOREM StorageInvariant == Spec => [](TypedStorage /\ SlotHoldsItsIndex)
<1> DEFINE Inv == TypedStorage /\ SlotHoldsItsIndex
<1>1. Init => Inv
  BY DEF Init, NewStorage, TypedStorage, Storage, HardState, SlotHoldsItsIndex
<1>2. Inv /\ [Next]_vars => Inv'
  <2> SUFFICES ASSUME Inv, [Next]_vars PROVE Inv'
    OBVIOUS
  <2>1. ASSUME NEW hs \in HardStates \cup {st.hard_state}, NEW batch \in Batches,
               Persist(hs, batch)
        PROVE  Inv'
    <3>1. hs \in HardState
      BY StorageBounds DEF StorageBounds, TypedStorage, Storage
    <3> QED BY <2>1, <3>1, StorageBounds, PersistKeepsSlots
  <2>2. ASSUME NEW index \in 0 .. MaxIndex + 1, Truncate(index)
        PROVE  Inv'
    BY <2>2, StorageBounds, TruncateKeepsSlots DEF StorageBounds
  <2>3. ASSUME NEW snap \in Snapshots, Install(snap)
        PROVE  Inv'
    <3>1. snap \in Snapshot
      BY StorageBounds DEF StorageBounds
    <3>2. st' \in Storage /\ st'.entries = st.entries
      BY <2>3, <3>1 DEF Install, InstallSnapshot, TypedStorage, Storage
    <3> QED BY <3>2 DEF TypedStorage, SlotHoldsItsIndex
  <2>4. CASE UNCHANGED vars
    BY <2>4 DEF vars, TypedStorage, SlotHoldsItsIndex
  <2> QED BY <2>1, <2>2, <2>3, <2>4 DEF Next
<1> QED BY <1>1, <1>2, PTL DEF Spec

\* Under any calls of persist, truncate_from and install_snapshot, failed ones
\* included, position and stored index of every entry agree: entry(i), which
\* addresses by position, and last_index_term, which reads the stored index,
\* speak of the same log.
THEOREM SlotsHoldTheirIndex == Spec => []SlotHoldsItsIndex
BY StorageInvariant, PTL

\* Whatever the storage holds, a batch that persist accepts is read back by
\* entry and last_index_term, and the entries before its lowest index stay.
THEOREM AcceptedBatchesAreReadBack == Spec => []AcceptedBatchIsReadBack
<1>1. TypedStorage => AcceptedBatchIsReadBack
  <2> SUFFICES ASSUME TypedStorage, NEW batch \in Batches \ {<<>>}, PersistOk(st, batch)
               PROVE  LET after == PersistEntries(st, batch)
                          low == Min({batch[n].index : n \in DOMAIN batch})
                      IN  /\ LastIndex(after) = batch[Len(batch)].index
                          /\ \A n \in DOMAIN batch :
                                (\A k \in n + 1 .. Len(batch) : batch[k].index > batch[n].index)
                                => EntryAt(after, batch[n].index) = batch[n]
                          /\ \A k \in 1 .. low - 1 : EntryAt(after, k) = EntryAt(st, k)
    BY DEF AcceptedBatchIsReadBack
  <2>1. st \in Storage /\ batch \in Seq(LogEntry) /\ batch # <<>>
    BY StorageBounds, BatchesAreSequences DEF TypedStorage
  <2> QED BY <2>1, PersistIsReadBack
<1> QED BY <1>1, StorageInvariant, PTL

-----------------------------------------------------------------------------
(* The closed form of persist and its loop.                                *)

\* The log after the first m entries of a batch are written.
LogAfter(entries, batch, m) ==
    IF m = 0 THEN entries
    ELSE [k \in 1 .. batch[m].index |->
            IF \E n \in 1 .. m : batch[n].index = k
            THEN batch[LastWriter(batch, m, k)]
            ELSE entries[k]]

\* The log is a sequence again, as long as the last index written.
LEMMA LogAfterType ==
    ASSUME NEW entries \in Seq(LogEntry), NEW batch \in Seq(LogEntry),
           NEW m \in 0 .. Len(batch), \A n \in 1 .. m : Fits(entries, batch, n)
    PROVE  /\ LogAfter(entries, batch, m) \in Seq(LogEntry)
           /\ m + 1 \in 1 .. Len(batch) =>
                 Len(LogAfter(entries, batch, m)) = LenBefore(entries, batch, m + 1)
<1>1. CASE m = 0
  BY <1>1 DEF LogAfter, LenBefore
<1>2. CASE m # 0
  <2> DEFINE new == LogAfter(entries, batch, m)
             wrote(k) == \E n \in 1 .. m : batch[n].index = k
  <2>1. m \in 1 .. Len(batch) /\ batch[m] \in LogEntry
    BY <1>2
  <2>2. batch[m].index \in Nat
    BY <2>1 DEF LogEntry
  <2>3. new = [k \in 1 .. batch[m].index |->
                 IF wrote(k) THEN batch[LastWriter(batch, m, k)] ELSE entries[k]]
    BY <1>2 DEF LogAfter
  <2> HIDE DEF new
  <2>4. ASSUME NEW k \in 1 .. batch[m].index PROVE new[k] \in LogEntry
    <3>1. CASE wrote(k)
      <4>1. LastWriter(batch, m, k) \in 1 .. m
        BY <2>2, <3>1, LastWriterWrites
      <4> QED BY <2>3, <3>1, <4>1
    <3>2. CASE ~wrote(k)
      <4>1. k \in 1 .. Len(entries)
        BY <2>1, <2>2, <3>2, UnwrittenIsOld, SMTT(30)
      <4> QED BY <2>3, <3>2, <4>1
    <3> QED BY <3>1, <3>2
  <2>5. new \in [1 .. batch[m].index -> LogEntry] /\ DOMAIN new = 1 .. batch[m].index
    BY <2>3, <2>4
  <2>6. new \in Seq(LogEntry) /\ Len(new) = batch[m].index
    BY <2>2, <2>5
  <2>7. LenBefore(entries, batch, m + 1) = batch[m].index
    BY <1>2 DEF LenBefore
  <2> QED BY <2>6, <2>7 DEF new
<1> QED BY <1>1, <1>2

\* A turn of the loop with an entry that fits writes that entry.
LEMMA LoopWrites ==
    ASSUME NEW entries \in Seq(LogEntry), NEW batch \in Seq(LogEntry),
           NEW m \in 1 .. Len(batch), \A n \in 1 .. m : Fits(entries, batch, n)
    PROVE  LoopStep([entries |-> LogAfter(entries, batch, m - 1), ok |-> TRUE], batch[m])
           = [entries |-> LogAfter(entries, batch, m), ok |-> TRUE]
<1> DEFINE old == LogAfter(entries, batch, m - 1)
           new == LogAfter(entries, batch, m)
           index == batch[m].index
           next == IF index - 1 = Len(old) THEN Append(old, batch[m])
                   ELSE SubSeq([old EXCEPT ![index] = batch[m]], 1, index)
<1>1. m - 1 \in 0 .. Len(batch) /\ (m - 1) + 1 = m /\ m \in Nat
  OBVIOUS
<1>2. old \in Seq(LogEntry) /\ Len(old) = LenBefore(entries, batch, m) /\ Len(old) \in Nat
  <2>1. \A n \in 1 .. m - 1 : Fits(entries, batch, n)
    BY <1>1
  <2>2. old \in Seq(LogEntry) /\ Len(old) = LenBefore(entries, batch, (m - 1) + 1)
    BY <1>1, <2>1, LogAfterType
  <2> HIDE DEF old
  <2> QED BY <1>1, <2>2
<1>3. batch[m] \in LogEntry /\ index \in Nat
  <2>1. batch[m] \in LogEntry
    OBVIOUS
  <2> QED BY <2>1 DEF LogEntry
<1>4. index \in 1 .. Len(old) + 1
  BY <1>1, <1>2 DEF Fits
<1>5. new = [k \in 1 .. index |-> IF \E n \in 1 .. m : batch[n].index = k
                                  THEN batch[LastWriter(batch, m, k)] ELSE entries[k]]
  BY <1>1 DEF LogAfter
<1>6. next \in Seq(LogEntry) /\ Len(next) = index /\ next[index] = batch[m]
      /\ \A k \in 1 .. index - 1 : next[k] = old[k]
  <2> HIDE DEF old, index
  <2>1. CASE index - 1 = Len(old)
    BY <1>2, <1>3, <1>4, <2>1
  <2>2. CASE index - 1 # Len(old)
    <3> DEFINE mid == [old EXCEPT ![index] = batch[m]]
    <3>1. index \in 1 .. Len(old)
      BY <1>2, <1>3, <1>4, <2>2
    <3>2. mid \in Seq(LogEntry) /\ Len(mid) = Len(old) /\ mid[index] = batch[m]
          /\ \A k \in 1 .. index - 1 : mid[k] = old[k]
      BY <1>2, <1>3, <3>1
    <3> HIDE DEF mid
    <3>3. SubSeq(mid, 1, index) \in Seq(LogEntry) /\ Len(SubSeq(mid, 1, index)) = index
          /\ \A k \in 1 .. index : SubSeq(mid, 1, index)[k] = mid[k]
      BY <1>3, <3>1, <3>2
    <3>4. next = SubSeq(mid, 1, index)
      BY <2>2 DEF mid
    <3> HIDE DEF next
    <3> QED BY <1>3, <3>1, <3>2, <3>3, <3>4
  <2> QED BY <2>1, <2>2
<1>7. ASSUME NEW k \in 1 .. index PROVE next[k] = new[k]
  <2>1. k \in Nat /\ m \in 0 .. Len(batch)
    BY <1>3
  <2>2. CASE k = index
    <3>1. \E n \in 1 .. m : batch[n].index = k
      BY <1>1, <2>2
    <3>2. /\ LastWriter(batch, m, k) \in 1 .. m
          /\ \A n \in 1 .. m : batch[n].index = k => n <= LastWriter(batch, m, k)
      BY <2>1, <3>1, LastWriterWrites
    <3>3. LastWriter(batch, m, k) = m
      BY <1>1, <2>2, <3>2
    <3>4. new[k] = batch[LastWriter(batch, m, k)]
      BY <1>5, <3>1
    <3> QED BY <1>6, <2>2, <3>3, <3>4
  <2>3. CASE k # index
    <3>1. {n \in 1 .. m : batch[n].index = k} = {n \in 1 .. m - 1 : batch[n].index = k}
      BY <1>1, <2>3
    <3>2. LastWriter(batch, m, k) = LastWriter(batch, m - 1, k)
      BY <3>1 DEF LastWriter
    <3>3. (\E n \in 1 .. m : batch[n].index = k) <=> (\E n \in 1 .. m - 1 : batch[n].index = k)
      BY <3>1
    <3>4. k \in 1 .. index - 1 /\ k \in 1 .. Len(old)
      BY <1>2, <1>3, <1>4, <2>3
    <3>5. old[k] = IF \E n \in 1 .. m - 1 : batch[n].index = k
                   THEN batch[LastWriter(batch, m - 1, k)] ELSE entries[k]
      <4>1. CASE m = 1
        BY <4>1 DEF LogAfter
      <4>2. CASE m # 1
        <5>1. Len(old) = batch[m - 1].index
          BY <1>2, <4>2 DEF LenBefore
        <5>2. k \in 1 .. batch[m - 1].index /\ m - 1 # 0
          BY <1>1, <3>4, <4>2, <5>1
        <5> QED BY <5>2 DEF LogAfter
      <4> QED BY <4>1, <4>2
    <3> HIDE DEF next, old, new
    <3>6. new[k] = IF \E n \in 1 .. m : batch[n].index = k
                   THEN batch[LastWriter(batch, m, k)] ELSE entries[k]
      BY <1>5
    <3>7. new[k] = old[k]
      BY <3>2, <3>3, <3>5, <3>6
    <3> QED BY <1>6, <3>4, <3>7
  <2> QED BY <2>2, <2>3
<1>8. new = next
  <2>1. DOMAIN next = 1 .. index /\ next = [k \in DOMAIN next |-> next[k]]
    <3> HIDE DEF next, index
    <3> QED BY <1>6
  <2>2. DOMAIN new = 1 .. index /\ new = [k \in DOMAIN new |-> new[k]]
    <3> HIDE DEF index
    <3> QED BY <1>5
  <2> HIDE DEF next, new, index
  <2> QED BY <1>7, <2>1, <2>2
<1>9. LoopStep([entries |-> old, ok |-> TRUE], batch[m]) = [entries |-> next, ok |-> TRUE]
  <2> HIDE DEF old
  <2>1. index # 0 /\ (index - 1 = Len(old) \/ index - 1 < Len(old))
    BY <1>2, <1>3, <1>4
  <2> QED BY <2>1 DEF LoopStep
<1> QED BY <1>8, <1>9

\* The loop and the closed form agree after every entry of the batch.
LEMMA LoopIsClosedForm ==
    ASSUME NEW entries \in Seq(LogEntry), NEW batch \in Seq(LogEntry)
    PROVE  PersistLoop(entries, batch)[Len(batch)]
           = IF Written(entries, batch) = Len(batch)
             THEN [entries |-> WriteEntries(entries, batch), ok |-> TRUE]
             ELSE [entries |-> WriteEntries(entries, batch), ok |-> FALSE]
<1> DEFINE w == Written(entries, batch)
           S == 0 .. Len(batch)
           start == [entries |-> entries, ok |-> TRUE]
           Turn(f, n) == IF n = 0 THEN start ELSE LoopStep(f[n - 1], batch[n])
           closed == [n \in S |-> IF n <= w
                                  THEN [entries |-> LogAfter(entries, batch, n), ok |-> TRUE]
                                  ELSE [entries |-> LogAfter(entries, batch, w), ok |-> FALSE]]
           loop == PersistLoop(entries, batch)
<1>1. w \in S /\ w \in Nat /\ Len(batch) \in Nat /\ \A n \in 1 .. w : Fits(entries, batch, n)
  BY WrittenPrefix
<1>2. w < Len(batch) => ~Fits(entries, batch, w + 1)
  <2> DEFINE Misfits == {n \in 1 .. Len(batch) : ~Fits(entries, batch, n)} \cup {Len(batch) + 1}
  <2>1. Misfits \in SUBSET Nat /\ Misfits # {}
    OBVIOUS
  <2>2. Min(Misfits) \in Misfits
    <3> HIDE DEF Misfits
    <3> QED BY <2>1, MinOfNats
  <2>3. w = Min(Misfits) - 1
    BY DEF Written
  <2> HIDE DEF w
  <2>4. Min(Misfits) = w + 1
    <3>1. Min(Misfits) \in Nat
      <4> HIDE DEF Misfits
      <4> QED BY <2>1, <2>2
    <3> HIDE DEF Misfits
    <3> QED BY <2>3, <3>1
  <2> QED BY <1>1, <2>2, <2>4
<1> HIDE DEF w
<1>3. ASSUME NEW n \in S PROVE closed[n] = Turn(closed, n)
  <2>1. CASE n = 0
    BY <1>1, <2>1 DEF LogAfter
  <2>2. CASE n # 0 /\ n <= w
    <3>1. /\ n \in 1 .. Len(batch) /\ n - 1 \in S /\ n - 1 <= w
          /\ \A i \in 1 .. n : Fits(entries, batch, i)
      BY <1>1, <2>2
    <3>2. closed[n - 1] = [entries |-> LogAfter(entries, batch, n - 1), ok |-> TRUE]
          /\ closed[n] = [entries |-> LogAfter(entries, batch, n), ok |-> TRUE]
      BY <2>2, <3>1
    <3> HIDE DEF closed
    <3> QED BY <2>2, <3>1, <3>2, LoopWrites
  <2>3. CASE n = w + 1
    <3> DEFINE log == LogAfter(entries, batch, w)
    <3>1. n \in 1 .. Len(batch) /\ n - 1 = w /\ w \in S /\ n # 0
      BY <1>1, <2>3
    <3>2. closed[w] = [entries |-> log, ok |-> TRUE] /\ closed[n] = [entries |-> log, ok |-> FALSE]
      BY <1>1, <2>3, <3>1
    <3>3. batch[n].index \in Nat
      <4>1. batch[n] \in LogEntry
        BY <3>1
      <4> QED BY <4>1 DEF LogEntry
    <3>4. Len(log) = LenBefore(entries, batch, n) /\ Len(log) \in Nat
      <4>1. log \in Seq(LogEntry) /\ Len(log) = LenBefore(entries, batch, w + 1)
        BY <1>1, <2>3, <3>1, LogAfterType
      <4> HIDE DEF log
      <4> QED BY <2>3, <4>1
    <3>5. batch[n].index \notin 1 .. Len(log) + 1
      BY <1>1, <1>2, <2>3, <3>1, <3>4 DEF Fits
    <3> HIDE DEF closed, log
    <3>6. LoopStep([entries |-> log, ok |-> TRUE], batch[n]) = [entries |-> log, ok |-> FALSE]
      <4>1. batch[n].index = 0 \/ batch[n].index - 1 > Len(log)
        BY <3>3, <3>4, <3>5
      <4>2. ~(batch[n].index # 0 /\ batch[n].index - 1 = Len(log))
            /\ ~(batch[n].index # 0 /\ batch[n].index - 1 < Len(log))
        BY <3>3, <3>4, <4>1
      <4> QED BY <4>2 DEF LoopStep
    <3> QED BY <3>1, <3>2, <3>6
  <2>4. CASE n > w + 1
    <3>1. n - 1 \in S /\ n \in Nat /\ ~(n - 1 <= w) /\ ~(n <= w) /\ n # 0
      BY <1>1, <2>4
    <3>2. closed[n - 1] = [entries |-> LogAfter(entries, batch, w), ok |-> FALSE]
          /\ closed[n] = closed[n - 1]
      BY <3>1
    <3> HIDE DEF closed
    <3> QED BY <3>1, <3>2 DEF LoopStep
  <2> QED BY <1>1, <2>1, <2>2, <2>3, <2>4
<1>4. closed = [n \in S |-> Turn(closed, n)]
  <2>1. closed = [n \in S |-> closed[n]]
    OBVIOUS
  <2> HIDE DEF closed, Turn
  <2> QED BY <1>3, <2>1
<1>5. loop = CHOOSE f : f = [n \in S |-> Turn(f, n)]
  BY DEF PersistLoop
<1>6. loop = [n \in S |-> Turn(loop, n)]
  <2> HIDE DEF closed, loop
  <2> QED BY <1>4, <1>5
<1>7. \A n \in S : loop[n] = closed[n]
  <2> DEFINE Apart == {n \in S : loop[n] # closed[n]}
  <2> SUFFICES ASSUME Apart # {} PROVE FALSE
    OBVIOUS
  <2>1. Apart \in SUBSET Nat
    OBVIOUS
  <2>2. PICK n \in Apart : \A y \in Apart : n <= y
    <3> HIDE DEF Apart
    <3> QED BY <2>1, MinOfNats
  <2>3. n \in S /\ loop[n] = Turn(loop, n) /\ closed[n] = Turn(closed, n)
    <3> HIDE DEF closed, loop, Turn
    <3> QED BY <1>3, <1>6
  <2> HIDE DEF closed, loop
  <2>4. n # 0
    BY <2>2, <2>3
  <2>5. n - 1 \in S /\ n - 1 \notin Apart
    BY <1>1, <2>1, <2>2, <2>3, <2>4
  <2> QED BY <2>2, <2>3, <2>4, <2>5
<1>8. closed[Len(batch)] = IF w = Len(batch)
                           THEN [entries |-> LogAfter(entries, batch, w), ok |-> TRUE]
                           ELSE [entries |-> LogAfter(entries, batch, w), ok |-> FALSE]
  <2>1. Len(batch) \in S /\ (Len(batch) <= w <=> w = Len(batch))
    BY <1>1
  <2> HIDE DEF S
  <2> QED BY <2>1
<1>9. LogAfter(entries, batch, w) = WriteEntries(entries, batch)
  BY DEF LogAfter, WriteEntries, w
<1> HIDE DEF closed, loop
<1>10. loop[Len(batch)] = closed[Len(batch)]
  BY <1>1, <1>7
<1> QED BY <1>8, <1>9, <1>10 DEF loop, w

\* The closed form of persist, on which every proof about the log of a node
\* rests, writes what the loop in memory.rs writes and fails when it fails.
THEOREM PersistIsItsLoop == Spec => []PersistMatchesLoop
<1>1. TypedStorage => PersistMatchesLoop
  <2> SUFFICES ASSUME TypedStorage, NEW batch \in Batches
               PROVE  LET end == PersistLoop(st.entries, batch)[Len(batch)] IN
                      /\ PersistEntries(st, batch).entries = end.entries
                      /\ PersistOk(st, batch) <=> end.ok
    BY DEF PersistMatchesLoop
  <2>1. st \in Storage /\ st.entries \in Seq(LogEntry) /\ batch \in Seq(LogEntry)
    BY StorageBounds, BatchesAreSequences DEF TypedStorage, Storage
  <2>2. PersistLoop(st.entries, batch)[Len(batch)]
        = IF Written(st.entries, batch) = Len(batch)
          THEN [entries |-> WriteEntries(st.entries, batch), ok |-> TRUE]
          ELSE [entries |-> WriteEntries(st.entries, batch), ok |-> FALSE]
    BY <2>1, LoopIsClosedForm
  <2>3. PersistEntries(st, batch).entries = WriteEntries(st.entries, batch)
    BY <2>1 DEF PersistEntries, Storage
  <2> QED BY <2>2, <2>3 DEF PersistOk
<1> QED BY <1>1, StorageInvariant, PTL
=============================================================================
