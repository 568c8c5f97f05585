------------------------- MODULE InputWorker_proofs -------------------------
(***************************************************************************)
(* For every ring capacity and counter width, the ring buffer implements   *)
(* the bounded drop-oldest channel, so the channel's invariants hold of    *)
(* the ring's live window. For every set of bindings, settings and pads    *)
(* the worker drives the transport as its specification allows, the mask   *)
(* the transport hands out is what the game reads, and nothing is held     *)
(* that its device has not reported.                                       *)
(***************************************************************************)
EXTENDS InputWorker, TLAPS

ChannelProofs == INSTANCE TransitionChannel_proofs WITH queue <- Contents

USE JournalAssumption

LiveRecords == \A i \in 1 .. size : records[Slot(i)] \in Channel!Record

IInv == StorageOK /\ LiveRecords

-----------------------------------------------------------------------------
(* Slot arithmetic. A position of the live window is reached from the read *)
(* slot by less than two turns of the ring.                                *)
LEMMA ModOnce ==
    ASSUME NEW x \in 0 .. 2 * Capacity - 1
    PROVE  x % Capacity = IF x < Capacity THEN x ELSE x - Capacity
  <1>1. CASE x < Capacity
    BY <1>1
  <1>2. CASE ~(x < Capacity)
    <2>1. x - Capacity \in 0 .. Capacity - 1
      BY <1>2
    <2>2. x = Capacity * 1 + (x - Capacity)
      OBVIOUS
    <2>3. QED  BY <2>1, <2>2, <1>2
  <1>3. QED  BY <1>1, <1>2

LEMMA SlotValue ==
    ASSUME NEW r \in Slots, NEW i \in 1 .. Capacity
    PROVE  /\ (r + i - 1) % Capacity
                = IF r + i - 1 < Capacity THEN r + i - 1
                                          ELSE r + i - 1 - Capacity
           /\ (r + i - 1) % Capacity \in Slots
  <1>1. r + i - 1 \in 0 .. 2 * Capacity - 1
    BY DEF Slots
  <1>2. QED  BY <1>1, ModOnce DEF Slots

(* Two positions of one window are different slots.                        *)
LEMMA SlotsDiffer ==
    ASSUME NEW r \in Slots, NEW i \in 1 .. Capacity, NEW j \in 1 .. Capacity,
           i # j
    PROVE  (r + i - 1) % Capacity # (r + j - 1) % Capacity
  BY SlotValue DEF Slots

(* Moving the read slot by n positions shifts the window by n.             *)
LEMMA SlotShift ==
    ASSUME NEW r \in Slots, NEW n \in 0 .. Capacity, NEW i \in Nat \ {0},
           n + i <= Capacity
    PROVE  /\ (r + n) % Capacity \in Slots
           /\ (((r + n) % Capacity) + i - 1) % Capacity
                = (r + (n + i) - 1) % Capacity
  <1> DEFINE x == r + n
             y == r + (n + i) - 1
             s == x % Capacity
             z == s + i - 1
  <1>1. x \in 0 .. 2 * Capacity - 1 /\ y \in 0 .. 2 * Capacity - 1
    BY DEF Slots
  <1>2. y = x + i - 1
    BY DEF Slots
  <1>3. s = IF x < Capacity THEN x ELSE x - Capacity
    <2> HIDE DEF x
    <2>1. QED  BY <1>1, ModOnce
  <1>4. y % Capacity = IF y < Capacity THEN y ELSE y - Capacity
    <2> HIDE DEF y
    <2>1. QED  BY <1>1, ModOnce
  <1> HIDE DEF x, y, s
  <1>5. s \in Slots /\ z \in 0 .. 2 * Capacity - 1
    BY <1>1, <1>3 DEF Slots
  <1>6. z % Capacity = IF z < Capacity THEN z ELSE z - Capacity
    <2> HIDE DEF z
    <2>1. QED  BY <1>5, ModOnce
  <1>7. z % Capacity = y % Capacity
    BY <1>1, <1>2, <1>3, <1>4, <1>5, <1>6 DEF Slots
  <1>8. QED  BY <1>5, <1>7 DEF x, y, s

-----------------------------------------------------------------------------
(* The live window as a sequence.                                          *)
LEMMA ContentsSeq ==
    ASSUME IInv
    PROVE  /\ Contents \in Seq(Channel!Record)
           /\ Len(Contents) = size
           /\ \A i \in 1 .. size : Contents[i] = records[Slot(i)]
  <1>1. size \in Nat
    BY DEF IInv, StorageOK
  <1>2. \A i \in 1 .. size : records[Slot(i)] \in Channel!Record
    BY DEF IInv, LiveRecords
  <1>3. QED  BY <1>1, <1>2 DEF Contents

LEMMA SameLength ==
    ASSUME NEW S, NEW p \in Seq(S), NEW q \in Seq(S), Len(p) = Len(q),
           \A i \in 1 .. Len(p) : p[i] = q[i]
    PROVE  p = q
  OBVIOUS

LEMMA EmptyContents ==
    /\ size = 0 => Contents = <<>>
    /\ (size = 0)' => Contents' = <<>>
  BY DEF Contents

(* Clearing the queue leaves no live record.                               *)
LEMMA ClearQueueStep ==
    ASSUME IInv, ClearQueue
    PROVE  /\ Contents' = <<>>
           /\ LiveRecords'
           /\ records' \in [Slots -> Channel!Record \cup {NoRecord}]
           /\ read_slot' \in Slots /\ size' \in 0 .. Capacity
  BY EmptyContents DEF ClearQueue, IInv, StorageOK, LiveRecords, Slots

(* Draining removes the first `count` records of the window and returns    *)
(* them.                                                                   *)
LEMMA DrainStep ==
    ASSUME IInv, NEW span \in 0 .. Capacity, Drain(span)
    PROVE  /\ Channel!Drain(span)
           /\ LiveRecords'
           /\ read_slot' \in Slots /\ size' \in 0 .. Capacity
  <1> DEFINE count == DrainCount(span)
             batch == [i \in 1 .. count |-> records[Slot(i)]]
  <1>1. /\ size \in 0 .. Capacity /\ read_slot \in Slots
        /\ count \in 0 .. size /\ count = IF span < size THEN span ELSE size
    BY DEF IInv, StorageOK, DrainCount
  <1>2. /\ read_slot' = (read_slot + count) % Capacity
        /\ size' = size - count /\ records' = records
        /\ answer'.kind = "drain" /\ answer'.batch = batch
    BY DEF Drain
  <1> HIDE DEF count
  <1>3. /\ Contents \in Seq(Channel!Record)
        /\ Len(Contents) = size
        /\ \A i \in 1 .. size : Contents[i] = records[Slot(i)]
    BY ContentsSeq
  <1>4. ASSUME NEW i \in 1 .. size'
        PROVE  /\ i + count \in 1 .. size
               /\ Slot(i)' = Slot(i + count)
    <2>1. i \in Nat \ {0} /\ count + i <= Capacity /\ count \in 0 .. Capacity
      BY <1>1, <1>2
    <2>2. (((read_slot + count) % Capacity) + i - 1) % Capacity
            = (read_slot + (count + i) - 1) % Capacity
      BY <1>1, <2>1, SlotShift
    <2>3. count + i = i + count /\ i + count \in 1 .. size
      BY <1>1, <1>2, <2>1
    <2>4. QED  BY <1>2, <2>2, <2>3 DEF Slot
  <1>5. LiveRecords'
    BY <1>2, <1>4 DEF LiveRecords, IInv
  <1>6. read_slot' \in Slots
    <2>1. (read_slot + count) % Capacity \in Slots
      BY <1>1, ModOnce DEF Slots
    <2>2. QED  BY <1>2, <2>1
  <1>7. /\ Contents' \in Seq(Channel!Record) /\ Len(Contents') = size'
        /\ \A i \in 1 .. size' : Contents'[i] = Contents[i + count]
    <2>1. size' \in Nat
      BY <1>1, <1>2
    <2>2. Contents' = [i \in 1 .. size' |-> records'[Slot(i)']]
      BY DEF Contents
    <2>3. \A i \in 1 .. size' : records'[Slot(i)'] = Contents[i + count]
      BY <1>2, <1>3, <1>4
    <2>4. \A i \in 1 .. size' : Contents[i + count] \in Channel!Record
      BY <1>3, <1>4
    <2>5. QED  BY <2>1, <2>2, <2>3, <2>4
  <1>8. Contents' = SubSeq(Contents, count + 1, Len(Contents))
    <2> DEFINE rest == SubSeq(Contents, count + 1, Len(Contents))
    <2>1. Len(Contents) = size /\ Contents \in Seq(Channel!Record)
          /\ count \in 0 .. Len(Contents)
      BY <1>1, <1>3
    <2>2. /\ rest \in Seq(Channel!Record) /\ Len(rest) = Len(Contents) - count
          /\ \A i \in 1 .. Len(Contents) - count : rest[i] = Contents[i + count]
      BY <2>1
    <2>3. Len(Contents') = Len(rest)
      BY <1>2, <1>7, <2>1, <2>2
    <2>4. \A i \in 1 .. Len(Contents') : Contents'[i] = rest[i]
      BY <1>2, <1>7, <2>1, <2>2
    <2>5. Contents' \in Seq(Channel!Record)
      BY <1>7
    <2> HIDE DEF rest
    <2>6. Contents' = rest
      BY <2>2, <2>3, <2>4, <2>5, SameLength
    <2>7. QED  BY <2>6 DEF rest
  <1>9. batch = SubSeq(Contents, 1, count)
    <2>1. batch \in Seq(Channel!Record) /\ Len(batch) = count
      BY <1>1, <1>3
    <2>2. \A i \in 1 .. count : batch[i] = SubSeq(Contents, 1, count)[i]
      BY <1>1, <1>3
    <2>3. QED  BY <1>1, <1>3, <2>1, <2>2, SameLength
  <1>10. Channel!Drain(span)
    BY <1>1, <1>2, <1>3, <1>8, <1>9 DEF Drain, Channel!Drain, Channel!Batch, Channel!Rest,
        Channel!StatusAfter, Channel!DrainCount, count, state
  <1>11. QED  BY <1>1, <1>2, <1>5, <1>6, <1>10

(* Publishing drops the oldest record of a full window and appends the new *)
(* one in a slot no other live record occupies.                            *)
LEMMA PublishRecordStep ==
    ASSUME IInv, NEW next \in SUBSET Controls, NEW time \in Times,
           enabled, active, PublishRecord(published_held, next, time)
    PROVE  /\ Channel!PublishRecord(published_held, next, time)
           /\ LiveRecords'
           /\ records' \in [Slots -> Channel!Record \cup {NoRecord}]
           /\ read_slot' \in Slots /\ size' \in 0 .. Capacity
  <1> DEFINE d    == IF size = Capacity THEN 1 ELSE 0
             keep == size - d
             rec  == [transport_epoch |-> transport_epoch,
                      sequence |-> next_sequence, observed_time |-> time,
                      held_before |-> published_held, held_after |-> next]
  <1>1. /\ size \in 0 .. Capacity /\ read_slot \in Slots
        /\ d \in 0 .. 1 /\ d <= size
        /\ keep \in 0 .. Capacity - 1 /\ size = keep + d
        /\ keep = SizeAfterDrop
    BY DEF IInv, StorageOK, SizeAfterDrop
  <1>2. rec \in Channel!Record
    BY DEF IInv, StorageOK, Channel!Record, Channel!U64, Channel!Mask
  <1>3. read_slot' \in Slots /\ read_slot' = (read_slot + d) % Capacity
    <2>1. CASE size = Capacity
      BY <2>1, <1>1, ModOnce DEF PublishRecord, DropOldestIfFull, Slots
    <2>2. CASE size # Capacity
      BY <2>2, <1>1, ModOnce DEF PublishRecord, DropOldestIfFull, Slots
    <2>3. QED  BY <2>1, <2>2
  <1>4. /\ size' = keep + 1
        /\ records' = [records EXCEPT ![(read_slot' + keep) % Capacity] = rec]
    BY <1>1 DEF PublishRecord, WriteSlot
  <1> HIDE DEF rec, d, keep
  <1>5. /\ Contents \in Seq(Channel!Record)
        /\ Len(Contents) = size
        /\ \A i \in 1 .. size : Contents[i] = records[Slot(i)]
    BY ContentsSeq
  <1> DEFINE last == (read_slot' + keep) % Capacity
  <1>6. /\ \A i : Slot(i)' = (read_slot' + i - 1) % Capacity
        /\ \A i \in Nat : i = keep + 1 => Slot(i)' = last
        /\ last \in Slots
        /\ records'[last] = rec
    <2>1. \A i : Slot(i)' = (read_slot' + i - 1) % Capacity
      BY DEF Slot
    <2>2. /\ keep + 1 \in 1 .. Capacity
          /\ read_slot' + (keep + 1) - 1 = read_slot' + keep
      BY <1>1, <1>3 DEF Slots
    <2>3. (read_slot' + (keep + 1) - 1) % Capacity \in Slots
      BY <2>2, <1>3, SlotValue
    <2>4. last \in Slots
      BY <2>2, <2>3
    <2>5. records \in [Slots -> Channel!Record \cup {NoRecord}]
      BY DEF IInv, StorageOK
    <2>6. records'[last] = rec
      BY <1>4, <2>4, <2>5
    <2>7. QED  BY <2>1, <2>2, <2>4, <2>6
  <1>7. ASSUME NEW i \in 1 .. keep
        PROVE  /\ i + d \in 1 .. size
               /\ records'[Slot(i)'] = Contents[i + d]
    <2>1. /\ i \in Nat \ {0} /\ d + i <= Capacity /\ d \in 0 .. Capacity
          /\ i \in 1 .. Capacity /\ keep + 1 \in 1 .. Capacity /\ i # keep + 1
          /\ i + d \in 1 .. size /\ d + i = i + d
      BY <1>1
    <2>2. (((read_slot + d) % Capacity) + i - 1) % Capacity
            = (read_slot + (d + i) - 1) % Capacity
      BY <1>1, <2>1, SlotShift
    <2>3. Slot(i)' = (read_slot + (i + d) - 1) % Capacity
      BY <1>3, <1>6, <2>1, <2>2
    <2>4. /\ (read_slot' + i - 1) % Capacity
               # (read_slot' + (keep + 1) - 1) % Capacity
          /\ (read_slot' + i - 1) % Capacity \in Slots
      BY <1>3, <2>1, SlotsDiffer, SlotValue
    <2>5. read_slot' + (keep + 1) - 1 = read_slot' + keep
      BY <1>1, <1>3 DEF Slots
    <2>6. Slot(i)' # last /\ Slot(i)' \in Slots
      BY <1>6, <2>4, <2>5
    <2>7. records \in [Slots -> Channel!Record \cup {NoRecord}]
      BY DEF IInv, StorageOK
    <2>8. records'[Slot(i)'] = records[Slot(i)']
      BY <1>4, <2>6, <2>7
    <2>9. records[(read_slot + (i + d) - 1) % Capacity] = Contents[i + d]
      BY <1>5, <2>1 DEF Slot
    <2>10. QED  BY <2>1, <2>3, <2>8, <2>9
  <1>8. /\ size' \in 1 .. Capacity
        /\ \A i \in 1 .. size' : records'[Slot(i)'] \in Channel!Record
        /\ \A i \in 1 .. size' : i = keep + 1 => records'[Slot(i)'] = rec
    <2>1. \A i \in 1 .. keep : records'[Slot(i)'] \in Channel!Record
      BY <1>5, <1>7
    <2>2. size' \in 1 .. Capacity
      BY <1>1, <1>4
    <2>3. \A i \in 1 .. size' : /\ i \in Nat
                                /\ i \in 1 .. keep \/ i = keep + 1
      BY <1>1, <1>4
    <2>4. \A i \in 1 .. size' : i = keep + 1 => records'[Slot(i)'] = rec
      BY <2>3, <1>6
    <2>5. QED  BY <1>2, <2>1, <2>2, <2>3, <2>4
  <1>9. /\ Contents' \in Seq(Channel!Record) /\ Len(Contents') = keep + 1
        /\ \A i \in 1 .. keep : Contents'[i] = Contents[i + d]
        /\ Contents'[keep + 1] = rec
    <2>1. Contents' = [i \in 1 .. size' |-> records'[Slot(i)']]
      BY DEF Contents
    <2>2. size' \in Nat /\ size' = keep + 1
      BY <1>4, <1>8
    <2>3. \A i \in 1 .. keep : i \in 1 .. size'
      BY <1>1, <2>2
    <2>4. keep + 1 \in 1 .. size'
      BY <1>1, <2>2
    <2>5. QED  BY <1>6, <1>7, <1>8, <2>1, <2>2, <2>3, <2>4
  <1> DEFINE room == IF size = Capacity THEN Tail(Contents) ELSE Contents
  <1>10. /\ room \in Seq(Channel!Record) /\ Len(room) = keep
         /\ \A i \in 1 .. keep : room[i] = Contents[i + d]
    <2>1. CASE size = Capacity
      <3>1. d = 1 /\ Contents # <<>>
        BY <2>1, <1>1, <1>5 DEF d
      <3>2. QED  BY <2>1, <3>1, <1>1, <1>5
    <2>2. CASE size # Capacity
      <3>1. d = 0
        BY <2>2 DEF d
      <3>2. QED  BY <2>2, <3>1, <1>1, <1>5
    <2>3. QED  BY <2>1, <2>2
  <1> HIDE DEF room
  <1>11. Contents' = Append(room, rec)
    <2>1. /\ Append(room, rec) \in Seq(Channel!Record)
          /\ Len(Append(room, rec)) = keep + 1
          /\ \A i \in 1 .. keep : Append(room, rec)[i] = room[i]
          /\ Append(room, rec)[keep + 1] = rec
      BY <1>1, <1>2, <1>10
    <2>2. \A i \in 1 .. keep + 1 : i \in 1 .. keep \/ i = keep + 1
      BY <1>1
    <2>3. \A i \in 1 .. keep + 1 : Contents'[i] = Append(room, rec)[i]
      BY <1>9, <1>10, <2>1, <2>2
    <2>4. QED  BY <1>9, <2>1, <2>3, SameLength
  <1>12. Channel!PublishRecord(published_held, next, time)
    BY <1>5, <1>11
    DEF PublishRecord, DropOldestIfFull, IncrementEvictionCount, room, rec,
        Channel!PublishRecord, Channel!NewRecord, Channel!Evicted
  <1>13. records' \in [Slots -> Channel!Record \cup {NoRecord}]
    BY <1>2, <1>4 DEF IInv, StorageOK
  <1>14. QED  BY <1>3, <1>8, <1>12, <1>13 DEF LiveRecords

-----------------------------------------------------------------------------
(* The channel and the module of its proofs are two instances of the same  *)
(* definitions: what is proved of one holds of the other.                  *)
LEMMA SameCardinality ==
    \A S : /\ Channel!Cardinality(S) = Cardinality(S)
           /\ ChannelProofs!Cardinality(S) = Cardinality(S)
  BY DEF Cardinality, IsFiniteSet,
         Channel!Cardinality, Channel!IsFiniteSet,
         ChannelProofs!Cardinality, ChannelProofs!IsFiniteSet

LEMMA SameInit == Channel!Init <=> ChannelProofs!Init
  BY DEF Channel!Init, Channel!NoAnswer,
         ChannelProofs!Init, ChannelProofs!NoAnswer

LEMMA SameNext ==
    [Channel!Next]_(Channel!vars) <=> [ChannelProofs!Next]_(ChannelProofs!vars)
  <1>1. Channel!vars = ChannelProofs!vars /\ Channel!vars' = ChannelProofs!vars'
    BY DEF Channel!vars, ChannelProofs!vars
  <1>2. Channel!Mask = ChannelProofs!Mask
    BY DEF Channel!Mask, ChannelProofs!Mask
  <1>3. \A enable, known \in BOOLEAN :
           Channel!Prepare(enable, known) <=> ChannelProofs!Prepare(enable, known)
    BY DEF Channel!Prepare, Channel!NoAnswer,
           ChannelProofs!Prepare, ChannelProofs!NoAnswer
  <1>4. \A baseline : Channel!Begin(baseline) <=> ChannelProofs!Begin(baseline)
    BY DEF Channel!Begin, Channel!NoAnswer, Channel!Evicted,
           ChannelProofs!Begin, ChannelProofs!NoAnswer, ChannelProofs!Evicted
  <1>5. Channel!End <=> ChannelProofs!End
    BY DEF Channel!End, Channel!NoAnswer,
           ChannelProofs!End, ChannelProofs!NoAnswer
  <1>6. \A time : Channel!CaptureCutoff(time)
                    <=> ChannelProofs!CaptureCutoff(time)
    BY SameCardinality
    DEF Channel!CaptureCutoff, Channel!CutoffAt,
        ChannelProofs!CaptureCutoff, ChannelProofs!CutoffAt
  <1>7. \A next, time : Channel!Publish(published_held, next, time)
                          <=> ChannelProofs!Publish(published_held, next, time)
    BY DEF Channel!Publish, Channel!PublishExhausted, Channel!PublishRecord,
           Channel!NewRecord, Channel!NoAnswer, Channel!Evicted,
           ChannelProofs!Publish, ChannelProofs!PublishExhausted,
           ChannelProofs!PublishRecord, ChannelProofs!NewRecord,
           ChannelProofs!NoAnswer, ChannelProofs!Evicted
  <1>8. \A span : Channel!Drain(span) <=> ChannelProofs!Drain(span)
    BY DEF Channel!Drain, Channel!Batch, Channel!Rest, Channel!StatusAfter,
           Channel!DrainCount,
           ChannelProofs!Drain, ChannelProofs!Batch, ChannelProofs!Rest,
           ChannelProofs!StatusAfter, ChannelProofs!DrainCount
  <1>9. Channel!Next <=> ChannelProofs!Next
    BY <1>2, <1>3, <1>4, <1>5, <1>6, <1>7, <1>8
    DEF Channel!Next, ChannelProofs!Next
  <1>10. QED  BY <1>1, <1>9

LEMMA SameInv == Channel!Inv <=> ChannelProofs!Inv
  <1>1. Channel!Record = ChannelProofs!Record
    BY DEF Channel!Record, Channel!U64, Channel!Mask,
           ChannelProofs!Record, ChannelProofs!U64, ChannelProofs!Mask
  <1>2. Channel!Answer = ChannelProofs!Answer
    BY <1>1 DEF Channel!Answer, Channel!NoAnswer, Channel!Cutoff,
           Channel!Status, Channel!U64, Channel!Mask,
           ChannelProofs!Answer, ChannelProofs!NoAnswer, ChannelProofs!Cutoff,
           ChannelProofs!Status, ChannelProofs!U64, ChannelProofs!Mask
  <1>3. Channel!TypeOK <=> ChannelProofs!TypeOK
    BY <1>1, <1>2 DEF Channel!TypeOK, Channel!U64, Channel!Mask,
           ChannelProofs!TypeOK, ChannelProofs!U64, ChannelProofs!Mask
  <1>4. Channel!Contiguous <=> ChannelProofs!Contiguous
    BY DEF Channel!Contiguous, ChannelProofs!Contiguous
  <1>5. Channel!HeldChain <=> ChannelProofs!HeldChain
    BY DEF Channel!HeldChain, ChannelProofs!HeldChain
  <1>6. QED  BY <1>3, <1>4, <1>5 DEF Channel!Inv, ChannelProofs!Inv

LEMMA ChannelInv == Channel!Spec => []Channel!Inv
  BY ChannelProofs!ChannelInvariant, SameInit, SameNext, SameInv, PTL
  DEF Channel!Spec, ChannelProofs!Spec

-----------------------------------------------------------------------------
LEMMA InitStep == Init => IInv /\ Channel!Init
  <1> SUFFICES ASSUME Init PROVE IInv /\ Channel!Init
    OBVIOUS
  <1>1. IInv
    <2>1. StorageOK
      <3>1. /\ records \in [Slots -> Channel!Record \cup {NoRecord}]
            /\ read_slot \in Slots /\ size \in 0 .. Capacity
            /\ transport_epoch \in 0 .. MaxU64
            /\ next_sequence \in 0 .. MaxU64
            /\ eviction_count \in 0 .. MaxU64
            /\ published_held \in SUBSET Controls
        BY DEF Init, Slots
      <3>2. enabled \in BOOLEAN /\ active \in BOOLEAN
        BY DEF Init
      <3>3. QED  BY <3>1, <3>2 DEF StorageOK
    <2>2. LiveRecords
      BY DEF Init, LiveRecords
    <2>3. QED  BY <2>1, <2>2 DEF IInv
  <1>2. Channel!Init
    BY EmptyContents DEF Init, Channel!Init, Channel!NoAnswer
  <1>3. QED  BY <1>1, <1>2

LEMMA BoundedCounters ==
    ASSUME IInv
    PROVE  /\ Channel!Evicted(eviction_count) \in 0 .. MaxU64
           /\ IncrementEvictionCount
                <=> eviction_count' = Channel!Evicted(eviction_count)
  BY DEF IInv, StorageOK, Channel!Evicted, IncrementEvictionCount

(* The live window does not move when the storage does not.                *)
LEMMA SameWindow ==
    ASSUME IInv, UNCHANGED <<records, read_slot, size>>
    PROVE  Contents' = Contents /\ LiveRecords'
  BY DEF Contents, Slot, IInv, LiveRecords

LEMMA PrepareStep ==
    ASSUME IInv, NEW enable \in BOOLEAN, NEW known \in BOOLEAN,
           Prepare(enable, known)
    PROVE  IInv' /\ Channel!Prepare(enable, known)
  <1>1. /\ Contents' = <<>> /\ LiveRecords'
        /\ records' \in [Slots -> Channel!Record \cup {NoRecord}]
        /\ read_slot' \in Slots /\ size' \in 0 .. Capacity
    BY ClearQueueStep DEF Prepare
  <1>2. Channel!Prepare(enable, known)
    BY <1>1 DEF Prepare, Channel!Prepare, Channel!NoAnswer
  <1>3. /\ transport_epoch' \in 0 .. MaxU64
        /\ next_sequence' \in 0 .. MaxU64
        /\ eviction_count' \in 0 .. MaxU64
        /\ published_held' \in SUBSET Controls
    BY DEF Prepare
  <1>4. enabled' \in BOOLEAN /\ active' \in BOOLEAN
    BY DEF Prepare
  <1>5. QED  BY <1>1, <1>2, <1>3, <1>4 DEF IInv, StorageOK

LEMMA BeginStep ==
    ASSUME IInv, NEW baseline \in SUBSET Controls, Begin(baseline)
    PROVE  IInv' /\ Channel!Begin(baseline)
  <1>1. /\ Contents' = <<>> /\ LiveRecords'
        /\ records' \in [Slots -> Channel!Record \cup {NoRecord}]
        /\ read_slot' \in Slots /\ size' \in 0 .. Capacity
    BY ClearQueueStep DEF Begin
  <1>2. Channel!Begin(baseline)
    BY <1>1, BoundedCounters DEF Begin, Channel!Begin, Channel!NoAnswer
  <1>3. /\ transport_epoch' \in 0 .. MaxU64
        /\ next_sequence' \in 0 .. MaxU64
        /\ eviction_count' \in 0 .. MaxU64
    BY BoundedCounters DEF Begin, IInv, StorageOK
  <1>4. /\ enabled' \in BOOLEAN /\ active' \in BOOLEAN
        /\ published_held' \in SUBSET Controls
    BY DEF Begin, IInv, StorageOK
  <1>5. QED  BY <1>1, <1>2, <1>3, <1>4 DEF IInv, StorageOK

LEMMA EndStep ==
    ASSUME IInv, End
    PROVE  IInv' /\ Channel!End
  <1>1. Contents' = Contents /\ LiveRecords'
    BY SameWindow DEF End
  <1>2. Channel!End
    BY <1>1 DEF End, Channel!End, Channel!NoAnswer
  <1>3. StorageOK'
    BY DEF End, IInv, StorageOK
  <1>4. QED  BY <1>1, <1>2, <1>3 DEF IInv

LEMMA CaptureCutoffStep ==
    ASSUME IInv, NEW time \in Times, CaptureCutoff(time)
    PROVE  IInv' /\ Channel!CaptureCutoff(time)
  <1>1. /\ Contents' = <<>> /\ LiveRecords'
        /\ records' \in [Slots -> Channel!Record \cup {NoRecord}]
        /\ read_slot' \in Slots /\ size' \in 0 .. Capacity
    BY ClearQueueStep DEF CaptureCutoff
  <1>2. /\ Len(Contents) = size
        /\ \A i \in 1 .. size : Contents[i] = records[Slot(i)]
    BY ContentsSeq
  <1>3. {i \in 1 .. size : records[Slot(i)].observed_time >= time}
          = {i \in 1 .. Len(Contents) : Contents[i].observed_time >= time}
    BY <1>2
  <1>4. Channel!CaptureCutoff(time)
    BY <1>1, <1>3, SameCardinality
    DEF CaptureCutoff, HandoffDrops, state, Channel!CaptureCutoff,
        Channel!CutoffAt
  <1>5. StorageOK'
    BY <1>1 DEF CaptureCutoff, IInv, StorageOK, state
  <1>6. QED  BY <1>1, <1>4, <1>5 DEF IInv

LEMMA PublishStep ==
    ASSUME IInv, NEW next \in SUBSET Controls, NEW time \in Times,
           Publish(published_held, next, time)
    PROVE  IInv' /\ Channel!Publish(published_held, next, time)
  <1>1. CASE PublishExhausted
    <2>1. Contents' = Contents /\ LiveRecords'
      BY <1>1, SameWindow DEF PublishExhausted
    <2>2. Channel!PublishExhausted
      BY <1>1, <2>1, BoundedCounters
      DEF PublishExhausted, Channel!PublishExhausted, Channel!NoAnswer
    <2>3. StorageOK'
      BY <1>1, BoundedCounters DEF PublishExhausted, IInv, StorageOK
    <2>4. QED  BY <2>1, <2>2, <2>3 DEF IInv, Publish, Channel!Publish
  <1>2. CASE PublishRecord(published_held, next, time)
    <2>1. /\ Channel!PublishRecord(published_held, next, time)
          /\ LiveRecords'
          /\ records' \in [Slots -> Channel!Record \cup {NoRecord}]
          /\ read_slot' \in Slots /\ size' \in 0 .. Capacity
      BY <1>2, PublishRecordStep DEF Publish
    <2>2. /\ transport_epoch' = transport_epoch
          /\ enabled' = enabled /\ active' = active
          /\ published_held' = next
          /\ next_sequence' = next_sequence + 1 /\ next_sequence # MaxU64
          /\ eviction_count' \in {eviction_count,
                                  Channel!Evicted(eviction_count)}
      BY <1>2, BoundedCounters DEF PublishRecord, DropOldestIfFull
    <2>3. next_sequence' \in 0 .. MaxU64 /\ eviction_count' \in 0 .. MaxU64
      BY <2>2, BoundedCounters DEF IInv, StorageOK
    <2>4. StorageOK'
      BY <2>1, <2>2, <2>3 DEF IInv, StorageOK
    <2>5. QED  BY <2>1, <2>4 DEF IInv, Publish, Channel!Publish
  <1>3. QED  BY <1>1, <1>2 DEF Publish

LEMMA NextStep ==
    ASSUME IInv, [Next]_vars
    PROVE  IInv' /\ [Channel!Next]_(Channel!vars)
  <1>1. ASSUME NEW enable \in BOOLEAN, NEW known \in BOOLEAN,
               Prepare(enable, known)
        PROVE  IInv' /\ Channel!Next
    BY <1>1, PrepareStep DEF Channel!Next
  <1>2. ASSUME NEW baseline \in SUBSET Controls, Begin(baseline)
        PROVE  IInv' /\ Channel!Next
    BY <1>2, BeginStep DEF Channel!Next, Channel!Mask
  <1>3. CASE End
    BY <1>3, EndStep DEF Channel!Next
  <1>4. ASSUME NEW time \in Times, CaptureCutoff(time)
        PROVE  IInv' /\ Channel!Next
    BY <1>4, CaptureCutoffStep DEF Channel!Next
  <1>5. ASSUME NEW next \in SUBSET Controls, NEW time \in Times,
               Publish(published_held, next, time)
        PROVE  IInv' /\ Channel!Next
    BY <1>5, PublishStep DEF Channel!Next, Channel!Mask
  <1>6. ASSUME NEW span \in 0 .. Capacity, Drain(span)
        PROVE  IInv' /\ Channel!Next
    <2>1. /\ Channel!Drain(span) /\ LiveRecords'
          /\ read_slot' \in Slots /\ size' \in 0 .. Capacity
      BY <1>6, DrainStep
    <2>2. StorageOK'
      BY <1>6, <2>1 DEF Drain, IInv, StorageOK, state
    <2>3. QED  BY <2>1, <2>2 DEF IInv, Channel!Next
  <1>7. CASE UNCHANGED vars
    <2>1. Contents' = Contents /\ LiveRecords'
      BY <1>7, SameWindow DEF vars
    <2>2. StorageOK'
      BY <1>7 DEF vars, state, IInv, StorageOK
    <2>3. QED
      BY <1>7, <2>1, <2>2 DEF vars, state, IInv, Channel!vars
  <1>8. QED
    BY <1>1, <1>2, <1>3, <1>4, <1>5, <1>6, <1>7 DEF Next

LEMMA RingInvariant == Spec => []IInv
  BY InitStep, NextStep, PTL DEF Spec

(* The ring buffer is the bounded drop-oldest queue, for every capacity    *)
(* and counter width (GameplayTransitionJournal.cpp).                      *)
THEOREM ImplementsChannel == Spec => ChannelSpec
  <1>1. Init => Channel!Init
    BY InitStep
  <1>2. IInv /\ [Next]_vars => [Channel!Next]_(Channel!vars)
    BY NextStep
  <1>3. QED
    BY <1>1, <1>2, RingInvariant, PTL DEF Spec, ChannelSpec, Channel!Spec

(* The ring never leaves its types: no slot index, size or counter is ever *)
(* out of range, whatever the order of calls.                              *)
THEOREM RingTypeOK == Spec => []TypeOK
  <1>1. IInv /\ Channel!Inv => TypeOK
    BY DEF IInv, TypeOK, Channel!Inv, Channel!TypeOK
  <1>2. QED
    BY <1>1, ChannelInv, RingInvariant, ImplementsChannel, PTL DEF ChannelSpec

(* The live window is the newest `size` records of the current epoch, in   *)
(* sequence order, and their held masks form a chain that ends with the    *)
(* published mask.                                                         *)
THEOREM RingWindow == Spec => []ContiguousWindow
  <1>1. Channel!Inv => ContiguousWindow
    BY DEF Channel!Inv, ContiguousWindow
  <1>2. QED
    BY <1>1, ChannelInv, ImplementsChannel, PTL DEF ChannelSpec

-----------------------------------------------------------------------------
(* What ties the transport to the published word, the publication in       *)
(* flight included.                                                        *)
Follows ==
    /\ settings \in Settings
    /\ enabled \in BOOLEAN /\ active \in BOOLEAN
    /\ worker = "none" => ~enabled
    /\ worker \in {"none", "stopped", "running", "ending"}
    /\ active => enabled /\ worker \in {"running", "ending"}
    /\ enabled => settings.absolute
    /\ Ready /\ active => published_held = Gameplay(published_input)
    /\ ~Ready =>
          /\ worker \in {"running", "ending"}
          /\ publication.next = published_input
          /\ active => published_held = Gameplay(publication.previous)

FollowsInv == (worker = "any" /\ Ready) \/ Follows

(* The devices as the mapper has them.                                     *)
Shape ==
    /\ settings \in Settings
    /\ packet_read \in BOOLEAN
    /\ pad \in PadStates[settings.backend] \cup {NoPad}
    /\ keyboard_states \subseteq KeyboardBindings
    /\ DOMAIN xinput = {"open", "connected", "state", "waiting"}
    /\ DOMAIN raw_hid = {"open", "current", "values"}

(* Only the controller of the chosen backend is open; the state kept of    *)
(* the slot is nothing without a connection and else a state of the pad,   *)
(* the last one if no other packet has come since.                         *)
Opened ==
    /\ xinput.open => settings.backend = "XInput"
    /\ raw_hid.open => settings.backend = "RawHid"
    /\ ~xinput.connected => xinput.state = Nothing
    /\ xinput.connected => xinput.state \in PadStates[settings.backend]
    /\ xinput.connected => settings.backend = "XInput"
    /\ xinput.connected /\ packet_read => xinput.state = pad

Sound(values, held) ==
    \A b \in settings.bindings :
        LET activation == Activation(values, b)
        IN  /\ Reaches(activation, settings.press) => b \in held
            /\ b \in held => Reaches(activation, settings.release)

Apart(held) ==
    settings.release > 0 => \A a, b \in held :
        ~(/\ a.control = b.control /\ a.neutral = b.neutral
          /\ Opposite(a.direction, b.direction))

Held ==
    /\ {b.key : b \in keyboard_states} \subseteq keys
    /\ latches = controller_states
    /\ reading = "applied" => Sound(LastReading, controller_states)
    /\ Apart(controller_states)
    /\ published_input = Compose(keyboard_states, controller_states)
    /\ ~foreground => keyboard_states = {} /\ controller_states = {}

HeldInv == Shape /\ Opened /\ Held
-----------------------------------------------------------------------------
LEMMA PublicationDiffers ==
    ASSUME NEW p, NEW n
    PROVE  [previous |-> p, next |-> n] # NoPublication
  <1>1. "previous" \in DOMAIN [previous |-> p, next |-> n]
    OBVIOUS
  <1>2. "previous" \notin DOMAIN NoPublication
    BY DEF NoPublication
  <1>3. QED  BY <1>1, <1>2

(* A handler composes and publishes once, or leaves the word alone.        *)
LEMMA HandlersPublish ==
    ASSUME HandlesEvent
    PROVE  /\ Ready /\ settings' = settings
           /\ \/ \E k, c : PublishInput(k, c)
              \/ UNCHANGED <<published_input, publication>>
  <1>1. Ready
    BY DEF HandlesEvent
  <1>2. ASSUME NEW key \in Keys, NEW pressed \in BOOLEAN,
               KeyMessage(key, pressed) \/ KeyMessageAway(key, pressed)
        PROVE  settings' = settings
               /\ \/ \E k, c : PublishInput(k, c)
                  \/ UNCHANGED <<published_input, publication>>
    BY <1>2 DEF KeyMessage, KeyMessageAway, KeyMoves, SetMapper
  <1>3. CASE LoseForeground
    BY <1>1, <1>3 DEF LoseForeground, SetMapper, outsideVars
  <1>4. CASE PollReads \/ PollFindsNoPad \/ PollFails \/ PollSkipped
    BY <1>1, <1>4 DEF PollReads, PollFindsNoPad, PollFails, PollSkipped,
       ApplyControllerState, SetMapper, outsideVars
  <1>5. ASSUME NEW packet, PacketArrives(packet)
        PROVE  settings' = settings
               /\ \/ \E k, c : PublishInput(k, c)
                  \/ UNCHANGED <<published_input, publication>>
    BY <1>5 DEF PacketArrives, ApplyControllerState, SetMapper, outsideVars
  <1>6. CASE MalformedPacket \/ DeviceChange
    BY <1>1, <1>6 DEF MalformedPacket, DeviceChange, ReopenRawHid, SetMapper,
       outsideVars
  <1>7. QED  BY <1>1, <1>2, <1>3, <1>4, <1>5, <1>6 DEF HandlesEvent

(* What is published while the transport is active waits to be recorded    *)
(* with the word it replaced, unless it is that word.                      *)
LEMMA PublishFollows ==
    ASSUME Follows, Ready, worker = "running",
           worker' \in {"running", "ending"},
           UNCHANGED <<settings, vars>>,
           \/ \E k, c : PublishInput(k, c)
           \/ UNCHANGED <<published_input, publication>>
    PROVE  Follows'
  <1>1. UNCHANGED <<enabled, active, published_held>>
    BY DEF vars, state
  <1>2. CASE UNCHANGED <<published_input, publication>>
    BY <1>1, <1>2 DEF Follows, Ready, Gameplay, NoPublication
  <1>3. ASSUME NEW k, NEW c, PublishInput(k, c)
        PROVE  Follows'
    <2>1. CASE settings.absolute /\ published_input' # published_input
      <3>1. publication' = [previous |-> published_input,
                            next |-> published_input']
        BY <1>3, <2>1 DEF PublishInput
      <3>2. ~Ready'
        BY <3>1, PublicationDiffers DEF Ready, NoPublication
      <3>3. /\ publication'.next = published_input'
            /\ publication'.previous = published_input
        BY <3>1
      <3>4. QED  BY <1>1, <3>2, <3>3 DEF Follows, Gameplay
    <2>2. CASE ~(settings.absolute /\ published_input' # published_input)
      <3>1. publication' = NoPublication
        BY <1>3, <2>2 DEF PublishInput
      <3>2. Ready'
        BY <3>1 DEF Ready, NoPublication
      <3>3. QED  BY <1>1, <2>2, <3>2 DEF Follows, Gameplay
    <2>3. QED  BY <2>1, <2>2
  <1>4. QED  BY <1>2, <1>3

LEMMA MasksOfWords == \A word : Gameplay(word) \in SUBSET Controls
  BY WorkerAssumption DEF Gameplay

LEMMA StartupFollows ==
    ASSUME Follows, Startup
    PROVE  Follows' /\ Next
  <1>1. settings.absolute \in BOOLEAN
    BY DevicesAssumption DEF Follows
  <1>2. Prepare(settings.absolute, TRUE) /\ settings' = settings
        /\ published_input' = published_input /\ publication' = publication
        /\ worker = "none" /\ worker' = "stopped"
    BY DEF Startup, deviceVars, outsideVars
  <1>3. enabled' = settings.absolute /\ active' = FALSE
    BY <1>1, <1>2 DEF Prepare
  <1>4. Ready'
    BY <1>2 DEF Follows, Ready, NoPublication
  <1>5. QED  BY <1>1, <1>2, <1>3, <1>4 DEF Follows, Next

LEMMA StartWorkerFollows ==
    ASSUME Follows, StartWorker
    PROVE  Follows' /\ [Next]_vars
  <1>1. /\ settings' = settings /\ published_input' = {}
        /\ publication' = NoPublication /\ worker' = "running"
    BY DEF StartWorker, OpenController
  <1>2. Ready' /\ Gameplay(published_input)' = {}
    BY <1>1 DEF Ready, NoPublication, Gameplay
  <1>3. CASE enabled
    <2>1. Begin({})
      BY <1>3 DEF StartWorker
    <2>2. /\ enabled' = enabled /\ published_held' = {}
          /\ active' \in BOOLEAN
      BY <2>1 DEF Begin
    <2>3. QED  BY <1>1, <1>2, <1>3, <2>1, <2>2 DEF Follows, Next
  <1>4. CASE ~enabled
    <2>1. UNCHANGED vars
      BY <1>4 DEF StartWorker
    <2>2. enabled' = enabled /\ active' = active /\ ~active
      BY <1>4, <2>1 DEF vars, state, Follows
    <2>3. QED  BY <1>1, <1>2, <1>4, <2>1, <2>2 DEF Follows
  <1>5. QED  BY <1>3, <1>4

LEMMA TransitionFollows ==
    ASSUME Follows, Transition
    PROVE  Follows' /\ [Next]_vars
  <1>1. /\ ~Ready /\ publication' = NoPublication /\ Ready'
        /\ UNCHANGED <<settings, published_input, worker>>
    BY DEF Transition, TransitionDone, outsideVars, Ready, NoPublication
  <1>2. /\ publication.next = published_input
        /\ active => published_held = Gameplay(publication.previous)
    BY <1>1 DEF Follows
  <1>3. CASE Transported
    <2>1. active
      BY <1>3 DEF Transported
    <2>2. PICK time \in Times :
             Publish(published_held, Gameplay(published_input), time)
      BY <1>2, <1>3, <2>1 DEF Transition
    <2>3. Next
      BY <2>2, MasksOfWords DEF Next
    <2>4. /\ enabled' = enabled
          /\ \/ active' = FALSE
             \/ active' = active /\ published_held' = Gameplay(published_input)
      BY <2>2 DEF Publish, PublishExhausted, PublishRecord
    <2>5. Gameplay(published_input)' = Gameplay(published_input)
      BY <1>1 DEF Gameplay
    <2>6. worker \in {"running", "ending"} /\ enabled
      BY <1>1, <1>3 DEF Follows, Transported
    <2>7. active' => published_held' = Gameplay(published_input)'
      BY <2>4, <2>5
    <2>8. active' \in BOOLEAN /\ enabled' \in BOOLEAN
      BY <2>4 DEF Follows
    <2>9. Follows'
      BY <1>1, <2>4, <2>6, <2>7, <2>8 DEF Follows
    <2>10. QED  BY <2>3, <2>9
  <1>4. CASE ~Transported
    <2>1. UNCHANGED vars
      BY <1>4 DEF Transition
    <2>2. UNCHANGED <<enabled, active, published_held>>
      BY <2>1 DEF vars, state
    <2>3. Gameplay(published_input)' = Gameplay(published_input)
      BY <1>1 DEF Gameplay
    <2>4. active => published_held = Gameplay(published_input)
      BY <1>2, <1>4 DEF Follows, Transported
    <2>5. QED  BY <1>1, <2>1, <2>2, <2>3, <2>4 DEF Follows
  <1>5. QED  BY <1>3, <1>4

LEMMA GameStepFollows ==
    ASSUME Follows, GameStep
    PROVE  Follows' /\ Next
  <1>1. Next
    BY JournalAssumption DEF GameStep, Next
  <1>2. UNCHANGED <<enabled, active, published_held>>
    BY DEF GameStep, CaptureCutoff, Drain, state
  <1>3. UNCHANGED <<settings, published_input, publication, worker>>
    BY DEF GameStep, deviceVars, outsideVars
  <1>4. QED
    BY <1>1, <1>2, <1>3 DEF Follows, Ready, NoPublication, Gameplay

LEMMA FollowsStep ==
    ASSUME FollowsInv, [WorkerNext]_workerVars
    PROVE  FollowsInv' /\ [Next]_vars
  <1>1. CASE worker = "any" /\ Ready
    <2>1. CASE AnyCaller
      BY <1>1, <2>1 DEF AnyCaller, FollowsInv, Ready, NoPublication, deviceVars
    <2>2. CASE UNCHANGED workerVars
      BY <1>1, <2>2
      DEF workerVars, FollowsInv, Ready, NoPublication, deviceVars
    <2>3. QED
      BY <1>1, <2>1, <2>2 DEF WorkerNext, Startup, StartWorker, HandleEvent,
         Transition, StopWorker, EndEpoch, GameStep
  <1>2. CASE Follows
    <2>1. CASE Startup
      BY <1>2, <2>1, StartupFollows DEF FollowsInv
    <2>2. CASE StartWorker
      BY <1>2, <2>2, StartWorkerFollows DEF FollowsInv
    <2>3. CASE HandleEvent
      BY <1>2, <2>3, HandlersPublish, PublishFollows
      DEF HandleEvent, FollowsInv
    <2>4. CASE Transition
      BY <1>2, <2>4, TransitionFollows DEF FollowsInv
    <2>5. CASE StopWorker
      <3>1. PublishInput({}, {}) /\ settings' = settings
        BY <2>5 DEF StopWorker, ReleaseAll, SetMapper, outsideVars
      <3>2. QED
        BY <1>2, <2>5, <3>1, PublishFollows DEF StopWorker, FollowsInv
    <2>6. CASE EndEpoch
      <3>1. /\ End /\ Ready /\ worker' = "stopped"
            /\ UNCHANGED <<settings, published_input, publication>>
        BY <2>6 DEF EndEpoch, deviceVars, outsideVars
      <3>2. active' = FALSE /\ enabled' = enabled
        BY <3>1 DEF End
      <3>3. Ready' /\ Next
        BY <3>1 DEF Ready, NoPublication, Next
      <3>4. QED  BY <1>2, <3>1, <3>2, <3>3 DEF Follows, FollowsInv
    <2>7. CASE GameStep
      BY <1>2, <2>7, GameStepFollows DEF FollowsInv
    <2>8. CASE \/ worker # "any" /\ OutsideStep /\ UNCHANGED <<vars, worker, starts>>
               \/ UNCHANGED workerVars
      <3>1. UNCHANGED <<settings, published_input, publication, worker, vars>>
        BY <2>8 DEF OutsideStep, FrontChanges, PadChanges, IntervalPasses,
           outsideVars, workerVars, deviceVars
      <3>2. UNCHANGED <<enabled, active, published_held>>
        BY <3>1 DEF vars, state
      <3>3. QED
        BY <1>2, <3>1, <3>2
        DEF Follows, FollowsInv, Ready, NoPublication, Gameplay
    <2>9. QED
      BY <1>2, <2>1, <2>2, <2>3, <2>4, <2>5, <2>6, <2>7, <2>8
      DEF WorkerNext, AnyCaller, Follows
  <1>3. QED  BY <1>1, <1>2 DEF FollowsInv

LEMMA FollowsInit == WorkerInit => FollowsInv /\ Init
  BY DEF WorkerInit, DevicesInit, Init, FollowsInv, Follows, Ready,
     NoPublication

LEMMA FollowsAlways == WorkerSpec => []FollowsInv /\ Spec
  <1>1. WorkerInit => FollowsInv /\ Init
    BY FollowsInit
  <1>2. FollowsInv /\ [WorkerNext]_workerVars => FollowsInv' /\ [Next]_vars
    BY FollowsStep
  <1>3. QED  BY <1>1, <1>2, PTL DEF WorkerSpec, Spec

(* The worker is a caller the transport allows: it records each change     *)
(* from the mask the transport holds, so the whole process implements the  *)
(* drop-oldest channel (InputPollingRuntime.cpp, PublishGameplayTransition;*)
(* GameplayTransitionJournal.cpp).                                         *)
THEOREM WorkerImplementsChannel == WorkerSpec => ChannelSpec
  BY FollowsAlways, ImplementsChannel, PTL

(* The live window of the transport the worker drives is the newest        *)
(* records of the epoch, each starting from the mask before it.            *)
THEOREM WorkerKeepsWindow == WorkerSpec => []ContiguousWindow
  BY FollowsAlways, RingWindow, PTL

(* While an epoch is live and no transition is between its exchange and    *)
(* its record, the baseline a cutoff hands over is the mask the game reads *)
(* (InputPollingRuntime.cpp, Publish).                                     *)
THEOREM BaselineIsWhatTheGameReads == WorkerSpec => []TransportFollowsInput
  <1>1. FollowsInv => TransportFollowsInput
    BY DEF FollowsInv, Follows, TransportFollowsInput
  <1>2. QED  BY <1>1, FollowsAlways, PTL
-----------------------------------------------------------------------------
(* Thresholds and activations. What a slot holds can be compared with a    *)
(* threshold; what a raw HID device reports is looked at only in range.    *)
Readable(values) ==
    settings.backend = "XInput" => \A c \in DOMAIN values : values[c] \in Int

LEMMA Thresholds ==
    ASSUME settings \in Settings
    PROVE  /\ settings.press \in 0 .. 100 /\ settings.release \in 0 .. 100
           /\ settings.release < settings.press
           /\ settings.backend \in {"XInput", "RawHid"}
  BY DevicesAssumption

LEMMA ReachesLess ==
    ASSUME NEW n \in Int, NEW d \in Nat, NEW p \in 0 .. 100, NEW r \in 0 .. 100,
           r < p, n * 100 >= p * d
    PROVE  n * 100 >= r * d
  <1>1. (p - r) * d >= 0
    OBVIOUS
  <1>2. (p - r) * d = p * d - r * d
    OBVIOUS
  <1>3. p * d \in Int /\ r * d \in Int
    OBVIOUS
  <1>4. QED  BY <1>1, <1>2, <1>3

LEMMA XInputFraction ==
    ASSUME settings \in Settings, settings.backend = "XInput",
           NEW b \in settings.bindings, NEW value \in Int
    PROVE  /\ XInputActivation(b, value)[1] \in Int
           /\ XInputActivation(b, value)[2] \in Nat
           /\ b.direction = "positive" /\ ~(value > 0)
                => XInputActivation(b, value) = None
           /\ b.direction = "negative" /\ ~(value < 0)
                => XInputActivation(b, value) = None
           /\ b.direction \in {"positive", "negative", "none"}
  <1>1. \/ b.kind = "button" /\ b.direction = "none"
        \/ b.kind = "trigger" /\ b.direction = "none"
        \/ b.kind = "axis" /\ b.direction \in Axis
    BY ControlsAssumption
  <1>2. CASE b.kind = "button" /\ b.direction = "none"
    BY <1>2 DEF XInputActivation, If, Whole, None
  <1>3. CASE b.kind = "trigger" /\ b.direction = "none"
    BY <1>3 DEF XInputActivation, TriggerActivation
  <1>4. CASE b.kind = "axis" /\ b.direction \in Axis
    BY <1>4 DEF XInputActivation, AxisActivation, None, Axis
  <1>5. QED  BY <1>1, <1>2, <1>3, <1>4

LEMMA HatValue ==
    ASSUME NEW value, NEW descriptor, NEW direction
    PROVE  HatActivation(value, descriptor, direction) \in {None, Whole}
  BY DEF HatActivation, If

LEMMA HatPointsOneWay ==
    ASSUME NEW value, NEW descriptor, NEW a \in Cardinal, NEW b \in Cardinal,
           Opposite(a, b)
    PROVE  \/ HatActivation(value, descriptor, a) = None
           \/ HatActivation(value, descriptor, b) = None
  <1> DEFINE position == value - descriptor.min
             count == descriptor.max - descriptor.min + 1
             sector == (position * 8) \div count
             towards == [up |-> {7, 0, 1}, right |-> {1, 2, 3},
                         down |-> {3, 4, 5}, left |-> {5, 6, 7}]
  <1>1. a # b
    BY DEF Opposite
  <1>2. CASE ~InRange(value, descriptor)
    BY <1>2 DEF HatActivation
  <1>3. CASE InRange(value, descriptor) /\ count <= 4
    BY <1>1, <1>3 DEF HatActivation, If
  <1>4. CASE InRange(value, descriptor) /\ ~(count <= 4)
    <2>1. CASE {a, b} = {"up", "down"}
      <3>1. ~(sector \in towards[a] /\ sector \in towards[b])
        <4> HIDE DEF sector
        <4>1. QED  BY <2>1
      <3>2. QED  BY <1>4, <3>1 DEF HatActivation, If
    <2>2. CASE {a, b} = {"left", "right"}
      <3>1. ~(sector \in towards[a] /\ sector \in towards[b])
        <4> HIDE DEF sector
        <4>1. QED  BY <2>2
      <3>2. QED  BY <1>4, <3>1 DEF HatActivation, If
    <2>3. QED  BY <2>1, <2>2 DEF Opposite, Cardinal
  <1>5. QED  BY <1>2, <1>3, <1>4

LEMMA ValueFraction ==
    ASSUME NEW value, NEW descriptor, NEW b,
           descriptor.min \in Int, descriptor.max \in Int,
           InRange(b.neutral, descriptor)
    PROVE  LET activation == ValueActivation(value, descriptor, b)
           IN  /\ activation[1] \in Int /\ activation[2] \in Nat
               /\ b.direction = "positive" /\ ~(value > b.neutral)
                    => activation = None
               /\ b.direction = "negative" /\ ~(value < b.neutral)
                    => activation = None
               /\ ~InRange(value, descriptor) => activation = None
  <1>1. CASE ~InRange(value, descriptor)
    BY <1>1 DEF ValueActivation, None
  <1>2. CASE InRange(value, descriptor)
    <2>1. /\ value \in Int /\ b.neutral \in Int
          /\ descriptor.min <= value /\ value <= descriptor.max
      BY <1>2 DEF InRange
    <2>2. CASE b.direction = "positive" /\ value > b.neutral
      BY <1>2, <2>1, <2>2 DEF ValueActivation
    <2>3. CASE b.direction = "negative" /\ value < b.neutral
      BY <1>2, <2>1, <2>3 DEF ValueActivation
    <2>4. CASE ~(b.direction = "positive" /\ value > b.neutral)
               /\ ~(b.direction = "negative" /\ value < b.neutral)
      BY <1>2, <2>4 DEF ValueActivation, None
    <2>5. QED  BY <2>2, <2>3, <2>4
  <1>3. QED  BY <1>1, <1>2

LEMMA RawHidFraction ==
    ASSUME settings \in Settings, settings.backend = "RawHid",
           NEW b \in settings.bindings, NEW value
    PROVE  LET activation == RawHidActivation(b, value, Descriptors[b.control])
           IN  activation[1] \in Int /\ activation[2] \in Nat
  <1>1. /\ Descriptors[b.control].min \in Int
        /\ Descriptors[b.control].max \in Int
        /\ \/ b.kind = "button"
           \/ b.kind = "hat"
           \/ b.kind = "value" /\ InRange(b.neutral, Descriptors[b.control])
    BY ControlsAssumption
  <1>2. CASE b.kind = "button"
    BY <1>2 DEF RawHidActivation, If, Whole, None
  <1>3. CASE b.kind = "hat"
    BY <1>3, HatValue DEF RawHidActivation, Whole, None
  <1>4. CASE b.kind = "value" /\ InRange(b.neutral, Descriptors[b.control])
    BY <1>1, <1>4, ValueFraction DEF RawHidActivation
  <1>5. QED  BY <1>1, <1>2, <1>3, <1>4

(* How far a control is moved is a number the thresholds compare with.     *)
LEMMA ActivationFraction ==
    ASSUME settings \in Settings, NEW b \in settings.bindings, NEW values,
           Readable(values)
    PROVE  Activation(values, b)[1] \in Int /\ Activation(values, b)[2] \in Nat
  <1>1. CASE b.control \notin DOMAIN values
    BY <1>1 DEF Activation, None
  <1>2. CASE b.control \in DOMAIN values /\ settings.backend = "XInput"
    BY <1>2, XInputFraction DEF Activation, Readable
  <1>3. CASE b.control \in DOMAIN values /\ settings.backend = "RawHid"
    BY <1>3, RawHidFraction DEF Activation
  <1>4. QED  BY <1>1, <1>2, <1>3, Thresholds

LEMMA PressedIsKept ==
    ASSUME settings \in Settings, NEW b \in settings.bindings, NEW values,
           Readable(values),
           Reaches(Activation(values, b), settings.press)
    PROVE  Reaches(Activation(values, b), settings.release)
  <1> DEFINE n == Activation(values, b)[1]
             d == Activation(values, b)[2]
  <1>1. n \in Int /\ d \in Nat
    BY ActivationFraction
  <1>2. n * 100 >= settings.press * d
    BY DEF Reaches
  <1> HIDE DEF n, d
  <1>3. n * 100 >= settings.release * d
    BY <1>1, <1>2, Thresholds, ReachesLess
  <1>4. QED  BY <1>3 DEF Reaches, n, d

LEMMA NoneDoesNotReach ==
    ASSUME NEW percent \in 0 .. 100, percent > 0
    PROVE  ~Reaches(None, percent)
  BY DEF Reaches, None

(* Opposite directions away from one neutral are never both activated.     *)
LEMMA OneSideOnly ==
    ASSUME settings \in Settings, NEW values, Readable(values),
           NEW a \in settings.bindings, NEW b \in settings.bindings,
           a.control = b.control, a.neutral = b.neutral,
           Opposite(a.direction, b.direction)
    PROVE  Activation(values, a) = None \/ Activation(values, b) = None
  <1>1. CASE a.control \notin DOMAIN values
    BY <1>1 DEF Activation
  <1>2. CASE a.control \in DOMAIN values /\ settings.backend = "XInput"
    <2> DEFINE value == values[a.control]
    <2>1. value \in Int
      BY <1>2 DEF Readable
    <2> HIDE DEF value
    <2>2. /\ a.direction \in {"positive", "negative", "none"}
          /\ b.direction \in {"positive", "negative", "none"}
      BY <1>2, <2>1, XInputFraction
    <2>3. \/ a.direction = "positive" /\ b.direction = "negative"
          \/ a.direction = "negative" /\ b.direction = "positive"
      BY <2>2 DEF Opposite
    <2>4. ~(value > 0 /\ value < 0)
      BY <2>1
    <2>5. XInputActivation(a, value) = None \/ XInputActivation(b, value) = None
      BY <1>2, <2>1, <2>3, <2>4, XInputFraction
    <2>6. QED  BY <1>2, <2>5 DEF Activation, value
  <1>3. CASE a.control \in DOMAIN values /\ settings.backend = "RawHid"
    <2> DEFINE value == values[a.control]
               descriptor == Descriptors[a.control]
    <2>1. /\ descriptor.min \in Int /\ descriptor.max \in Int
          /\ \/ a.kind = "button" /\ a.direction = "none"
             \/ a.kind = "hat" /\ a.direction \in Cardinal
             \/ /\ a.kind = "value" /\ a.direction \in Axis
                /\ InRange(a.neutral, descriptor)
          /\ \/ b.kind = "button" /\ b.direction = "none"
             \/ b.kind = "hat" /\ b.direction \in Cardinal
             \/ /\ b.kind = "value" /\ b.direction \in Axis
                /\ InRange(b.neutral, descriptor)
      BY <1>3, ControlsAssumption
    <2>2. /\ Activation(values, a) = RawHidActivation(a, value, descriptor)
          /\ Activation(values, b) = RawHidActivation(b, value, descriptor)
      BY <1>3 DEF Activation
    <2> HIDE DEF value, descriptor
    <2>3. CASE /\ a.kind = "hat" /\ b.kind = "hat"
               /\ a.direction \in Cardinal /\ b.direction \in Cardinal
      BY <2>2, <2>3, HatPointsOneWay DEF RawHidActivation
    <2>4. CASE /\ a.kind = "value" /\ b.kind = "value"
               /\ a.direction \in Axis /\ b.direction \in Axis
               /\ InRange(a.neutral, descriptor)
      <3>1. \/ a.direction = "positive" /\ b.direction = "negative"
            \/ a.direction = "negative" /\ b.direction = "positive"
        BY <2>4 DEF Opposite, Axis
      <3>2. \/ ~InRange(value, descriptor)
            \/ ~(value > a.neutral)
            \/ ~(value < a.neutral)
        BY <2>1, <2>4 DEF InRange
      <3>3. \/ ValueActivation(value, descriptor, a) = None
            \/ ValueActivation(value, descriptor, b) = None
        BY <2>1, <2>4, <3>1, <3>2, ValueFraction
      <3>4. QED  BY <2>2, <2>4, <3>3 DEF RawHidActivation
    <2>5. QED  BY <2>1, <2>3, <2>4 DEF Opposite, Cardinal, Axis
  <1>4. QED  BY <1>1, <1>2, <1>3, Thresholds

-----------------------------------------------------------------------------
(* The latches of a reading hold what it presses and no opposites.         *)
LEMMA LatchedSound ==
    ASSUME settings \in Settings, NEW values, Readable(values)
    PROVE  Sound(values, Latched(values)) /\ Apart(Latched(values))
  <1>1. Latched(values) \subseteq settings.bindings
    BY DEF Latched
  <1>2. ASSUME NEW b \in Latched(values)
        PROVE  Reaches(Activation(values, b), settings.release)
    BY <1>1, <1>2, PressedIsKept DEF Latched
  <1>3. ASSUME NEW b \in settings.bindings,
               Reaches(Activation(values, b), settings.press)
        PROVE  b \in Latched(values)
    BY <1>3, PressedIsKept DEF Latched
  <1>4. ASSUME settings.release > 0,
               NEW a \in Latched(values), NEW b \in Latched(values),
               a.control = b.control, a.neutral = b.neutral,
               Opposite(a.direction, b.direction)
        PROVE  FALSE
    <2>1. Reaches(None, settings.release)
      BY <1>1, <1>2, <1>4, OneSideOnly
    <2>2. QED  BY <1>4, <2>1, Thresholds, NoneDoesNotReach
  <1>5. QED  BY <1>2, <1>3, <1>4 DEF Sound, Apart

LEMMA NothingSound ==
    ASSUME settings \in Settings
    PROVE  Sound(Nothing, {}) /\ Apart({}) /\ Readable(Nothing)
  <1>1. \A b : Activation(Nothing, b) = None
    BY DEF Activation, Nothing
  <1>2. ~Reaches(None, settings.press)
    BY Thresholds, NoneDoesNotReach
  <1>3. Readable(Nothing)
    BY DEF Readable, Nothing
  <1>4. QED  BY <1>1, <1>2, <1>3 DEF Sound, Apart

(* With the same settings a reading is as sound after a step as before.    *)
LEMMA SameSettings ==
    ASSUME settings' = settings
    PROVE  /\ \A values, held : Sound(values, held)' <=> Sound(values, held)
           /\ \A held : Apart(held)' <=> Apart(held)
           /\ \A k, c : Compose(k, c)' = Compose(k, c)
           /\ LastReading' = IF settings.backend = "XInput"
                             THEN xinput'.state ELSE raw_hid'.values
  BY DEF Sound, Apart, Compose, Activation, LastReading

(* Records of the devices, field by field.                                 *)
IsSlot(x) == DOMAIN x = {"open", "connected", "state", "waiting"}
IsRawHid(r) == DOMAIN r = {"open", "current", "values"}

LEMMA SlotFields ==
    ASSUME NEW x, IsSlot(x), NEW c, NEW s, NEW w
    PROVE  /\ LET y == [x EXCEPT !.waiting = w]
              IN  /\ IsSlot(y) /\ y.open = x.open
                  /\ y.connected = x.connected /\ y.state = x.state
           /\ LET y == [x EXCEPT !.connected = c, !.state = s]
              IN  /\ IsSlot(y) /\ y.open = x.open
                  /\ y.connected = c /\ y.state = s
           /\ LET y == [x EXCEPT !.connected = c, !.state = s, !.waiting = w]
              IN  /\ IsSlot(y) /\ y.open = x.open
                  /\ y.connected = c /\ y.state = s
  BY DEF IsSlot

LEMMA RawHidFields ==
    ASSUME NEW r, IsRawHid(r), NEW v, NEW c
    PROVE  /\ LET q == [r EXCEPT !.values = v]
              IN  IsRawHid(q) /\ q.open = r.open /\ q.values = v
           /\ LET q == [r EXCEPT !.current = c]
              IN  IsRawHid(q) /\ q.open = r.open /\ q.values = r.values
  BY DEF IsRawHid

LEMMA Records ==
    ASSUME HeldInv
    PROVE  IsSlot(xinput) /\ IsRawHid(raw_hid)
  BY DEF HeldInv, Shape, IsSlot, IsRawHid

LEMMA Cleared ==
    ASSUME HeldInv
    PROVE  /\ ClearXInput => /\ IsSlot(xinput') /\ xinput'.open = xinput.open
                             /\ xinput'.connected = FALSE
                             /\ xinput'.state = Nothing
           /\ ClearRawHid => /\ IsRawHid(raw_hid')
                             /\ raw_hid'.open = raw_hid.open
                             /\ raw_hid'.values = Nothing
  <1>1. ASSUME ClearXInput
        PROVE  /\ IsSlot(xinput') /\ xinput'.open = xinput.open
               /\ xinput'.connected = FALSE /\ xinput'.state = Nothing
    BY <1>1, Records DEF ClearXInput, IsSlot
  <1>2. ASSUME ClearRawHid
        PROVE  /\ IsRawHid(raw_hid') /\ raw_hid'.open = raw_hid.open
               /\ raw_hid'.values = Nothing
    BY <1>2, Records DEF ClearRawHid, IsRawHid
  <1>3. QED  BY <1>1, <1>2

(* Everything is let go, and so are the readings.                          *)
LEMMA ReleaseHeld ==
    ASSUME HeldInv, UNCHANGED <<settings, pad, packet_read>>,
           latches' = {}, SetMapper({}, {}),
           IsSlot(xinput'), IsRawHid(raw_hid'),
           xinput'.open => xinput.open, raw_hid'.open => raw_hid.open,
           xinput'.connected = FALSE, xinput'.state = Nothing,
           raw_hid'.values = Nothing
    PROVE  HeldInv'
  <1>1. Sound(Nothing, {}) /\ Apart({})
    BY NothingSound DEF HeldInv, Shape
  <1>2. /\ keyboard_states' = {} /\ controller_states' = {}
        /\ published_input' = Compose({}, {})
    BY DEF SetMapper, PublishInput
  <1>3. LastReading' = Nothing
    BY SameSettings
  <1>4. Sound(LastReading, controller_states)' /\ Apart(controller_states)'
    BY <1>1, <1>2, <1>3, SameSettings
  <1>5. published_input' = Compose(keyboard_states, controller_states)'
    BY <1>2, SameSettings
  <1>6. Held'
    BY <1>2, <1>4, <1>5 DEF Held
  <1>7. Shape'
    BY <1>2 DEF HeldInv, Shape, IsSlot, IsRawHid
  <1>8. Opened'
    BY DEF HeldInv, Opened
  <1>9. QED  BY <1>6, <1>7, <1>8 DEF HeldInv

(* The mapper and the readings stay as they are.                           *)
LEMMA SameHeld ==
    ASSUME HeldInv,
           UNCHANGED <<settings, keys, mapperVars, published_input>>,
           ~foreground' => ~foreground,
           LastReading' = LastReading \/ reading' # "applied",
           reading' = "applied" => reading = "applied"
    PROVE  Held'
  <1>1. UNCHANGED <<keyboard_states, controller_states, latches>>
    BY DEF mapperVars
  <1>2. Apart(controller_states)'
    BY <1>1, SameSettings DEF HeldInv, Held
  <1>3. reading' = "applied" => Sound(LastReading, controller_states)'
    BY <1>1, SameSettings DEF HeldInv, Held
  <1>4. published_input' = Compose(keyboard_states, controller_states)'
    BY <1>1, SameSettings DEF HeldInv, Held
  <1>5. QED  BY <1>1, <1>2, <1>3, <1>4 DEF HeldInv, Held

(* A reading is applied while the window is in front.                      *)
LEMMA ApplyHeld ==
    ASSUME HeldInv, UNCHANGED <<settings, keys>>, foreground' = TRUE,
           NEW values, Readable(values), ApplyControllerState(values),
           LastReading' = values
    PROVE  Held' /\ keyboard_states' = keyboard_states
  <1>1. /\ keyboard_states' = keyboard_states
        /\ latches' = Latched(values) /\ controller_states' = Latched(values)
        /\ published_input' = Compose(keyboard_states, Latched(values))
    BY DEF ApplyControllerState, SetMapper, PublishInput
  <1>2. Sound(values, Latched(values)) /\ Apart(Latched(values))
    BY LatchedSound DEF HeldInv, Shape
  <1>3. Sound(LastReading, controller_states)' /\ Apart(controller_states)'
    BY <1>1, <1>2, SameSettings
  <1>4. published_input' = Compose(keyboard_states, controller_states)'
    BY <1>1, SameSettings
  <1>5. QED  BY <1>1, <1>3, <1>4 DEF HeldInv, Held

-----------------------------------------------------------------------------
LEMMA KeyMessageHeld ==
    ASSUME HeldInv, NEW key \in Keys, NEW pressed \in BOOLEAN,
           KeyMessage(key, pressed)
    PROVE  HeldInv'
  <1> DEFINE held == ApplyKeyboardTransition(key, pressed)
  <1>1. /\ keyboard_states' = held /\ controller_states' = controller_states
        /\ published_input' = Compose(held, controller_states)
        /\ foreground' = TRUE
        /\ UNCHANGED <<latches, xinput, raw_hid, reading, settings, pad,
                       packet_read>>
        /\ keys' = IF pressed THEN keys \cup {key} ELSE keys \ {key}
    BY DEF KeyMessage, SetMapper, PublishInput, KeyMoves, InForeground
  <1>2. /\ keyboard_states \subseteq KeyboardBindings
        /\ {b.key : b \in keyboard_states} \subseteq keys
    BY DEF HeldInv, Shape, Held
  <1>3. held \subseteq KeyboardBindings /\ {b.key : b \in held} \subseteq keys'
    <2>1. CASE pressed
      BY <1>1, <1>2, <2>1 DEF ApplyKeyboardTransition
    <2>2. CASE ~pressed
      BY <1>1, <1>2, <2>2 DEF ApplyKeyboardTransition
    <2>3. QED  BY <2>1, <2>2
  <1> HIDE DEF held
  <1>4. LastReading' = LastReading
    BY <1>1 DEF LastReading
  <1>5. reading' = "applied" => Sound(LastReading, controller_states)'
    BY <1>1, <1>4, SameSettings DEF HeldInv, Held
  <1>6. Apart(controller_states)'
    BY <1>1, SameSettings DEF HeldInv, Held
  <1>7. published_input' = Compose(keyboard_states, controller_states)'
    BY <1>1, SameSettings
  <1>8. Held'
    BY <1>1, <1>3, <1>5, <1>6, <1>7 DEF HeldInv, Held
  <1>9. Shape' /\ Opened'
    BY <1>1, <1>3 DEF HeldInv, Shape, Opened
  <1>10. QED  BY <1>8, <1>9 DEF HeldInv

LEMMA AwayHeld ==
    ASSUME HeldInv, UNCHANGED <<settings, pad, packet_read>>,
           IF foreground
           THEN /\ latches' = {} /\ ClearXInput /\ ClearRawHid
                /\ SetMapper({}, {})
                /\ reading' = "applied"
           ELSE UNCHANGED <<mapperVars, xinput, raw_hid, published_input,
                            publication, reading>>,
           foreground' = FALSE
    PROVE  HeldInv'
  <1>1. CASE foreground
    BY <1>1, Cleared, ReleaseHeld
  <1>2. CASE ~foreground
    <2>1. UNCHANGED <<keyboard_states, controller_states, latches, xinput,
                      raw_hid, published_input, reading>>
      BY <1>2 DEF mapperVars
    <2>2. keyboard_states = {} /\ controller_states = {}
      BY <1>2 DEF HeldInv, Held
    <2>3. LastReading' = LastReading
      BY <2>1 DEF LastReading
    <2>4. reading' = "applied" => Sound(LastReading, controller_states)'
      BY <2>1, <2>3, SameSettings DEF HeldInv, Held
    <2>5. Apart(controller_states)'
      BY <2>1, SameSettings DEF HeldInv, Held
    <2>6. published_input' = Compose(keyboard_states, controller_states)'
      BY <2>1, SameSettings DEF HeldInv, Held
    <2>7. Held'
      BY <2>1, <2>2, <2>4, <2>5, <2>6 DEF HeldInv, Held
    <2>8. Shape' /\ Opened'
      BY <2>1 DEF HeldInv, Shape, Opened
    <2>9. QED  BY <2>7, <2>8 DEF HeldInv
  <1>3. QED  BY <1>1, <1>2

(* Steps of the slot: the raw HID device is not touched.                   *)
LEMMA SlotStep ==
    ASSUME HeldInv, UNCHANGED <<settings, pad, raw_hid>>,
           keyboard_states' = keyboard_states, packet_read' \in BOOLEAN,
           IsSlot(xinput'), xinput'.open => settings.backend = "XInput",
           ~xinput'.connected => xinput'.state = Nothing,
           xinput'.connected => /\ xinput'.state \in PadStates[settings.backend]
                                /\ settings.backend = "XInput"
                                /\ packet_read' => xinput'.state = pad
    PROVE  Shape' /\ Opened'
  BY DEF HeldInv, Shape, Opened, IsSlot

LEMMA PadReadable ==
    ASSUME HeldInv
    PROVE  /\ settings.backend = "XInput" /\ pad # NoPad
                => pad \in PadStates[settings.backend] /\ Readable(pad)
           /\ Readable(Nothing)
  BY ControlsAssumption, NothingSound DEF HeldInv, Shape, Readable

LEMMA PollReadsHeld ==
    ASSUME HeldInv, PollReads
    PROVE  HeldInv'
  <1>1. /\ xinput.open /\ pad # NoPad /\ foreground' = TRUE
        /\ xinput' = [xinput EXCEPT !.connected = TRUE, !.state = pad,
                                    !.waiting = FALSE]
        /\ packet_read' = TRUE
        /\ UNCHANGED <<settings, keys, pad, raw_hid>>
    BY DEF PollReads, PollDue, InForeground, ReadSlot
  <1>2. settings.backend = "XInput"
    BY <1>1 DEF HeldInv, Opened
  <1>3. /\ IsSlot(xinput') /\ xinput'.connected = TRUE /\ xinput'.state = pad
    BY <1>1, Records DEF IsSlot
  <1>4. pad \in PadStates[settings.backend] /\ Readable(pad)
    BY <1>1, <1>2, PadReadable
  <1>5. LastReading' = pad
    BY <1>1, <1>2, <1>3 DEF LastReading
  <1>6. Held' /\ keyboard_states' = keyboard_states
    <2>1. CASE xinput.connected /\ (packet_read \/ pad = xinput.state)
      <3>1. UNCHANGED <<mapperVars, published_input, reading>>
        BY <2>1 DEF PollReads
      <3>2. LastReading = pad
        BY <1>2, <2>1 DEF LastReading, HeldInv, Opened
      <3>3. Held'
        BY <1>1, <1>5, <3>1, <3>2, SameHeld
      <3>4. QED  BY <3>1, <3>3 DEF mapperVars
    <2>2. CASE ~(xinput.connected /\ (packet_read \/ pad = xinput.state))
      <3>1. ApplyControllerState(pad)
        BY <2>2 DEF PollReads
      <3>2. QED  BY <1>1, <1>4, <1>5, <3>1, ApplyHeld
    <2>3. QED  BY <2>1, <2>2
  <1>7. Shape' /\ Opened'
    <2>1. IsSlot(xinput') /\ xinput'.open = xinput.open
      BY <1>1, Records DEF IsSlot
    <2>2. packet_read' \in BOOLEAN
      BY <1>1
    <2>3. QED  BY <1>1, <1>2, <1>3, <1>4, <1>6, <2>1, <2>2, SlotStep
  <1>8. QED  BY <1>6, <1>7 DEF HeldInv

LEMMA DisconnectedSlot ==
    ASSUME HeldInv, xinput' = Disconnected(xinput)
    PROVE  /\ IsSlot(xinput') /\ xinput'.open = xinput.open
           /\ xinput'.connected = FALSE /\ xinput'.state = Nothing
  <1>1. xinput' = [xinput EXCEPT !.connected = FALSE, !.state = Nothing,
                                 !.waiting = TRUE]
    BY DEF Disconnected
  <1>2. QED  BY <1>1, Records DEF IsSlot

LEMMA PollFindsNoPadHeld ==
    ASSUME HeldInv, PollFindsNoPad
    PROVE  HeldInv'
  <1>1. /\ xinput.open /\ foreground' = TRUE /\ xinput' = Disconnected(xinput)
        /\ UNCHANGED <<settings, keys, pad, packet_read, raw_hid>>
    BY DEF PollFindsNoPad, PollDue, InForeground, outsideVars
  <1>2. settings.backend = "XInput" /\ packet_read' \in BOOLEAN
    BY <1>1 DEF HeldInv, Opened, Shape
  <1>3. LastReading' = Nothing
    BY <1>1, <1>2, DisconnectedSlot DEF LastReading
  <1>4. Held' /\ keyboard_states' = keyboard_states
    <2>1. CASE xinput.connected
      <3>1. ApplyControllerState(Nothing)
        BY <2>1 DEF PollFindsNoPad
      <3>2. QED  BY <1>1, <1>3, <3>1, PadReadable, ApplyHeld
    <2>2. CASE ~xinput.connected
      <3>1. UNCHANGED <<mapperVars, published_input, reading>>
        BY <2>2 DEF PollFindsNoPad
      <3>2. LastReading = Nothing
        BY <1>2, <2>2 DEF LastReading, HeldInv, Opened
      <3>3. Held'
        BY <1>1, <1>3, <3>1, <3>2, SameHeld
      <3>4. QED  BY <3>1, <3>3 DEF mapperVars
    <2>3. QED  BY <2>1, <2>2
  <1>5. Shape' /\ Opened'
    BY <1>1, <1>2, <1>4, DisconnectedSlot, SlotStep
  <1>6. QED  BY <1>4, <1>5 DEF HeldInv

LEMMA PollFailsHeld ==
    ASSUME HeldInv, PollFails
    PROVE  HeldInv'
  <1>1. /\ xinput.open /\ foreground' = TRUE /\ xinput' = Disconnected(xinput)
        /\ UNCHANGED <<settings, keys, pad, packet_read, raw_hid, mapperVars,
                       published_input>>
        /\ reading' = IF xinput.connected THEN "given up" ELSE reading
    BY DEF PollFails, PollDue, InForeground, outsideVars
  <1>2. settings.backend = "XInput" /\ packet_read' \in BOOLEAN
    BY <1>1 DEF HeldInv, Opened, Shape
  <1>3. LastReading' = Nothing
    BY <1>1, <1>2, DisconnectedSlot DEF LastReading
  <1>4. ~xinput.connected => LastReading = Nothing
    BY <1>2 DEF LastReading, HeldInv, Opened
  <1>5. Held'
    BY <1>1, <1>3, <1>4, SameHeld
  <1>6. Shape' /\ Opened'
    BY <1>1, <1>2, DisconnectedSlot, SlotStep DEF mapperVars
  <1>7. QED  BY <1>5, <1>6 DEF HeldInv

LEMMA PollSkippedHeld ==
    ASSUME HeldInv, PollSkipped
    PROVE  HeldInv'
  <1>1. /\ foreground' = TRUE
        /\ UNCHANGED <<settings, keys, pad, packet_read, raw_hid, xinput,
                       mapperVars, published_input, reading>>
    BY DEF PollSkipped, InForeground, outsideVars
  <1>2. LastReading' = LastReading
    BY <1>1 DEF LastReading
  <1>3. Held'
    BY <1>1, <1>2, SameHeld
  <1>4. Shape' /\ Opened'
    BY <1>1 DEF HeldInv, Shape, Opened, mapperVars
  <1>5. QED  BY <1>3, <1>4 DEF HeldInv

(* Steps of the raw HID device: the slot is not read.                      *)
LEMMA RawHidStep ==
    ASSUME HeldInv, UNCHANGED <<settings, pad, packet_read>>,
           keyboard_states' = keyboard_states,
           IsRawHid(raw_hid'), raw_hid'.open => settings.backend = "RawHid",
           IsSlot(xinput'), xinput'.open = xinput.open,
           xinput'.connected = xinput.connected, xinput'.state = xinput.state
    PROVE  Shape' /\ Opened'
  BY DEF HeldInv, Shape, Opened, IsRawHid, IsSlot

LEMMA PacketHeld ==
    ASSUME HeldInv, NEW packet, PacketArrives(packet)
    PROVE  HeldInv'
  <1> DEFINE values == Decoded(packet) @@ raw_hid.values
  <1>1. /\ raw_hid.open /\ foreground' = TRUE
        /\ raw_hid' = [raw_hid EXCEPT !.values = values]
        /\ UNCHANGED <<settings, keys, pad, packet_read, xinput>>
        /\ IF raw_hid' # raw_hid
           THEN ApplyControllerState(raw_hid'.values)
           ELSE UNCHANGED <<mapperVars, published_input, publication, reading>>
    BY DEF PacketArrives, PacketDue, InForeground, outsideVars
  <1> HIDE DEF values
  <1>2. settings.backend = "RawHid"
    BY <1>1 DEF HeldInv, Opened
  <1>3. IsRawHid(raw_hid') /\ raw_hid'.open = raw_hid.open
    BY <1>1, Records, RawHidFields
  <1>4. LastReading' = raw_hid'.values /\ Readable(raw_hid'.values)
    BY <1>1, <1>2 DEF LastReading, Readable
  <1>5. Held' /\ keyboard_states' = keyboard_states
    <2>1. CASE raw_hid' # raw_hid
      BY <1>1, <1>4, <2>1, ApplyHeld
    <2>2. CASE raw_hid' = raw_hid
      <3>1. UNCHANGED <<mapperVars, published_input, reading>>
        BY <1>1, <2>2
      <3>2. LastReading' = LastReading
        BY <1>1, <2>2 DEF LastReading
      <3>3. Held'
        BY <1>1, <3>1, <3>2, SameHeld
      <3>4. QED  BY <3>1, <3>3 DEF mapperVars
    <2>3. QED  BY <2>1, <2>2
  <1>6. Shape' /\ Opened'
    BY <1>1, <1>2, <1>3, <1>5, Records, RawHidStep
  <1>7. QED  BY <1>5, <1>6 DEF HeldInv

LEMMA MalformedHeld ==
    ASSUME HeldInv, MalformedPacket
    PROVE  HeldInv'
  <1>1. /\ raw_hid.open /\ foreground' = TRUE /\ reading' = "given up"
        /\ IsRawHid(raw_hid') /\ raw_hid'.open = raw_hid.open
        /\ UNCHANGED <<settings, keys, pad, packet_read, xinput, mapperVars,
                       published_input>>
    BY Cleared DEF MalformedPacket, PacketDue, InForeground, outsideVars
  <1>2. settings.backend = "RawHid"
    BY <1>1 DEF HeldInv, Opened
  <1>3. Held'
    BY <1>1, SameHeld
  <1>4. Shape' /\ Opened'
    BY <1>1, <1>2, Records, RawHidStep DEF mapperVars
  <1>5. QED  BY <1>3, <1>4 DEF HeldInv

LEMMA FreshRawHid ==
    /\ IsRawHid(ClosedRawHid) /\ ClosedRawHid.values = Nothing
    /\ ~ClosedRawHid.open
    /\ IsRawHid(OpenedRawHid) /\ OpenedRawHid.values = Nothing
  <1>1. /\ IsRawHid(ClosedRawHid) /\ ClosedRawHid.values = Nothing
        /\ ~ClosedRawHid.open
    BY DEF IsRawHid, ClosedRawHid
  <1>2. IsRawHid(OpenedRawHid) /\ OpenedRawHid.values = Nothing
    BY <1>1 DEF OpenedRawHid, IsRawHid
  <1>3. QED  BY <1>1, <1>2

LEMMA DeviceChangeHeld ==
    ASSUME HeldInv, DeviceChange
    PROVE  HeldInv'
  <1>1. /\ UNCHANGED <<settings, keys, pad, packet_read, foreground>>
        /\ IsSlot(xinput') /\ xinput'.open = xinput.open
        /\ xinput'.connected = xinput.connected /\ xinput'.state = xinput.state
    BY Records, SlotFields DEF DeviceChange, outsideVars
  <1>2. CASE settings.backend = "RawHid"
    <2>1. ReopenRawHid
      BY <1>2 DEF DeviceChange
    <2>2. /\ latches' = {} /\ keyboard_states' = keyboard_states
          /\ controller_states' = {}
          /\ published_input' = Compose(keyboard_states, {})
          /\ reading' = "applied"
      BY <2>1 DEF ReopenRawHid, SetMapper, PublishInput
    <2>3. IsRawHid(raw_hid') /\ raw_hid'.values = Nothing
      BY <2>1, FreshRawHid DEF ReopenRawHid
    <2>4. LastReading' = Nothing
      BY <1>1, <1>2, <2>3 DEF LastReading
    <2>5. Sound(Nothing, {}) /\ Apart({})
      BY NothingSound DEF HeldInv, Shape
    <2>6. Sound(LastReading, controller_states)' /\ Apart(controller_states)'
      BY <1>1, <2>2, <2>4, <2>5, SameSettings
    <2>7. published_input' = Compose(keyboard_states, controller_states)'
      BY <1>1, <2>2, SameSettings
    <2>8. Held'
      BY <1>1, <2>2, <2>6, <2>7 DEF HeldInv, Held
    <2>9. Shape' /\ Opened'
      BY <1>1, <1>2, <2>2, <2>3, RawHidStep
    <2>10. QED  BY <2>8, <2>9 DEF HeldInv
  <1>3. CASE settings.backend # "RawHid"
    <2>1. UNCHANGED <<mapperVars, raw_hid, published_input, reading>>
      BY <1>3 DEF DeviceChange
    <2>2. LastReading' = LastReading
      BY <1>1, <2>1 DEF LastReading
    <2>3. Held'
      BY <1>1, <2>1, <2>2, SameHeld
    <2>4. Shape' /\ Opened'
      BY <1>1, <2>1, Records, RawHidStep DEF mapperVars, HeldInv, Opened
    <2>5. QED  BY <2>3, <2>4 DEF HeldInv
  <1>4. QED  BY <1>2, <1>3

LEMMA HandlersHold ==
    ASSUME HeldInv, HandlesEvent
    PROVE  HeldInv'
  <1>1. ASSUME NEW key \in Keys, NEW pressed \in BOOLEAN,
               KeyMessageAway(key, pressed)
        PROVE  HeldInv'
    BY <1>1, AwayHeld DEF KeyMessageAway, KeyMoves
  <1>2. CASE LoseForeground
    BY <1>2, AwayHeld DEF LoseForeground, outsideVars
  <1>3. QED
    BY <1>1, <1>2, KeyMessageHeld, PollReadsHeld, PollFindsNoPadHeld,
       PollFailsHeld, PollSkippedHeld, PacketHeld, MalformedHeld,
       DeviceChangeHeld
    DEF HandlesEvent

-----------------------------------------------------------------------------
(* What Shutdown and a start leave: nothing held, the devices as opened.   *)
LEMMA ClosedSlot ==
    /\ IsSlot(ClosedXInput) /\ ~ClosedXInput.open
    /\ ~ClosedXInput.connected /\ ClosedXInput.connected \in BOOLEAN
    /\ ClosedXInput.state = Nothing
  BY DEF IsSlot, ClosedXInput

LEMMA OpenedSlot ==
    LET x == [Disconnected(ClosedXInput) EXCEPT !.open = TRUE]
    IN  IsSlot(x) /\ x.connected = FALSE /\ x.state = Nothing
  BY ClosedSlot DEF Disconnected, IsSlot

LEMMA NothingComposed == Compose({}, {}) = {}
  BY DEF Compose

LEMMA StartHeld ==
    ASSUME HeldInv, OpenController
    PROVE  HeldInv'
  <1>1. /\ latches' = {} /\ keyboard_states' = {} /\ controller_states' = {}
        /\ foreground' = TRUE /\ published_input' = {}
        /\ UNCHANGED <<settings, front, keys, pad>>
    BY DEF OpenController
  <1>2. published_input' = Compose(keyboard_states, controller_states)'
    BY <1>1, NothingComposed, SameSettings
  <1>3. Apart(controller_states)' /\ Sound(Nothing, {})
    BY <1>1, NothingSound, SameSettings DEF HeldInv, Shape
  <1>4. CASE /\ settings.backend = "XInput" /\ raw_hid' = ClosedRawHid
             /\ \/ xinput' = ClosedXInput
                \/ xinput' = [Disconnected(ClosedXInput) EXCEPT !.open = TRUE]
                \/ /\ pad # NoPad
                   /\ xinput' = [ClosedXInput EXCEPT !.open = TRUE,
                                    !.connected = TRUE, !.state = pad]
             /\ packet_read' = xinput'.connected
             /\ reading' = IF xinput'.connected THEN "not applied"
                                                ELSE "applied"
    <2>1. /\ IsSlot(xinput') /\ xinput'.connected \in BOOLEAN
          /\ ~xinput'.connected => xinput'.state = Nothing
          /\ xinput'.connected => xinput'.state = pad /\ pad # NoPad
      <3>1. CASE xinput' = ClosedXInput
        BY <3>1, ClosedSlot
      <3>2. CASE xinput' = [Disconnected(ClosedXInput) EXCEPT !.open = TRUE]
        <4>1. IsSlot(xinput') /\ xinput'.connected = FALSE
              /\ xinput'.state = Nothing
          BY <3>2, OpenedSlot
        <4>2. QED  BY <4>1
      <3>3. CASE /\ pad # NoPad
                 /\ xinput' = [ClosedXInput EXCEPT !.open = TRUE,
                                  !.connected = TRUE, !.state = pad]
        <4>1. IsSlot(xinput') /\ xinput'.connected = TRUE
              /\ xinput'.state = pad
          BY <3>3 DEF IsSlot, ClosedXInput
        <4>2. QED  BY <3>3, <4>1
      <3>4. QED  BY <1>4, <3>1, <3>2, <3>3
    <2>2. reading' = "applied" => LastReading' = Nothing
      BY <1>1, <1>4, <2>1 DEF LastReading
    <2>3. reading' = "applied" => Sound(LastReading, controller_states)'
      BY <1>1, <1>3, <2>2, SameSettings
    <2>4. Held'
      BY <1>1, <1>2, <1>3, <2>3 DEF Held
    <2>5. Shape'
      BY <1>1, <1>4, <2>1, FreshRawHid DEF HeldInv, Shape, IsSlot, IsRawHid
    <2>6. Opened'
      BY <1>1, <1>4, <2>1, FreshRawHid, PadReadable DEF Opened
    <2>7. QED  BY <2>4, <2>5, <2>6 DEF HeldInv
  <1>5. CASE /\ settings.backend = "RawHid" /\ xinput' = ClosedXInput
             /\ reading' = "applied"
             /\ \/ raw_hid' = ClosedRawHid
                \/ pad # NoPad /\ raw_hid' = OpenedRawHid
             /\ UNCHANGED packet_read
    <2>1. IsRawHid(raw_hid') /\ raw_hid'.values = Nothing
      BY <1>5, FreshRawHid
    <2>2. LastReading' = Nothing
      BY <1>1, <1>5, <2>1 DEF LastReading
    <2>3. Sound(LastReading, controller_states)'
      BY <1>1, <1>3, <2>2, SameSettings
    <2>4. Held'
      BY <1>1, <1>2, <1>3, <2>3 DEF Held
    <2>5. Shape'
      BY <1>1, <1>5, <2>1, ClosedSlot DEF HeldInv, Shape, IsSlot, IsRawHid
    <2>6. Opened'
      BY <1>1, <1>5, <2>1, ClosedSlot DEF Opened
    <2>7. QED  BY <2>4, <2>5, <2>6 DEF HeldInv
  <1>6. QED  BY <1>4, <1>5 DEF OpenController

LEMMA StopHeld ==
    ASSUME HeldInv, ReleaseAll
    PROVE  HeldInv'
  <1>1. /\ latches' = {} /\ SetMapper({}, {})
        /\ xinput' = ClosedXInput /\ raw_hid' = ClosedRawHid
        /\ UNCHANGED <<settings, pad, packet_read>>
    BY DEF ReleaseAll, outsideVars
  <1>2. xinput'.connected = FALSE
    BY <1>1 DEF ClosedXInput
  <1>3. QED  BY <1>1, <1>2, ClosedSlot, FreshRawHid, ReleaseHeld

LEMMA OutsideHeld ==
    ASSUME HeldInv, OutsideStep
    PROVE  HeldInv'
  <1>1. /\ UNCHANGED <<settings, keys, foreground, mapperVars,
                       published_input, reading>>
        /\ \/ UNCHANGED <<packet_read, pad>>
           \/ /\ packet_read' = FALSE
              /\ pad' \in PadStates[settings.backend] \cup {NoPad}
    BY DEF OutsideStep, FrontChanges, PadChanges, IntervalPasses, outsideVars
  <1>2. /\ IsSlot(xinput') /\ xinput'.open = xinput.open
        /\ xinput'.connected = xinput.connected /\ xinput'.state = xinput.state
    <2>1. CASE IntervalPasses
      <3>1. xinput' = [xinput EXCEPT !.waiting = FALSE]
        BY <2>1 DEF IntervalPasses
      <3>2. QED  BY <3>1, Records, SlotFields
    <2>2. CASE UNCHANGED xinput
      BY <2>2, Records
    <2>3. QED  BY <2>1, <2>2 DEF OutsideStep
  <1>3. /\ IsRawHid(raw_hid') /\ raw_hid'.open = raw_hid.open
        /\ raw_hid'.values = raw_hid.values
    <2>1. CASE UNCHANGED raw_hid
      BY <2>1, Records
    <2>2. CASE raw_hid' = [raw_hid EXCEPT !.current = @ /\ pad' # NoPad]
      BY <2>2, Records DEF IsRawHid
    <2>3. QED
      BY <2>1, <2>2
      DEF OutsideStep, FrontChanges, PadChanges, IntervalPasses
  <1>4. LastReading' = LastReading
    BY <1>1, <1>2, <1>3 DEF LastReading
  <1>5. Held'
    BY <1>1, <1>4, SameHeld
  <1>6. Shape'
    BY <1>1, <1>2, <1>3 DEF HeldInv, Shape, IsSlot, IsRawHid, mapperVars
  <1>7. Opened'
    <2>1. xinput.connected /\ packet_read' => xinput.state = pad'
      BY <1>1 DEF HeldInv, Opened
    <2>2. QED  BY <1>1, <1>2, <1>3, <2>1 DEF HeldInv, Opened
  <1>8. QED  BY <1>5, <1>6, <1>7 DEF HeldInv

LEMMA HeldSame ==
    ASSUME HeldInv,
           UNCHANGED <<outsideVars, foreground, mapperVars, xinput, raw_hid,
                       published_input, reading>>
    PROVE  HeldInv'
  <1>1. UNCHANGED <<settings, keys, pad, packet_read>>
    BY DEF outsideVars
  <1>2. LastReading' = LastReading
    BY <1>1 DEF LastReading
  <1>3. Held'
    BY <1>1, <1>2, SameHeld
  <1>4. Shape' /\ Opened'
    BY <1>1 DEF HeldInv, Shape, Opened, mapperVars
  <1>5. QED  BY <1>3, <1>4 DEF HeldInv

LEMMA HeldStep ==
    ASSUME HeldInv, [WorkerNext]_workerVars
    PROVE  HeldInv'
  <1>1. CASE StartWorker
    BY <1>1, StartHeld DEF StartWorker
  <1>2. CASE HandleEvent
    BY <1>2, HandlersHold DEF HandleEvent
  <1>3. CASE Transition
    BY <1>3, HeldSame DEF Transition, TransitionDone
  <1>4. CASE StopWorker
    BY <1>4, StopHeld DEF StopWorker
  <1>5. CASE Startup \/ EndEpoch \/ GameStep \/ AnyCaller \/ UNCHANGED workerVars
    <2>1. UNCHANGED deviceVars
      BY <1>5 DEF Startup, EndEpoch, GameStep, AnyCaller, workerVars
    <2>2. QED  BY <2>1, HeldSame DEF deviceVars
  <1>6. CASE OutsideStep
    BY <1>6, OutsideHeld
  <1>7. QED
    BY <1>1, <1>2, <1>3, <1>4, <1>5, <1>6 DEF WorkerNext

LEMMA HeldInit == WorkerInit => HeldInv
  <1> SUFFICES ASSUME WorkerInit PROVE HeldInv
    OBVIOUS
  <1>1. DevicesInit
    BY DEF WorkerInit
  <1>2. /\ settings \in Settings /\ keys = {} /\ packet_read = FALSE
        /\ pad \in PadStates[settings.backend] \cup {NoPad}
        /\ keyboard_states = {} /\ controller_states = {} /\ latches = {}
        /\ xinput = ClosedXInput /\ raw_hid = ClosedRawHid
        /\ published_input = {} /\ reading = "applied"
    BY <1>1 DEF DevicesInit
  <1>3. LastReading = Nothing
    BY <1>2, ClosedSlot, FreshRawHid DEF LastReading
  <1>4. Held
    BY <1>2, <1>3, NothingSound, NothingComposed DEF Held
  <1>5. Shape /\ Opened
    BY <1>2, ClosedSlot, FreshRawHid DEF Shape, Opened, IsSlot, IsRawHid
  <1>6. QED  BY <1>4, <1>5 DEF HeldInv

LEMMA HeldAlways == WorkerSpec => []HeldInv
  <1>1. HeldInv /\ [WorkerNext]_workerVars => HeldInv'
    BY HeldStep
  <1>2. QED  BY <1>1, HeldInit, PTL DEF WorkerSpec

(* Nothing is held that its device has not reported: keys that are down,   *)
(* controls at their thresholds as told last, no opposites, and nothing    *)
(* while another window is in front, for any bindings and thresholds       *)
(* (ControllerBindingEvaluator.cpp, InputPollingRuntime.cpp).              *)
THEOREM HeldAsReported == WorkerSpec => []HeldIsReported
  <1>1. HeldInv => HeldIsReported
    <2> SUFFICES ASSUME HeldInv PROVE HeldIsReported
      OBVIOUS
    <2>1. Held
      BY DEF HeldInv
    <2>2. ~foreground => published_input = {}
      BY <2>1, NothingComposed DEF Held
    <2>3. QED  BY <2>1, <2>2 DEF Held, Sound, Apart, HeldIsReported
  <1>2. QED  BY <1>1, HeldAlways, PTL
=============================================================================
