---------------------- MODULE TransitionChannel_proofs ----------------------
(***************************************************************************)
(* For every capacity, counter width, set of controls and set of times:    *)
(* the channel keeps consecutive records of one epoch, chained by their    *)
(* held masks.                                                             *)
(***************************************************************************)
EXTENDS TransitionChannel, FiniteSetTheorems, WellFoundedInduction, TLAPS

USE CapacityAssumption, MaxU64Assumption, TimesAssumption

(* The queue after dropping its oldest record when full, and appending one:*)
(* its length and its elements, by position.                               *)
LEMMA RoomThenAppend ==
    ASSUME NEW S, NEW q \in Seq(S), NEW r \in S, Len(q) <= Capacity,
           NEW room, room = IF Len(q) = Capacity THEN Tail(q) ELSE q
    PROVE  LET p == Append(room, r)
               d == IF Len(q) = Capacity THEN 1 ELSE 0
           IN /\ p \in Seq(S)
              /\ Len(p) = Len(q) - d + 1
              /\ \A i \in 1 .. Len(p) - 1 : p[i] = q[i + d]
              /\ p[Len(p)] = r
  <1>1. CASE Len(q) = Capacity
    <2>1. q # <<>>  BY <1>1
    <2>2. /\ room \in Seq(S)
          /\ Len(room) = Len(q) - 1
          /\ \A i \in 1 .. Len(room) : room[i] = q[i + 1]
      BY <1>1, <2>1
    <2>3. QED  BY <1>1, <2>2
  <1>2. CASE Len(q) # Capacity
    BY <1>2
  <1>3. QED  BY <1>1, <1>2

(* Removing a prefix keeps the rest at shifted positions.                  *)
LEMMA DropPrefix ==
    ASSUME NEW S, NEW q \in Seq(S), NEW n \in 0 .. Len(q)
    PROVE  /\ SubSeq(q, n + 1, Len(q)) \in Seq(S)
           /\ Len(SubSeq(q, n + 1, Len(q))) = Len(q) - n
           /\ \A i \in 1 .. Len(q) - n :
                 SubSeq(q, n + 1, Len(q))[i] = q[i + n]
           /\ SubSeq(q, 1, n) \in Seq(S)
           /\ Len(SubSeq(q, 1, n)) = n
           /\ \A i \in 1 .. n : SubSeq(q, 1, n)[i] = q[i]
  <1>1. Len(q) \in Nat /\ \A i \in 1 .. Len(q) : q[i] \in S
    OBVIOUS
  <1>2. /\ SubSeq(q, n + 1, Len(q)) \in Seq(S)
        /\ Len(SubSeq(q, n + 1, Len(q))) = Len(q) - n
    BY <1>1
  <1>3. \A i \in 1 .. Len(q) - n : SubSeq(q, n + 1, Len(q))[i] = q[i + n]
    BY <1>1
  <1>4. SubSeq(q, 1, n) \in Seq(S) /\ Len(SubSeq(q, 1, n)) = n
    BY <1>1
  <1>5. \A i \in 1 .. n : SubSeq(q, 1, n)[i] = q[i]
    BY <1>1
  <1>6. QED  BY <1>2, <1>3, <1>4, <1>5

(* A nonempty set of naturals has a least element.                         *)
LEMMA LeastExists ==
    ASSUME NEW S, \A i \in S : i \in Nat, S # {}
    PROVE  \E x \in S : \A y \in S : x <= y
  <1> DEFINE R == {pair \in Nat \X Nat : pair[1] < pair[2]}
  <1>1. \A x, y \in Nat : <<x, y>> \in R <=> x < y
    OBVIOUS
  <1>2. IsWellFoundedOn(R, Nat)
    <2>1. OpToRel(<, Nat) = R
      BY Zenon DEF OpToRel
    <2>2. QED  BY <2>1, NatLessThanWellFounded
  <1> HIDE DEF R
  <1>3. \E x \in S : \A y \in S : ~ (<<y, x>> \in R)
    <2>1. S \subseteq Nat
      OBVIOUS
    <2>2. QED  BY <1>2, <2>1, WFMin
  <1>4. PICK x \in S : \A y \in S : ~ (<<y, x>> \in R)
    BY <1>3
  <1>5. \A y \in S : ~(y < x) /\ x \in Nat /\ y \in Nat
    BY <1>1, <1>4
  <1>6. QED  BY <1>5

-----------------------------------------------------------------------------
LEMMA EvictedType == \A n \in U64 : Evicted(n) \in U64
  BY DEF Evicted, U64

LEMMA NoAnswerType == NoAnswer \in Answer
  BY DEF Answer

LEMMA EmptyType == <<>> \in Seq(Record) /\ Len(<<>>) = 0
  OBVIOUS

LEMMA ZeroType == 0 \in U64 /\ {} \in Mask
  BY DEF U64, Mask

LEMMA InitInv == Init => Inv
  <1> SUFFICES ASSUME Init PROVE Inv
    OBVIOUS
  <1>1. TypeOK
    <2>1. queue \in Seq(Record) /\ Len(queue) <= Capacity
      BY EmptyType DEF Init
    <2>2. /\ transport_epoch \in U64 /\ next_sequence \in U64
          /\ eviction_count \in U64
          /\ published_held \in Mask /\ answer \in Answer
      BY NoAnswerType, ZeroType DEF Init
    <2>3. enabled \in BOOLEAN /\ active \in BOOLEAN
      BY DEF Init
    <2>4. QED  BY <2>1, <2>2, <2>3 DEF TypeOK
  <1>2. Contiguous /\ HeldChain
    BY EmptyType DEF Init, Contiguous, HeldChain
  <1>3. QED  BY <1>1, <1>2 DEF Inv

LEMMA EmptyQueue ==
    ASSUME TypeOK', queue' = <<>>
    PROVE  Inv'
  BY DEF Inv, TypeOK, Contiguous, HeldChain, U64

LEMMA IndexSet ==
    ASSUME NEW n \in Nat
    PROVE  IsFiniteSet(1 .. n) /\ Cardinality(1 .. n) = n
  BY FS_Interval

LEMMA CaptureType ==
    ASSUME TypeOK, NEW time \in Times, CaptureCutoff(time)
    PROVE  answer' \in Answer
  <1> DEFINE Late == {i \in 1 .. Len(queue) : queue[i].observed_time >= time}
  <1>1. /\ IsFiniteSet(1 .. Len(queue))
        /\ Cardinality(1 .. Len(queue)) = Len(queue)
    <2>1. Len(queue) \in Nat
      BY DEF TypeOK
    <2>2. QED  BY <2>1, IndexSet
  <1>2. /\ IsFiniteSet(Late)
        /\ Cardinality(Late) <= Len(queue)
        /\ Cardinality(Late) \in Nat
    BY <1>1, FS_Subset, FS_CardinalityType DEF TypeOK
  <1>3. Cardinality(Late) \in 0 .. Capacity
    BY <1>2 DEF TypeOK
  <1>4. QED
    BY <1>3 DEF CaptureCutoff, CutoffAt, TypeOK, Answer, Cutoff

LEMMA DrainFacts ==
    ASSUME TypeOK, NEW span \in 0 .. Capacity, Drain(span)
    PROVE  \E count \in 0 .. Len(queue) :
              /\ queue' \in Seq(Record)
              /\ Len(queue') = Len(queue) - count
              /\ \A i \in 1 .. Len(queue') : queue'[i] = queue[i + count]
              /\ answer' \in Answer
  <1> DEFINE count == IF span < Len(queue) THEN span ELSE Len(queue)
  <1>1. /\ count \in 0 .. Len(queue)
        /\ queue \in Seq(Record)
        /\ Len(queue) - count \in 0 .. Capacity
    BY DEF TypeOK
  <1>2. /\ queue' = SubSeq(queue, count + 1, Len(queue))
        /\ answer'.kind = "drain"
        /\ answer' = [kind |-> "drain", batch |-> SubSeq(queue, 1, count),
                      status |-> answer'.status]
        /\ answer'.status =
             [enabled |-> enabled, active |-> active,
              transport_epoch |-> transport_epoch,
              next_sequence |-> next_sequence,
              eviction_count |-> eviction_count,
              depth |-> Len(queue) - count,
              published_held |-> published_held]
    BY DEF Drain, Batch, Rest, StatusAfter, DrainCount
  <1> HIDE DEF count
  <1>3. /\ queue' \in Seq(Record)
        /\ Len(queue') = Len(queue) - count
        /\ \A i \in 1 .. Len(queue) - count : queue'[i] = queue[i + count]
        /\ SubSeq(queue, 1, count) \in Seq(Record)
    <2> DEFINE rest == SubSeq(queue, count + 1, Len(queue))
    <2>1. /\ rest \in Seq(Record) /\ Len(rest) = Len(queue) - count
          /\ \A i \in 1 .. Len(queue) - count : rest[i] = queue[i + count]
          /\ SubSeq(queue, 1, count) \in Seq(Record)
      BY <1>1, DropPrefix
    <2>2. queue' = rest
      BY <1>2
    <2> HIDE DEF rest
    <2>3. QED  BY <2>1, <2>2
  <1>4. answer'.status \in Status
    BY <1>1, <1>2 DEF TypeOK, Status
  <1>5. answer' \in Answer
    <2> DEFINE batch == SubSeq(queue, 1, count)
               status == answer'.status
    <2>1. /\ answer' = [kind |-> "drain", batch |-> batch, status |-> status]
          /\ batch \in Seq(Record) /\ status \in Status
      BY <1>2, <1>3, <1>4
    <2> HIDE DEF batch, status
    <2>2. answer' \in [kind: {"drain"}, batch: Seq(Record), status: Status]
      BY <2>1
    <2>3. QED  BY <2>2 DEF Answer
  <1>6. QED
    BY <1>1, <1>3, <1>5

LEMMA PublishRecordInv ==
    ASSUME Inv, NEW next \in Mask, NEW time \in Times,
           PublishRecord(published_held, next, time)
    PROVE  Inv'
  <1> DEFINE rec == NewRecord(published_held, next, time)
             d   == IF Len(queue) = Capacity THEN 1 ELSE 0
  <1>1. TypeOK /\ Contiguous /\ HeldChain
    BY DEF Inv
  <1>2. rec \in Record
    BY <1>1 DEF TypeOK, NewRecord, Record
  <1>3. /\ queue' \in Seq(Record)
        /\ Len(queue') = Len(queue) - d + 1
        /\ \A i \in 1 .. Len(queue') - 1 : queue'[i] = queue[i + d]
        /\ queue'[Len(queue')] = rec
    BY <1>1, <1>2, RoomThenAppend DEF PublishRecord, TypeOK
  <1>4. /\ Len(queue) \in Nat /\ Len(queue') \in Nat
        /\ Len(queue) <= Capacity /\ Len(queue) <= next_sequence
        /\ d \in 0 .. 1 /\ d <= Len(queue)
        /\ Len(queue) = Capacity => d = 1
        /\ next_sequence \in Nat
    BY <1>1, <1>3 DEF TypeOK, Contiguous, U64
  <1>5. /\ next_sequence' = next_sequence + 1
        /\ next_sequence # MaxU64
        /\ published_held' = next
        /\ transport_epoch' = transport_epoch
    BY DEF PublishRecord
  <1>6. /\ rec.sequence = next_sequence
        /\ rec.transport_epoch = transport_epoch
        /\ rec.held_before = published_held
        /\ rec.held_after = next
    BY DEF NewRecord
  <1> HIDE DEF rec, d
  <1>7. Len(queue') <= Capacity /\ Len(queue') <= next_sequence'
    BY <1>3, <1>4, <1>5
  <1>8. TypeOK'
    <2>1. next_sequence' \in U64
      BY <1>1, <1>5 DEF TypeOK, U64
    <2>2. eviction_count' \in U64
      BY <1>1, EvictedType DEF PublishRecord, TypeOK
    <2>3. QED
      BY <1>1, <1>3, <1>7, <2>1, <2>2, NoAnswerType DEF PublishRecord, TypeOK
  <1>9. Contiguous'
    <2>1. ASSUME NEW i \in 1 .. Len(queue')
          PROVE  /\ queue'[i].sequence = next_sequence' - Len(queue') + i - 1
                 /\ queue'[i].transport_epoch = transport_epoch'
      <3>1. CASE i = Len(queue')
        <4>1. queue'[i] = rec
          BY <3>1, <1>3
        <4>2. next_sequence' - Len(queue') + i - 1 = next_sequence
          BY <3>1, <1>4, <1>5
        <4>3. queue'[i].sequence = next_sequence
          BY <4>1, <1>6
        <4>4. queue'[i].transport_epoch = transport_epoch'
          BY <4>1, <1>5, <1>6
        <4>5. QED  BY <4>2, <4>3, <4>4, Zenon
      <3>2. CASE i # Len(queue')
        <4>1. i + d \in 1 .. Len(queue) /\ queue'[i] = queue[i + d]
          BY <3>2, <1>3, <1>4
        <4>2. /\ queue[i + d].sequence
                    = next_sequence - Len(queue) + (i + d) - 1
              /\ queue[i + d].transport_epoch = transport_epoch
          BY <4>1, <1>1 DEF Contiguous
        <4>3. next_sequence - Len(queue) + (i + d) - 1
                = next_sequence' - Len(queue') + i - 1
          BY <1>3, <1>4, <1>5
        <4>4. queue'[i].sequence = next_sequence - Len(queue) + (i + d) - 1
          BY <4>1, <4>2
        <4>5. queue'[i].transport_epoch = transport_epoch'
          BY <4>1, <4>2, <1>5
        <4>6. QED  BY <4>3, <4>4, <4>5, Zenon
      <3>3. QED  BY <3>1, <3>2
    <2>2. QED  BY <1>7, <2>1 DEF Contiguous
  <1>10. HeldChain'
    <2>1. Len(queue') > 0 /\ queue'[Len(queue')].held_after = published_held'
      BY <1>3, <1>4, <1>5, <1>6
    <2>2. ASSUME NEW i \in 1 .. Len(queue') - 1
          PROVE  queue'[i + 1].held_before = queue'[i].held_after
      <3>1. i + d \in 1 .. Len(queue) /\ queue'[i] = queue[i + d]
        BY <1>3, <1>4
      <3>2. CASE i + 1 = Len(queue')
        <4>1. i + d = Len(queue) /\ Len(queue) > 0
          BY <3>1, <3>2, <1>3, <1>4
        <4>2. queue[Len(queue)].held_after = published_held
          BY <4>1, <1>1 DEF HeldChain
        <4>3. QED  BY <3>1, <3>2, <4>1, <4>2, <1>3, <1>6
      <3>3. CASE i + 1 # Len(queue')
        <4>1. /\ queue'[i + 1] = queue[(i + d) + 1]
              /\ i + d \in 1 .. Len(queue) - 1
          BY <3>3, <1>3, <1>4
        <4>2. QED  BY <3>1, <4>1, <1>1 DEF HeldChain
      <3>4. QED  BY <3>2, <3>3
    <2>3. QED  BY <2>1, <2>2 DEF HeldChain
  <1>11. QED  BY <1>8, <1>9, <1>10 DEF Inv

(* What is left of the queue after its oldest records have been removed.   *)
LEMMA RestInv ==
    ASSUME Inv, NEW count \in 0 .. Len(queue),
           queue' \in Seq(Record), Len(queue') = Len(queue) - count,
           \A i \in 1 .. Len(queue') : queue'[i] = queue[i + count],
           answer' \in Answer,
           UNCHANGED <<transport_epoch, next_sequence, eviction_count,
                       enabled, active, published_held>>
    PROVE  Inv'
  <1> USE DEF Inv
  <1>1. /\ queue' \in Seq(Record)
        /\ Len(queue') = Len(queue) - count
        /\ \A i \in 1 .. Len(queue') : queue'[i] = queue[i + count]
        /\ answer' \in Answer
    OBVIOUS
  <1>2. UNCHANGED <<transport_epoch, next_sequence, eviction_count, enabled,
                    active, published_held>>
    OBVIOUS
  <1>3. TypeOK'
    BY <1>1, <1>2 DEF TypeOK
  <1>4. Contiguous'
    <2>1. \A i \in 1 .. Len(queue') : i + count \in 1 .. Len(queue)
      BY <1>1 DEF TypeOK
    <2>2. Len(queue) \in Nat /\ Len(queue) <= next_sequence
          /\ next_sequence \in Nat
      BY DEF TypeOK, Contiguous, U64
    <2>3. ASSUME NEW i \in 1 .. Len(queue')
          PROVE  /\ queue'[i].sequence = next_sequence' - Len(queue') + i - 1
                 /\ queue'[i].transport_epoch = transport_epoch'
      <3>1. /\ queue[i + count].sequence
                  = next_sequence - Len(queue) + (i + count) - 1
            /\ queue[i + count].transport_epoch = transport_epoch
        BY <2>1 DEF Contiguous
      <3>2. queue'[i] = queue[i + count] /\ Len(queue') = Len(queue) - count
        BY <1>1
      <3>3. next_sequence - Len(queue) + (i + count) - 1
              = next_sequence' - Len(queue') + i - 1
        BY <1>2, <2>2, <3>2
      <3>4. transport_epoch' = transport_epoch
        BY <1>2
      <3>5. queue'[i].sequence = next_sequence - Len(queue) + (i + count) - 1
        BY <3>1, <3>2, Zenon
      <3>6. queue'[i].transport_epoch = transport_epoch'
        BY <3>1, <3>2, <3>4
      <3>7. QED  BY <3>3, <3>5, <3>6, Zenon
    <2>4. QED  BY <1>1, <1>2, <2>2, <2>3 DEF Contiguous
  <1>5. HeldChain'
    <2>0. Len(queue) \in Nat /\ count \in Nat
      BY <1>1 DEF TypeOK
    <2>1. ASSUME NEW i \in 1 .. Len(queue') - 1
          PROVE  queue'[i + 1].held_before = queue'[i].held_after
      <3> DEFINE k == i + count
      <3>1. /\ k \in 1 .. Len(queue) - 1
            /\ queue'[i] = queue[k]
            /\ queue'[i + 1] = queue[k + 1]
        <4>1. i \in Nat /\ i >= 1 /\ i + 1 <= Len(queue) - count
          BY <1>1, <2>0
        <4>2. k \in 1 .. Len(queue) - 1 /\ (i + 1) + count = k + 1
          BY <2>0, <4>1
        <4>3. i \in 1 .. Len(queue') /\ i + 1 \in 1 .. Len(queue')
          BY <1>1, <2>0, <4>1
        <4>4. queue'[i] = queue[k] /\ queue'[i + 1] = queue[(i + 1) + count]
          BY <1>1, <4>3
        <4>5. QED  BY <4>2, <4>4
      <3> HIDE DEF k
      <3>2. queue[k + 1].held_before = queue[k].held_after
        BY <3>1, Zenon DEF HeldChain
      <3>3. QED  BY <3>1, <3>2, Zenon
    <2>2. Len(queue') > 0 => queue'[Len(queue')] = queue[Len(queue)]
      BY <1>1 DEF TypeOK
    <2>3. QED  BY <1>1, <1>2, <2>1, <2>2 DEF HeldChain, TypeOK
  <1>6. QED  BY <1>3, <1>4, <1>5

LEMMA DrainInv ==
    ASSUME Inv, NEW span \in 0 .. Capacity, Drain(span)
    PROVE  Inv'
  <1>1. PICK count \in 0 .. Len(queue) :
              /\ queue' \in Seq(Record)
              /\ Len(queue') = Len(queue) - count
              /\ \A i \in 1 .. Len(queue') : queue'[i] = queue[i + count]
              /\ answer' \in Answer
    BY DrainFacts DEF Inv
  <1>2. QED  BY <1>1, RestInv DEF Drain

LEMMA NextInv == Inv /\ [Next]_vars => Inv'
  <1> SUFFICES ASSUME Inv, [Next]_vars PROVE Inv'
    OBVIOUS
  <1> USE DEF Inv
  <1>1. ASSUME NEW enable \in BOOLEAN, NEW known \in BOOLEAN,
               Prepare(enable, known)
        PROVE  Inv'
    <2>1. TypeOK'
      <3>1. queue' \in Seq(Record) /\ Len(queue') <= Capacity
        BY <1>1, EmptyType DEF Prepare
      <3>2. /\ transport_epoch' \in U64 /\ next_sequence' \in U64
            /\ eviction_count' \in U64
            /\ published_held' \in Mask /\ answer' \in Answer
        BY <1>1, NoAnswerType, ZeroType DEF Prepare
      <3>3. enabled' \in BOOLEAN /\ active' \in BOOLEAN
        BY <1>1 DEF Prepare
      <3>4. QED  BY <3>1, <3>2, <3>3 DEF TypeOK
    <2>2. QED  BY <1>1, <2>1, EmptyQueue DEF Prepare
  <1>2. ASSUME NEW baseline \in Mask, Begin(baseline)
        PROVE  Inv'
    <2>1. /\ transport_epoch' \in U64
          /\ eviction_count' \in U64
          /\ active' \in BOOLEAN
      <3>1. CASE transport_epoch = MaxU64
        BY <1>2, <3>1, EvictedType DEF Begin, TypeOK
      <3>2. CASE transport_epoch # MaxU64
        <4>1. transport_epoch + 1 \in U64
          BY <3>2 DEF TypeOK, U64
        <4>2. QED  BY <1>2, <3>2, <4>1 DEF Begin, TypeOK
      <3>3. QED  BY <3>1, <3>2
    <2>2. TypeOK'
      BY <1>2, <2>1, NoAnswerType, EmptyType, ZeroType DEF Begin, TypeOK
    <2>3. QED  BY <1>2, <2>2, EmptyQueue DEF Begin
  <1>3. CASE End
    BY <1>3, NoAnswerType DEF End, TypeOK, Contiguous, HeldChain
  <1>4. ASSUME NEW time \in Times, CaptureCutoff(time)
        PROVE  Inv'
    <2>1. TypeOK'
      BY <1>4, CaptureType, EmptyType DEF CaptureCutoff, TypeOK
    <2>2. QED  BY <1>4, <2>1, EmptyQueue DEF CaptureCutoff
  <1>5. ASSUME NEW next \in Mask, NEW time \in Times,
               Publish(published_held, next, time)
        PROVE  Inv'
    <2>1. CASE PublishExhausted
      BY <2>1, EvictedType, NoAnswerType
      DEF PublishExhausted, TypeOK, Contiguous, HeldChain
    <2>2. CASE PublishRecord(published_held, next, time)
      BY <2>2, PublishRecordInv
    <2>3. QED  BY <1>5, <2>1, <2>2 DEF Publish
  <1>6. ASSUME NEW span \in 0 .. Capacity, Drain(span)
        PROVE  Inv'
    BY <1>6, DrainInv
  <1>7. CASE UNCHANGED vars
    BY <1>7 DEF vars, TypeOK, Contiguous, HeldChain
  <1>8. QED
    BY <1>1, <1>2, <1>3, <1>4, <1>5, <1>6, <1>7 DEF Next

(* The channel's type, the contiguity of its records and the chain of      *)
(* their held masks hold in every reachable state.                         *)
THEOREM ChannelInvariant == Spec => []Inv
  BY InitInv, NextInv, PTL DEF Spec
=============================================================================
