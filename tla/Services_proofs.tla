-------------------------- MODULE Services_proofs --------------------------
(* The card reader: a frame that is sent whole is decoded to what was      *)
(* framed, whatever the decoder was doing; the device keeps its scans, and *)
(* the port its replies and the frame under way. The request diagnostics:  *)
(* their tables and reports agree with what the service did.               *)
EXTENDS CardReader, RequestTracking, TLAPS, SequenceTheorems, WellFoundedInduction

-----------------------------------------------------------------------------
(* Induction over an initial segment of the naturals, for a set of them:   *)
(* a set that has the first and with each the next has all.                *)
LEMMA Segment ==
    ASSUME NEW N \in Nat, NEW P, 0 \in P,
           \A n \in 0 .. N - 1 : n \in P => n + 1 \in P
    PROVE  \A n \in 0 .. N : n \in P
  <1> DEFINE bad == {n \in 0 .. N : n \notin P}
  <1>1. SUFFICES ASSUME bad # {} PROVE FALSE
    OBVIOUS
  <1>2. IsWellFoundedOn(OpToRel(<, Nat), Nat)
    BY NatLessThanWellFounded
  <1>3. bad \subseteq Nat
    OBVIOUS
  <1> HIDE DEF bad
  <1>4. PICK x \in bad : \A y \in bad : ~(<<y, x>> \in OpToRel(<, Nat))
    BY <1>1, <1>2, <1>3, WFMin, Zenon
  <1>5. \A y \in bad : ~(y < x)
    BY <1>3, <1>4 DEF OpToRel
  <1> USE DEF bad
  <1>6. x \in 0 .. N /\ x \notin P /\ x # 0
    OBVIOUS
  <1>7. x - 1 \in 0 .. N - 1 /\ x - 1 < x /\ (x - 1) + 1 = x /\ x - 1 \in 0 .. N
    BY <1>6
  <1>8. x - 1 \in P
    BY <1>5, <1>7
  <1>9. QED  BY <1>6, <1>7, <1>8

(* A recursion over such a segment has a solution.                         *)
Steps(N, S) == [1 .. N -> [S -> S]]
Iterates(f, N, S, first, step) ==
    /\ f \in [0 .. N -> S] /\ f[0] = first
    /\ \A i \in 1 .. N : f[i] = step[i][f[i - 1]]

LEMMA Recursion ==
    ASSUME NEW N \in Nat, NEW S, NEW first \in S, NEW step \in Steps(N, S)
    PROVE  \E f : Iterates(f, N, S, first, step)
  <1> USE DEF Steps, Iterates
  <1> DEFINE Solves(f, n) ==
                /\ f \in [0 .. n -> S] /\ f[0] = first
                /\ \A i \in 1 .. n : f[i] = step[i][f[i - 1]]
             solved == {n \in 0 .. N : \E f : Solves(f, n)}
  <1>1. 0 \in solved
    <2> DEFINE g == [i \in 0 .. 0 |-> first]
    <2>1. Solves(g, 0)
      OBVIOUS
    <2> HIDE DEF g
    <2>2. \E f : Solves(f, 0)
      BY <2>1
    <2>3. QED  BY <2>2
  <1>2. ASSUME NEW n \in 0 .. N - 1, n \in solved
        PROVE  n + 1 \in solved
    <2>1. PICK f : Solves(f, n)
      BY <1>2
    <2> DEFINE next == step[n + 1][f[n]]
               g == [i \in 0 .. n + 1 |-> IF i = n + 1 THEN next ELSE f[i]]
    <2>2. n \in 0 .. n /\ n + 1 \in 1 .. N /\ n + 1 \in 0 .. N
      OBVIOUS
    <2>3. f[n] \in S
      BY <2>1, <2>2
    <2>4. next \in S
      BY <2>2, <2>3
    <2> HIDE DEF next
    <2>5. g \in [0 .. n + 1 -> S]
      BY <2>1, <2>4
    <2>6. g[0] = first
      BY <2>1
    <2>7. ASSUME NEW i \in 1 .. n + 1
          PROVE  g[i] = step[i][g[i - 1]]
      <3>1. i - 1 \in 0 .. n + 1 /\ i - 1 # n + 1 /\ i \in 0 .. n + 1
        OBVIOUS
      <3>2. g[i - 1] = f[i - 1]
        BY <3>1
      <3>3. CASE i = n + 1
        <4>1. g[i] = next /\ i - 1 = n
          BY <3>1, <3>3
        <4>2. QED  BY <4>1, <3>2, <3>3 DEF next
      <3>4. CASE i # n + 1
        <4>1. g[i] = f[i] /\ i \in 1 .. n
          BY <3>1, <3>4
        <4>2. QED  BY <4>1, <3>2, <2>1
      <3>5. QED  BY <3>3, <3>4
    <2> HIDE DEF g
    <2>8. Solves(g, n + 1)
      BY <2>5, <2>6, <2>7
    <2>9. QED  BY <2>2, <2>8
  <1> HIDE DEF solved
  <1>3. \A n \in 0 .. N : n \in solved
    BY <1>1, <1>2, Segment, Zenon
  <1>4. N \in solved
    BY <1>3
  <1>5. QED  BY <1>4 DEF solved
(* What such a recursion gives is of the type its steps keep.              *)
LEMMA RecursionTyped ==
    ASSUME NEW N \in Nat, NEW S, NEW f, f[0] \in S,
           \A i \in 1 .. N : f[i - 1] \in S => f[i] \in S
    PROVE  \A i \in 0 .. N : f[i] \in S
  <1> DEFINE P == {i \in 0 .. N : f[i] \in S}
  <1>1. 0 \in P
    OBVIOUS
  <1>2. ASSUME NEW n \in 0 .. N - 1, n \in P
        PROVE  n + 1 \in P
    <2>1. n + 1 \in 1 .. N /\ (n + 1) - 1 = n /\ n + 1 \in 0 .. N
      OBVIOUS
    <2>2. f[n] \in S
      BY <1>2
    <2>3. f[n + 1] \in S
      BY <2>1, <2>2
    <2>4. QED  BY <2>1, <2>3
  <1> HIDE DEF P
  <1>3. \A n \in 0 .. N : n \in P
    BY <1>1, <1>2, Segment, Zenon
  <1>4. QED  BY <1>3 DEF P

-----------------------------------------------------------------------------
(* JvsLine.                                                                *)
LEMMA EscapedBytes ==
    ASSUME NEW value \in Byte
    PROVE  Escaped(value) \in Seq(Byte) /\ Len(Escaped(value)) \in {1, 2}
  <1>1. \A a, b \in Byte : <<a>> \in Seq(Byte) /\ <<a, b>> \in Seq(Byte)
    OBVIOUS
  <1>2. value \in {Sync, Marker} => Marker \in Byte /\ value - 1 \in Byte
    BY DEF Byte, Sync, Marker
  <1>3. QED  BY <1>1, <1>2 DEF Escaped

LEMMA ByteValues ==
    /\ \A b \in Byte : b \in Nat /\ b <= 255
    /\ \A n \in Nat : n <= 255 => n \in Byte
    /\ \A n \in Nat : n % 256 \in Byte
  <1>1. Byte = 0 .. 255
    BY DEF Byte
  <1>2. \A b \in 0 .. 255 : b \in Nat /\ b <= 255
    OBVIOUS
  <1>3. \A n \in Nat : n <= 255 => n \in 0 .. 255
    OBVIOUS
  <1>4. \A n \in Nat : n % 256 \in 0 .. 255
    OBVIOUS
  <1>5. QED  BY <1>1, <1>2, <1>3, <1>4, Zenon

(* The sum of values is a natural number.                                  *)
LEMMA SumOf ==
    ASSUME NEW values, NEW N \in Nat, Len(values) = N,
           \A i \in 1 .. N : values[i] \in Nat
    PROVE  Sum(values) \in Nat
  <1> DEFINE Body(f, n) == IF n = 0 THEN 0 ELSE f[n - 1] + values[n]
             sum == CHOOSE f : f = [n \in 0 .. Len(values) |-> Body(f, n)]
             step == [i \in 1 .. N |-> [x \in Nat |-> x + values[i]]]
  <1> HIDE DEF sum, step, Body
  <1>2. Sum(values) = sum[N]
    BY Zenon DEF Sum, sum, Body
  <1>3. step \in Steps(N, Nat)
    BY DEF step, Steps
  <1>4. PICK f : Iterates(f, N, Nat, 0, step)
    <2>1. 0 \in Nat
      OBVIOUS
    <2>2. QED  BY <1>3, <2>1, Recursion
  <1>5. /\ f \in [0 .. N -> Nat] /\ f[0] = 0
        /\ \A i \in 1 .. N : f[i] = step[i][f[i - 1]]
        /\ \A i \in 1 .. N : i - 1 \in 0 .. N /\ f[i - 1] \in Nat
    BY <1>4 DEF Iterates
  <1>6. \A i \in 1 .. N : f[i] = f[i - 1] + values[i]
    BY <1>5 DEF step
  <1>7. f = [n \in 0 .. N |-> Body(f, n)]
    BY <1>5, <1>6 DEF Body
  <1>8. sum = [n \in 0 .. N |-> Body(sum, n)]
    BY <1>7, Zenon DEF sum
  <1>9. /\ sum[0] \in Nat
        /\ \A i \in 1 .. N : sum[i - 1] \in Nat => sum[i] \in Nat
    <2>1. 0 \in 0 .. N /\ \A i \in 1 .. N : i \in 0 .. N /\ i # 0
      OBVIOUS
    <2>2. \A i \in 0 .. N : sum[i] = Body(sum, i)
      BY <1>8, Zenon
    <2>3. sum[0] = 0 /\ \A i \in 1 .. N : sum[i] = sum[i - 1] + values[i]
      BY <2>1, <2>2 DEF Body
    <2>4. QED  BY <2>3
  <1>10. \A i \in 0 .. N : sum[i] \in Nat
    BY <1>9, RecursionTyped
  <1>11. QED  BY <1>2, <1>10

LEMMA SumType ==
    ASSUME NEW values \in Seq(Byte)
    PROVE  Sum(values) \in Nat
  <1>1. Len(values) \in Nat /\ \A i \in 1 .. Len(values) : values[i] \in Byte
    OBVIOUS
  <1>2. \A i \in 1 .. Len(values) : values[i] \in Nat
    BY <1>1, ByteValues, Zenon
  <1>3. QED  BY <1>1, <1>2, SumOf, Zenon

(* The frame of values is built value after value.                         *)
LEMMA WireSteps ==
    ASSUME NEW values, NEW N \in Nat, Len(values) = N,
           \A i \in 1 .. N : Escaped(values[i]) \in Seq(Byte)
    PROVE  \E wire \in [0 .. N -> Seq(Byte)] :
              /\ wire[0] = <<Sync>>
              /\ \A i \in 1 .. N : wire[i] = wire[i - 1] \o Escaped(values[i])
              /\ Wire(values) = wire[N]
  <1> DEFINE Body(f, n) == IF n = 0 THEN <<Sync>>
                           ELSE f[n - 1] \o Escaped(values[n])
             wire == CHOOSE f : f = [n \in 0 .. Len(values) |-> Body(f, n)]
             step == [i \in 1 .. N |->
                         [x \in Seq(Byte) |-> x \o Escaped(values[i])]]
  <1> HIDE DEF wire, step, Body
  <1>2. Wire(values) = wire[N]
    BY Zenon DEF Wire, wire, Body
  <1>3. step \in Steps(N, Seq(Byte))
    <2>1. \A i \in 1 .. N, x \in Seq(Byte) : x \o Escaped(values[i]) \in Seq(Byte)
      OBVIOUS
    <2>2. QED  BY <2>1 DEF step, Steps
  <1>4. PICK f : Iterates(f, N, Seq(Byte), <<Sync>>, step)
    <2>1. <<Sync>> \in Seq(Byte)
      BY DEF Sync, Byte
    <2>2. QED  BY <1>3, <2>1, Recursion
  <1>5. /\ f \in [0 .. N -> Seq(Byte)] /\ f[0] = <<Sync>>
        /\ \A i \in 1 .. N : f[i] = step[i][f[i - 1]]
        /\ \A i \in 1 .. N : i - 1 \in 0 .. N /\ f[i - 1] \in Seq(Byte)
    <2>1. /\ f \in [0 .. N -> Seq(Byte)] /\ f[0] = <<Sync>>
          /\ \A i \in 1 .. N : f[i] = step[i][f[i - 1]]
      BY ONLY <1>4 DEF Iterates
    <2>2. \A i \in 1 .. N : i - 1 \in 0 .. N
      OBVIOUS
    <2>3. \A i \in 1 .. N : f[i - 1] \in Seq(Byte)
      BY ONLY <2>1, <2>2
    <2>4. QED  BY ONLY <2>1, <2>2, <2>3
  <1>6. \A i \in 1 .. N : f[i] = f[i - 1] \o Escaped(values[i])
    BY <1>5 DEF step
  <1>7. f = [n \in 0 .. N |-> Body(f, n)]
    <2>1. \A n \in 0 .. N : n = 0 \/ (n \in 1 .. N /\ n # 0)
      OBVIOUS
    <2>2. \A n \in 0 .. N : f[n] = Body(f, n)
      BY <1>5, <1>6, <2>1, Zenon DEF Body
    <2>3. QED  BY <1>5, <2>2
  <1>8. wire = [n \in 0 .. N |-> Body(wire, n)]
    BY <1>7, Zenon DEF wire
  <1>9. /\ wire[0] = <<Sync>>
        /\ \A i \in 1 .. N : wire[i] = wire[i - 1] \o Escaped(values[i])
    <2>1. 0 \in 0 .. N /\ \A i \in 1 .. N : i \in 0 .. N /\ i # 0
      OBVIOUS
    <2>2. \A i \in 0 .. N : wire[i] = Body(wire, i)
      BY <1>8, Zenon
    <2>3. QED  BY <2>1, <2>2 DEF Body
  <1>10. wire[0] \in Seq(Byte) /\
         \A i \in 1 .. N : wire[i - 1] \in Seq(Byte) => wire[i] \in Seq(Byte)
    <2>1. <<Sync>> \in Seq(Byte)
      BY DEF Sync, Byte
    <2>2. ASSUME NEW i \in 1 .. N, wire[i - 1] \in Seq(Byte)
          PROVE  wire[i] \in Seq(Byte)
      <3>1. wire[i - 1] \o Escaped(values[i]) \in Seq(Byte)
        BY <2>2, ConcatProperties
      <3>2. QED  BY <1>9, <3>1
    <2>3. QED  BY <1>9, <2>1, <2>2
  <1>11. \A i \in 0 .. N : wire[i] \in Seq(Byte)
    BY <1>10, RecursionTyped
  <1>12. wire = [n \in 0 .. N |-> wire[n]]
    BY <1>8
  <1>13. wire \in [0 .. N -> Seq(Byte)]
    BY <1>11, <1>12
  <1>14. QED  BY <1>2, <1>9, <1>13

(* What a decoder can be and tell.                                         *)
Decoders == [seeking : BOOLEAN, marker : BOOLEAN, values : Seq(Byte)]
Packets  == [kind : {"packet"}, address : Byte, payload : Seq(Byte)]
Events   == {NoEvent, InvalidEscape, ChecksumFailure} \cup Packets

LEMMA FreshDecoders ==
    /\ Seeking \in Decoders /\ AtAddress \in Decoders
    /\ AtAddress.seeking = FALSE /\ AtAddress.marker = FALSE
    /\ AtAddress.values = <<>>
  <1>1. <<>> \in Seq(Byte)
    OBVIOUS
  <1>2. QED  BY <1>1 DEF AtAddress, Seeking, Decoders

LEMMA DecoderOf ==
    ASSUME NEW current \in Decoders
    PROVE  /\ [current EXCEPT !.marker = TRUE] \in Decoders
           /\ [current EXCEPT !.marker = TRUE].marker = TRUE
           /\ [current EXCEPT !.marker = TRUE].seeking = current.seeking
           /\ [current EXCEPT !.marker = TRUE].values = current.values
           /\ \A values \in Seq(Byte) :
                 LET next == [current EXCEPT !.values = values, !.marker = FALSE]
                 IN  /\ next \in Decoders /\ next.marker = FALSE
                     /\ next.seeking = current.seeking /\ next.values = values
  <1>1. DOMAIN current = {"seeking", "marker", "values"}
    BY DEF Decoders
  <1>2. QED  BY <1>1 DEF Decoders

LEMMA PushDecodedType ==
    ASSUME NEW current \in Decoders, NEW value \in Byte
    PROVE  /\ PushDecoded(current, value).decoder \in Decoders
           /\ PushDecoded(current, value).event \in Events
  <1> DEFINE values == Append(current.values, value)
  <1>1. values \in Seq(Byte) /\ Len(values) \in Nat
    BY DEF Decoders
  <1> HIDE DEF values
  <1>2. /\ Seeking \in Decoders
        /\ [current EXCEPT !.values = values, !.marker = FALSE] \in Decoders
    BY <1>1, FreshDecoders, DecoderOf
  <1>3. ZeroByteCount \in Events /\ NoEvent \in Events /\ ChecksumFailure \in Events
    BY DEF Events, ZeroByteCount, InvalidEscape
  <1>4. Complete(values) => DecodedPacket(values) \in Events
    <2>1. SUFFICES ASSUME Complete(values) PROVE DecodedPacket(values) \in Packets
      BY DEF Events
    <2>2. Len(values) > 2
      BY <2>1 DEF Complete
    <2>3. values[1] \in Byte /\ \A i \in 3 .. Len(values) - 1 : values[i] \in Byte
      BY <1>1, <2>2
    <2>4. SubSeq(values, 3, Len(values) - 1) \in Seq(Byte)
      BY <1>1, <2>3, SubSeqProperties
    <2>5. QED  BY <2>3, <2>4 DEF Packets, DecodedPacket
  <1> USE DEF values
  <1>5. QED  BY <1>2, <1>3, <1>4, Zenon DEF PushDecoded

LEMMA PushType ==
    ASSUME NEW current \in Decoders, NEW raw \in Byte
    PROVE  Push(current, raw).decoder \in Decoders /\ Push(current, raw).event \in Events
  <1>1. /\ AtAddress \in Decoders /\ Seeking \in Decoders
        /\ [current EXCEPT !.marker = TRUE] \in Decoders
        /\ NoEvent \in Events /\ InvalidEscape \in Events
    BY FreshDecoders, DecoderOf DEF Events
  <1>2. raw \in {Sync - 1, Marker - 1} => raw + 1 \in Byte
    BY DEF Sync, Marker, Byte
  <1>3. raw \in {Sync - 1, Marker - 1} =>
           /\ PushDecoded(current, raw + 1).decoder \in Decoders
           /\ PushDecoded(current, raw + 1).event \in Events
    BY <1>2, PushDecodedType
  <1>4. /\ PushDecoded(current, raw).decoder \in Decoders
        /\ PushDecoded(current, raw).event \in Events
    BY PushDecodedType
  <1>5. QED  BY <1>1, <1>3, <1>4, Zenon DEF Push

(* Bytes are pushed one after the other, up to an event.                   *)
Pushed == [decoder : Decoders, event : Events, taken : Nat]
PushNext(before, raw, n) ==
    IF before.event.kind # "none" THEN before
    ELSE [decoder |-> Push(before.decoder, raw).decoder,
          event   |-> Push(before.decoder, raw).event, taken |-> n]
Start(current) == [decoder |-> current, event |-> NoEvent, taken |-> 0]
Pushes(f, N, current, bytes) ==
    /\ \A i \in 0 .. N : f[i] \in Pushed
    /\ f[0] = Start(current)
    /\ \A i \in 1 .. N : f[i] = PushNext(f[i - 1], bytes[i], i)
    /\ Consumed(current, bytes) =
          [decoder |-> f[N].decoder, event |-> f[N].event,
           rest |-> SubSeq(bytes, f[N].taken + 1, N)]

LEMMA ConsumedSteps ==
    ASSUME NEW current \in Decoders, NEW bytes, NEW N \in Nat, Len(bytes) = N,
           \A i \in 1 .. N : bytes[i] \in Byte
    PROVE  \E f : Pushes(f, N, current, bytes)
  <1> DEFINE Body(f, n) ==
                IF n = 0 THEN Start(current)
                ELSE PushNext(f[n - 1], bytes[n], n)
             pushed == CHOOSE f : f = [n \in 0 .. Len(bytes) |-> Body(f, n)]
             step == [i \in 1 .. N |-> [x \in Pushed |-> PushNext(x, bytes[i], i)]]
  <1> HIDE DEF pushed, step, Body
  <1>1. Start(current) \in Pushed
    BY DEF Start, Pushed, Events
  <1>2. Consumed(current, bytes) =
            [decoder |-> pushed[N].decoder, event |-> pushed[N].event,
             rest |-> SubSeq(bytes, pushed[N].taken + 1, N)]
    BY Zenon DEF Consumed, pushed, Body, PushNext, Start
  <1>3. ASSUME NEW i \in 1 .. N, NEW x \in Pushed
        PROVE  PushNext(x, bytes[i], i) \in Pushed
    <2>1. bytes[i] \in Byte /\ i \in Nat
      OBVIOUS
    <2>2. x.decoder \in Decoders
      BY DEF Pushed
    <2>3. /\ Push(x.decoder, bytes[i]).decoder \in Decoders
          /\ Push(x.decoder, bytes[i]).event \in Events
      BY <2>1, <2>2, PushType
    <2>4. QED  BY <2>1, <2>3 DEF PushNext, Pushed
  <1>4. step \in Steps(N, Pushed)
    BY <1>3 DEF step, Steps
  <1>5. PICK f : Iterates(f, N, Pushed, Start(current), step)
    BY <1>1, <1>4, Recursion
  <1>6. /\ f \in [0 .. N -> Pushed] /\ f[0] = Start(current)
        /\ \A i \in 1 .. N : f[i] = step[i][f[i - 1]]
        /\ \A i \in 1 .. N : i - 1 \in 0 .. N /\ f[i - 1] \in Pushed
    BY <1>5 DEF Iterates
  <1>7. \A i \in 1 .. N : f[i] = PushNext(f[i - 1], bytes[i], i)
    BY <1>6 DEF step
  <1>8. f = [n \in 0 .. N |-> Body(f, n)]
    <2>1. \A n \in 0 .. N : n = 0 \/ (n \in 1 .. N /\ n # 0)
      OBVIOUS
    <2>2. \A n \in 0 .. N : f[n] = Body(f, n)
      BY <1>6, <1>7, <2>1, Zenon DEF Body
    <2>3. QED  BY <1>6, <2>2
  <1>9. pushed = [n \in 0 .. N |-> Body(pushed, n)]
    BY <1>8, Zenon DEF pushed
  <1>10. /\ pushed[0] = Start(current)
         /\ \A i \in 1 .. N : pushed[i] = PushNext(pushed[i - 1], bytes[i], i)
    <2>1. 0 \in 0 .. N /\ \A i \in 1 .. N : i \in 0 .. N /\ i # 0
      OBVIOUS
    <2>2. \A i \in 0 .. N : pushed[i] = Body(pushed, i)
      BY <1>9, Zenon
    <2>3. QED  BY <2>1, <2>2, Zenon DEF Body
  <1>11. \A i \in 1 .. N : pushed[i - 1] \in Pushed => pushed[i] \in Pushed
    BY <1>3, <1>10, Zenon
  <1>12. \A i \in 0 .. N : pushed[i] \in Pushed
    BY <1>1, <1>10, <1>11, RecursionTyped
  <1>13. QED  BY <1>2, <1>10, <1>12, Zenon DEF Pushes

-----------------------------------------------------------------------------
(* The values of a whole frame.                                            *)
WholeFrame(values) ==
    /\ values \in Seq(Byte) /\ Len(values) \in Nat /\ Len(values) >= 3
    /\ values[2] = Len(values) - 2
    /\ \A i \in 1 .. Len(values) : values[i] \in Byte
    /\ ChecksumHolds(values)

LEMMA FrameIsWhole ==
    ASSUME NEW address \in Byte, NEW payload \in Seq(Byte), Len(payload) <= 254
    PROVE  /\ WholeFrame(FrameValues(address, payload))
           /\ DecodedPacket(FrameValues(address, payload)) =
                 [kind |-> "packet", address |-> address, payload |-> payload]
  <1> DEFINE head == <<address, Len(payload) + 1>>
             body == head \o payload
             sum == Sum(body) % 256
             values == Append(body, sum)
  <1> HIDE DEF head, body, sum, values
  <1>1. FrameValues(address, payload) = values
    BY Zenon DEF FrameValues, head, body, sum, values
  <1>2. Len(payload) \in Nat /\ Len(payload) + 1 \in Byte
    <2>1. Len(payload) \in Nat
      OBVIOUS
    <2>2. Len(payload) + 1 \in Nat /\ Len(payload) + 1 <= 255
      BY <2>1
    <2>3. QED  BY <2>1, <2>2, ByteValues, Zenon
  <1>3. /\ head \in Seq(Byte) /\ Len(head) = 2
        /\ head[1] = address /\ head[2] = Len(payload) + 1
    BY <1>2 DEF head
  <1>4. /\ body \in Seq(Byte) /\ Len(body) = Len(payload) + 2
        /\ \A i \in 1 .. Len(payload) + 2 :
              body[i] = IF i <= 2 THEN head[i] ELSE payload[i - 2]
    <2>1. /\ body \in Seq(Byte) /\ Len(body) = Len(head) + Len(payload)
          /\ \A i \in 1 .. Len(head) + Len(payload) :
                body[i] = IF i <= Len(head) THEN head[i] ELSE payload[i - Len(head)]
      BY <1>3, ConcatProperties DEF body
    <2>2. QED  BY <1>2, <1>3, <2>1
  <1>5. sum \in Byte
    <2>1. Sum(body) \in Nat
      BY <1>4, SumType
    <2>2. QED  BY <2>1, ByteValues, Zenon DEF sum
  <1>6. /\ values \in Seq(Byte) /\ Len(values) = Len(body) + 1
        /\ \A i \in 1 .. Len(body) : values[i] = body[i]
        /\ values[Len(body) + 1] = sum
    BY <1>4, <1>5, AppendProperties DEF values
  <1>7. /\ Len(values) = Len(payload) + 3
        /\ values[1] = address /\ values[2] = Len(payload) + 1
        /\ \A i \in 1 .. Len(payload) : values[i + 2] = payload[i]
        /\ values[Len(values)] = sum
    <2>1. /\ Len(values) = Len(payload) + 3
          /\ values[Len(values)] = sum
          /\ 1 \in 1 .. Len(body) /\ 2 \in 1 .. Len(body)
      BY <1>2, <1>4, <1>6
    <2>2. values[1] = body[1] /\ values[2] = body[2]
      BY <1>6, <2>1
    <2>3. body[1] = address /\ body[2] = Len(payload) + 1
      BY <1>2, <1>3, <1>4
    <2>4. ASSUME NEW i \in 1 .. Len(payload)
          PROVE  values[i + 2] = payload[i]
      <3>1. i + 2 \in 1 .. Len(body) /\ ~(i + 2 <= 2) /\ (i + 2) - 2 = i
            /\ i + 2 \in 1 .. Len(payload) + 2
        BY <1>2, <1>4
      <3>2. values[i + 2] = body[i + 2]
        BY <1>6, <3>1
      <3>3. QED  BY <1>4, <3>1, <3>2
    <2>5. QED  BY <2>1, <2>2, <2>3, <2>4
  <1>8. Front(values) = body
    <2>1. /\ Len(values) - 1 = Len(body) /\ Len(body) \in Nat
          /\ \A i \in 1 .. Len(body) : values[i] \in Byte
      BY <1>2, <1>4, <1>6
    <2>2. /\ SubSeq(values, 1, Len(body)) \in Seq(Byte)
          /\ Len(SubSeq(values, 1, Len(body))) = Len(body)
          /\ \A i \in 1 .. Len(body) : SubSeq(values, 1, Len(body))[i] = values[i]
      BY <2>1
    <2>3. SubSeq(values, 1, Len(body)) = body
      BY <1>4, <1>6, <2>1, <2>2, SeqEqual
    <2>4. QED  BY <2>1, <2>3 DEF Front
  <1>9. SubSeq(values, 3, Len(values) - 1) = payload
    <2>1. /\ Len(values) - 1 = Len(payload) + 2
          /\ \A i \in 3 .. Len(values) - 1 : values[i] \in Byte
          /\ Len(values) - 1 \in Int
      BY <1>2, <1>6, <1>7
    <2> DEFINE s == SubSeq(values, 3, Len(values) - 1)
    <2>2. /\ s \in Seq(Byte)
          /\ Len(s) = IF 3 <= Len(values) - 1 THEN (Len(values) - 1) - 3 + 1 ELSE 0
          /\ \A i \in 1 .. (Len(values) - 1) - 3 + 1 : s[i] = values[3 + i - 1]
      BY <2>1, SubSeqProperties
    <2> HIDE DEF s
    <2>3. /\ Len(s) = Len(payload)
          /\ \A i \in 1 .. Len(payload) : s[i] = values[i + 2]
      BY <1>2, <2>1, <2>2
    <2>4. s = payload
      BY <1>7, <2>2, <2>3, SeqEqual
    <2>5. QED  BY <2>4 DEF s
  <1>10. WholeFrame(values)
    <2>1. /\ Len(values) \in Nat /\ Len(values) >= 3
          /\ values[2] = Len(values) - 2
      BY <1>2, <1>7
    <2>2. \A i \in 1 .. Len(values) : values[i] \in Byte
      BY <1>6
    <2>3. ChecksumHolds(values)
      BY <1>7, <1>8 DEF ChecksumHolds, Last, sum
    <2>4. QED  BY <1>6, <2>1, <2>2, <2>3 DEF WholeFrame
  <1>11. DecodedPacket(values) =
            [kind |-> "packet", address |-> address, payload |-> payload]
    BY <1>7, <1>9 DEF DecodedPacket
  <1>12. QED  BY <1>1, <1>10, <1>11

(* The bytes of a frame: those of its first values, and where the next     *)
(* one lies among them.                                                    *)
IsWireOf(wire, values) ==
    /\ wire \in [0 .. Len(values) -> Seq(Byte)]
    /\ wire[0] = <<Sync>>
    /\ \A i \in 1 .. Len(values) : wire[i] = wire[i - 1] \o Escaped(values[i])

LEMMA WireExists ==
    ASSUME NEW values, WholeFrame(values)
    PROVE  \E wire : IsWireOf(wire, values) /\ Wire(values) = wire[Len(values)]
  <1>1. /\ Len(values) \in Nat
        /\ \A i \in 1 .. Len(values) : Escaped(values[i]) \in Seq(Byte)
    BY EscapedBytes DEF WholeFrame
  <1>2. QED  BY <1>1, WireSteps DEF IsWireOf

Extends(after, before, added) ==
    /\ before \in Seq(Byte) /\ after \in Seq(Byte)
    /\ Len(before) \in Nat
    /\ Len(after) = Len(before) + Len(added)
    /\ \A k \in 1 .. Len(before) : after[k] = before[k]
    /\ \A k \in 1 .. Len(added) : after[Len(before) + k] = added[k]
    /\ Len(added) \in {1, 2}

LEMMA WireGrows ==
    ASSUME NEW values, WholeFrame(values), NEW wire, IsWireOf(wire, values),
           NEW i \in 1 .. Len(values)
    PROVE  Extends(wire[i], wire[i - 1], Escaped(values[i]))
  <1>1. i - 1 \in 0 .. Len(values) /\ i \in 0 .. Len(values)
    BY DEF WholeFrame
  <1>2. /\ wire[i - 1] \in Seq(Byte) /\ wire[i] \in Seq(Byte)
        /\ wire[i] = wire[i - 1] \o Escaped(values[i])
    BY <1>1 DEF IsWireOf
  <1>3. /\ Escaped(values[i]) \in Seq(Byte)
        /\ Len(Escaped(values[i])) \in {1, 2}
    BY EscapedBytes DEF WholeFrame
  <1> DEFINE before == wire[i - 1]
             added == Escaped(values[i])
             both == before \o added
  <1>4. before \in Seq(Byte) /\ added \in Seq(Byte)
    BY <1>2, <1>3
  <1> HIDE DEF before, added
  <1>5. /\ Len(both) = Len(before) + Len(added)
        /\ \A k \in 1 .. Len(before) + Len(added) :
              both[k] = IF k <= Len(before) THEN before[k] ELSE added[k - Len(before)]
        /\ Len(before) \in Nat /\ Len(added) \in Nat
    BY <1>4, ConcatProperties
  <1> HIDE DEF both
  <1>6. \A k \in 1 .. Len(before) : both[k] = before[k]
    BY <1>5
  <1>7. ASSUME NEW k \in 1 .. Len(added)
        PROVE  both[Len(before) + k] = added[k]
    <2>1. /\ Len(before) + k \in 1 .. Len(before) + Len(added)
          /\ ~(Len(before) + k <= Len(before))
          /\ (Len(before) + k) - Len(before) = k
      BY <1>5
    <2>2. QED  BY <1>5, <2>1
  <1>8. wire[i] = both
    BY <1>2 DEF both, before, added
  <1>9. QED  BY <1>2, <1>3, <1>5, <1>6, <1>7, <1>8, Zenon DEF before, added, Extends

(* The whole frame keeps the bytes of every part of it.                    *)
LEMMA WirePrefix ==
    ASSUME NEW values, WholeFrame(values), NEW wire, IsWireOf(wire, values),
           NEW i \in 0 .. Len(values)
    PROVE  /\ Len(wire[i]) \in Nat
           /\ Len(wire[i]) <= Len(wire[Len(values)])
           /\ \A k \in 1 .. Len(wire[i]) : wire[Len(values)][k] = wire[i][k]
           /\ wire[Len(values)] \in Seq(Byte)
  <1> DEFINE L == Len(values)
             Keeps(j) == /\ Len(wire[j]) \in Nat /\ Len(wire[i]) <= Len(wire[j])
                         /\ \A k \in 1 .. Len(wire[i]) : wire[j][k] = wire[i][k]
             P == {j \in 0 .. L : i <= j => Keeps(j)}
  <1> HIDE DEF L, Keeps, P
  <1>1. L \in Nat /\ i \in 0 .. L /\ i \in Nat
    BY DEF WholeFrame, L
  <1>2. \A j \in 0 .. L : wire[j] \in Seq(Byte) /\ Len(wire[j]) \in Nat
    <2>1. \A j \in 0 .. L : wire[j] \in Seq(Byte)
      BY DEF IsWireOf, L
    <2>2. QED  BY <2>1
  <1>3. Keeps(i)
    BY <1>1, <1>2 DEF Keeps
  <1>4. ASSUME NEW n \in 0 .. L - 1, n \in P
        PROVE  n + 1 \in P
    <2>1. n + 1 \in 0 .. L /\ n + 1 \in 1 .. L /\ (n + 1) - 1 = n
      BY <1>1
    <2>2. CASE n + 1 = i
      BY <1>3, <2>1, <2>2 DEF P
    <2>3. CASE n + 1 # i
      <3>1. SUFFICES ASSUME i <= n + 1 PROVE Keeps(n + 1)
        BY <2>1 DEF P
      <3>2. i <= n
        BY <1>1, <2>3, <3>1
      <3>3. Keeps(n)
        BY <1>4, <3>2 DEF P
      <3>4. /\ Len(wire[n + 1]) = Len(wire[n]) + Len(Escaped(values[n + 1]))
            /\ Len(Escaped(values[n + 1])) \in {1, 2}
            /\ \A k \in 1 .. Len(wire[n]) : wire[n + 1][k] = wire[n][k]
        <4>1. n + 1 \in 1 .. Len(values)
          BY <2>1 DEF L
        <4>2. Extends(wire[n + 1], wire[(n + 1) - 1], Escaped(values[n + 1]))
          BY <4>1, WireGrows
        <4>3. Extends(wire[n + 1], wire[n], Escaped(values[n + 1]))
          BY <2>1, <4>2, Zenon
        <4>4. QED  BY <4>3, Zenon DEF Extends
      <3>5. Len(wire[n]) \in Nat /\ Len(wire[n + 1]) \in Nat /\ Len(wire[i]) \in Nat
        BY <1>1, <1>2, <2>1
      <3>6. Len(wire[i]) <= Len(wire[n])
        BY <3>3 DEF Keeps
      <3>7. Len(wire[i]) <= Len(wire[n + 1])
        <4> DEFINE a == Len(wire[n])  b == Len(Escaped(values[n + 1]))
                   c == Len(wire[n + 1])  d == Len(wire[i])
        <4>1. c = a + b /\ b \in {1, 2} /\ a \in Nat /\ c \in Nat /\ d \in Nat
              /\ d <= a
          BY <3>4, <3>5, <3>6
        <4> HIDE DEF a, b, c, d
        <4>2. d <= c
          BY <4>1
        <4>3. QED  BY <4>2 DEF c, d
      <3>8. ASSUME NEW k \in 1 .. Len(wire[i])
            PROVE  wire[n + 1][k] = wire[i][k]
        <4>1. k \in 1 .. Len(wire[n])
          BY <3>5, <3>6
        <4>2. QED  BY <3>3, <3>4, <4>1 DEF Keeps
      <3>9. QED  BY <3>5, <3>7, <3>8 DEF Keeps
    <2>4. QED  BY <2>2, <2>3
  <1>5. 0 \in P
    BY <1>1, <1>3 DEF P
  <1>6. \A n \in 0 .. L : n \in P
    BY <1>1, <1>4, <1>5, Segment, Zenon
  <1>7. Keeps(L) /\ L \in 0 .. L
    BY <1>1, <1>6 DEF P
  <1>8. QED  BY <1>1, <1>2, <1>7 DEF Keeps, L

(* What stands in the frame for its i-th value.                            *)
LEMMA WireAt ==
    ASSUME NEW values, WholeFrame(values), NEW wire, IsWireOf(wire, values),
           NEW i \in 1 .. Len(values)
    PROVE  LET before == Len(wire[i - 1])
               bytes  == wire[Len(values)]
           IN  /\ before \in Nat
               /\ values[i] \in {Sync, Marker} =>
                     /\ Len(wire[i]) = before + 2 /\ before + 2 <= Len(bytes)
                     /\ bytes[before + 1] = Marker
                     /\ bytes[before + 2] = values[i] - 1
               /\ values[i] \notin {Sync, Marker} =>
                     /\ Len(wire[i]) = before + 1 /\ before + 1 <= Len(bytes)
                     /\ bytes[before + 1] = values[i]
               /\ Len(bytes) \in Nat
  <1> DEFINE before == Len(wire[i - 1])
             bytes  == wire[Len(values)]
             added  == Escaped(values[i])
  <1> HIDE DEF before, bytes, added
  <1>1. /\ before \in Nat
        /\ Len(wire[i]) = before + Len(added)
        /\ \A k \in 1 .. Len(added) : wire[i][before + k] = added[k]
    <2>1. Extends(wire[i], wire[i - 1], Escaped(values[i]))
      BY WireGrows
    <2>2. QED  BY <2>1, Zenon DEF before, added, Extends
  <1>2. i \in 0 .. Len(values) /\ Len(values) \in 0 .. Len(values)
    BY DEF WholeFrame
  <1>3. /\ Len(wire[i]) <= Len(bytes)
        /\ \A k \in 1 .. Len(wire[i]) : bytes[k] = wire[i][k]
    BY <1>2, WirePrefix DEF bytes
  <1>4. Len(bytes) \in Nat
    BY <1>2, WirePrefix DEF bytes
  <1>5. CASE values[i] \in {Sync, Marker}
    <2>1. Len(added) = 2 /\ added[1] = Marker /\ added[2] = values[i] - 1
      BY <1>5 DEF added, Escaped
    <2>2. Len(wire[i]) = before + 2 /\ before + 2 <= Len(bytes)
      BY <1>1, <1>3, <2>1
    <2>3. /\ 1 \in 1 .. Len(added) /\ 2 \in 1 .. Len(added)
          /\ before + 1 \in 1 .. Len(wire[i]) /\ before + 2 \in 1 .. Len(wire[i])
      BY <1>1, <2>1, <2>2
    <2>4. bytes[before + 1] = Marker /\ bytes[before + 2] = values[i] - 1
      BY <1>1, <1>3, <2>1, <2>3
    <2>5. QED  BY <1>1, <1>4, <1>5, <2>2, <2>4, Zenon DEF before, bytes
  <1>6. CASE values[i] \notin {Sync, Marker}
    <2>1. Len(added) = 1 /\ added[1] = values[i]
      BY <1>6 DEF added, Escaped
    <2>2. Len(wire[i]) = before + 1 /\ before + 1 <= Len(bytes)
      BY <1>1, <1>3, <2>1
    <2>3. 1 \in 1 .. Len(added) /\ before + 1 \in 1 .. Len(wire[i])
      BY <1>1, <2>1, <2>2
    <2>4. bytes[before + 1] = values[i]
      BY <1>1, <1>3, <2>1, <2>3
    <2>5. QED  BY <1>1, <1>4, <1>6, <2>2, <2>4, Zenon DEF before, bytes
  <1>7. QED  BY <1>5, <1>6

(* A decoder that has taken the first values of a frame, and perhaps the   *)
(* marker of the next: it has been given p bytes.                          *)
AtValue(current, p, values, wire, i) ==
    /\ current.seeking = FALSE
    /\ current.values = SubSeq(values, 1, i - 1)
    /\ \/ current.marker = FALSE /\ p = Len(wire[i - 1])
       \/ /\ current.marker = TRUE /\ values[i] \in {Sync, Marker}
          /\ p = Len(wire[i - 1]) + 1
Along(current, p, values, wire) ==
    \E i \in 1 .. Len(values) : AtValue(current, p, values, wire, i)

(* The next value is taken, or ends the packet.                            *)
LEMMA NextValue ==
    ASSUME NEW values, WholeFrame(values), NEW wire, IsWireOf(wire, values),
           NEW i \in 1 .. Len(values), NEW current \in Decoders,
           current.seeking = FALSE, current.values = SubSeq(values, 1, i - 1)
    PROVE  LET result == PushDecoded(current, values[i])
           IN  \/ /\ i < Len(values) /\ result.event = NoEvent
                  /\ AtValue(result.decoder, Len(wire[i]), values, wire, i + 1)
               \/ /\ i = Len(values) /\ result.event = DecodedPacket(values)
                  /\ result.decoder = Seeking
  <1> DEFINE taken == Append(current.values, values[i])
             L == Len(values)
  <1> HIDE DEF taken, L
  <1>1. /\ L \in Nat /\ L >= 3 /\ i \in 1 .. L /\ values[2] = L - 2
        /\ values \in Seq(Byte) /\ \A k \in 1 .. L : values[k] \in Byte
    BY DEF WholeFrame, L
  <1>2. taken = SubSeq(values, 1, i)
    <2>1. 1 \in 1 .. Len(values) /\ i \in 1 .. Len(values)
      BY <1>1 DEF L
    <2>2. SubSeq(values, 1, i) = SubSeq(values, 1, i - 1) \o <<values[i]>>
      BY <1>1, <2>1, SubSeqRecursiveSecond
    <2>3. SubSeq(values, 1, i - 1) \in Seq(Byte) /\ values[i] \in Byte
      BY <1>1 DEF Decoders
    <2>4. QED  BY <2>2, <2>3, AppendIsConcat DEF taken
  <1>3. /\ Len(taken) = i
        /\ \A k \in 1 .. i : taken[k] = values[k]
        /\ taken \in Seq(Byte)
    <2>1. /\ SubSeq(values, 1, i) \in Seq(Byte)
          /\ Len(SubSeq(values, 1, i)) = IF 1 <= i THEN i - 1 + 1 ELSE 0
          /\ \A k \in 1 .. i - 1 + 1 : SubSeq(values, 1, i)[k] = values[1 + k - 1]
      BY <1>1, SubSeqProperties
    <2>2. QED  BY <1>1, <1>2, <2>1
  <1>4. ~(Len(taken) = 2 /\ values[i] = 0)
    BY <1>1, <1>3
  <1>5. Complete(taken) <=> i = L
    <2>1. i > 2 => taken[2] = L - 2
      BY <1>1, <1>3
    <2>2. QED  BY <1>1, <1>3, <2>1 DEF Complete
  <1>6. CASE i < L
    <2>1. ~Complete(taken)
      BY <1>1, <1>5, <1>6
    <2> DEFINE next == [current EXCEPT !.values = taken, !.marker = FALSE]
    <2> HIDE DEF next
    <2>2. PushDecoded(current, values[i]) = [decoder |-> next, event |-> NoEvent]
      BY <1>4, <2>1, Zenon DEF PushDecoded, taken, next
    <2>3. next.marker = FALSE /\ next.seeking = FALSE /\ next.values = taken
      BY <1>3, DecoderOf DEF next
    <2>4. (i + 1) - 1 = i
      BY <1>1
    <2>5. AtValue(next, Len(wire[i]), values, wire, i + 1)
      BY <1>2, <2>3, <2>4 DEF AtValue
    <2>6. QED  BY <1>6, <2>2, <2>5 DEF L
  <1>7. CASE i = L
    <2>1. Complete(taken)
      BY <1>5, <1>7
    <2>2. taken = values
      BY <1>1, <1>3, <1>7, SeqEqual DEF L
    <2>3. ChecksumHolds(taken)
      BY <2>2 DEF WholeFrame
    <2>4. PushDecoded(current, values[i]) =
             [decoder |-> Seeking, event |-> DecodedPacket(taken)]
      BY <1>4, <2>1, <2>3, Zenon DEF PushDecoded, taken
    <2>5. QED  BY <1>7, <2>2, <2>4 DEF L
  <1>8. QED  BY <1>1, <1>6, <1>7

(* One more byte of the frame takes the decoder along, or ends the packet. *)
LEMMA NextByte ==
    ASSUME NEW values, WholeFrame(values), NEW wire, IsWireOf(wire, values),
           NEW current \in Decoders, NEW p \in Nat,
           Along(current, p, values, wire)
    PROVE  LET bytes  == wire[Len(values)]
               result == Push(current, bytes[p + 1])
           IN  /\ p + 1 <= Len(bytes)
               /\ \/ /\ p + 1 < Len(bytes) /\ result.event = NoEvent
                     /\ Along(result.decoder, p + 1, values, wire)
                  \/ /\ p + 1 = Len(bytes) /\ result.event = DecodedPacket(values)
                     /\ result.decoder = Seeking
  <1> DEFINE bytes  == wire[Len(values)]
             result == Push(current, bytes[p + 1])
             Goal == /\ p + 1 <= Len(bytes)
                     /\ \/ /\ p + 1 < Len(bytes) /\ result.event = NoEvent
                           /\ Along(result.decoder, p + 1, values, wire)
                        \/ /\ p + 1 = Len(bytes) /\ result.event = DecodedPacket(values)
                           /\ result.decoder = Seeking
  <1> SUFFICES Goal
    BY Zenon
  <1> HIDE DEF bytes, result, Goal
  <1>1. PICK i \in 1 .. Len(values) : AtValue(current, p, values, wire, i)
    BY DEF Along
  <1>2. /\ Len(values) \in Nat /\ values[i] \in Nat /\ i \in Nat
        /\ i < Len(values) => i + 1 \in 1 .. Len(values)
    BY ByteValues DEF WholeFrame
  <1> DEFINE before == Len(wire[i - 1])
  <1> HIDE DEF before
  <1>3. /\ before \in Nat /\ Len(bytes) \in Nat
        /\ values[i] \in {Sync, Marker} =>
              /\ Len(wire[i]) = before + 2 /\ before + 2 <= Len(bytes)
              /\ bytes[before + 1] = Marker
              /\ bytes[before + 2] = values[i] - 1
        /\ values[i] \notin {Sync, Marker} =>
              /\ Len(wire[i]) = before + 1 /\ before + 1 <= Len(bytes)
              /\ bytes[before + 1] = values[i]
    BY WireAt DEF before, bytes
  <1>4. current.seeking = FALSE /\ current.values = SubSeq(values, 1, i - 1)
    BY <1>1 DEF AtValue
  <1>5. /\ Len(wire[i]) <= Len(bytes)
        /\ i = Len(values) => Len(wire[i]) = Len(bytes)
        /\ i < Len(values) => Len(wire[i]) < Len(bytes)
    <2>1. /\ i \in 0 .. Len(values) /\ Len(wire[i]) \in Nat
          /\ Len(wire[i]) <= Len(bytes)
      BY WirePrefix DEF bytes
    <2>2. ASSUME i < Len(values) PROVE Len(wire[i]) < Len(bytes)
      <3>1. i + 1 \in 1 .. Len(values) /\ (i + 1) - 1 = i
        BY <1>2, <2>2
      <3>2. /\ Len(wire[i + 1]) = Len(wire[i]) + Len(Escaped(values[i + 1]))
            /\ Len(Escaped(values[i + 1])) \in {1, 2}
        <4>1. Extends(wire[i + 1], wire[(i + 1) - 1], Escaped(values[i + 1]))
          BY <3>1, WireGrows
        <4>2. Extends(wire[i + 1], wire[i], Escaped(values[i + 1]))
          BY <3>1, <4>1, Zenon
        <4>3. QED  BY <4>2, Zenon DEF Extends
      <3>3. i + 1 \in 0 .. Len(values)
        BY <1>2, <3>1
      <3>4. Len(wire[i + 1]) <= Len(bytes)
        BY <3>3, WirePrefix DEF bytes
      <3> DEFINE a == Len(wire[i])  b == Len(Escaped(values[i + 1]))
                 c == Len(wire[i + 1])  d == Len(bytes)
      <3>5. c = a + b /\ b \in {1, 2} /\ a \in Nat /\ c <= d /\ d \in Nat
        BY <1>3, <2>1, <3>2, <3>4
      <3> HIDE DEF a, b, c, d
      <3>6. a < d
        BY <3>5
      <3>7. QED  BY <3>6 DEF a, d
    <2>3. QED  BY <2>1, <2>2 DEF bytes
  (* When the value itself comes with the byte.                            *)
  <1>6. ASSUME p + 1 = Len(wire[i]), result = PushDecoded(current, values[i])
        PROVE  Goal
    <2>1. \/ /\ i < Len(values) /\ result.event = NoEvent
             /\ AtValue(result.decoder, Len(wire[i]), values, wire, i + 1)
          \/ /\ i = Len(values) /\ result.event = DecodedPacket(values)
             /\ result.decoder = Seeking
      BY <1>4, <1>6, NextValue
    <2>2. CASE /\ i < Len(values) /\ result.event = NoEvent
               /\ AtValue(result.decoder, Len(wire[i]), values, wire, i + 1)
      <3>1. Along(result.decoder, p + 1, values, wire)
        BY <1>2, <1>6, <2>2 DEF Along
      <3>2. p + 1 < Len(bytes) /\ p + 1 <= Len(bytes)
        BY <1>3, <1>5, <1>6, <2>2
      <3>3. QED  BY <2>2, <3>1, <3>2 DEF Goal
    <2>3. CASE /\ i = Len(values) /\ result.event = DecodedPacket(values)
               /\ result.decoder = Seeking
      <3>1. p + 1 = Len(bytes) /\ p + 1 <= Len(bytes)
        BY <1>3, <1>5, <1>6, <2>3
      <3>2. QED  BY <2>3, <3>1 DEF Goal
    <2>4. QED  BY <2>1, <2>2, <2>3
  <1>7. CASE current.marker = FALSE /\ p = before /\ values[i] \in {Sync, Marker}
    <2>1. bytes[p + 1] = Marker /\ Marker # Sync
      BY <1>3, <1>7 DEF Marker, Sync
    <2> DEFINE next == [current EXCEPT !.marker = TRUE]
    <2> HIDE DEF next
    <2>2. result = [decoder |-> next, event |-> NoEvent]
      BY <1>4, <1>7, <2>1, Zenon DEF result, Push, next
    <2>3. /\ next.marker = TRUE /\ next.seeking = FALSE
          /\ next.values = SubSeq(values, 1, i - 1)
      BY <1>4, DecoderOf DEF next
    <2>4. AtValue(next, p + 1, values, wire, i)
      BY <1>7, <2>3 DEF AtValue, before
    <2>5. Along(next, p + 1, values, wire)
      BY <2>4 DEF Along
    <2>6. p + 1 < Len(bytes) /\ p + 1 <= Len(bytes)
      BY <1>3, <1>7
    <2>7. result.decoder = next /\ result.event = NoEvent
      BY <2>2
    <2>8. QED  BY <2>5, <2>6, <2>7, Zenon DEF Goal
  <1>8. CASE current.marker = FALSE /\ p = before /\ values[i] \notin {Sync, Marker}
    <2>1. /\ bytes[p + 1] = values[i] /\ values[i] # Sync /\ values[i] # Marker
          /\ p + 1 = Len(wire[i])
      BY <1>3, <1>8
    <2>2. result = PushDecoded(current, values[i])
      BY <1>4, <1>8, <2>1, Zenon DEF result, Push
    <2>3. QED  BY <1>6, <2>1, <2>2, Zenon
  <1>9. CASE current.marker = TRUE /\ values[i] \in {Sync, Marker} /\ p = before + 1
    <2>1. bytes[p + 1] = values[i] - 1 /\ p + 1 = Len(wire[i])
      BY <1>3, <1>9
    <2>2. /\ values[i] - 1 # Sync /\ values[i] - 1 \in {Sync - 1, Marker - 1}
          /\ (values[i] - 1) + 1 = values[i]
      BY <1>9 DEF Sync, Marker
    <2>3. result = PushDecoded(current, (values[i] - 1) + 1)
      BY <1>4, <1>9, <2>1, <2>2, Zenon DEF result, Push
    <2>4. result = PushDecoded(current, values[i])
      BY <2>2, <2>3
    <2>5. QED  BY <1>6, <2>1, <2>4, Zenon
  <1>10. QED  BY <1>1, <1>7, <1>8, <1>9, Zenon DEF AtValue, before

(* A decoder before the first byte of a frame, whatever it was doing, or   *)
(* along it.                                                               *)
OnTheWay(current, p, values, wire) == p = 0 \/ Along(current, p, values, wire)

(* After n bytes of the frame: still along, or the packet has come.        *)
Progress(state, p, values, wire) ==
    LET bytes == wire[Len(values)] IN
    \/ /\ p < Len(bytes) /\ state.event = NoEvent
       /\ OnTheWay(state.decoder, p, values, wire)
    \/ p = Len(bytes) /\ state.event = DecodedPacket(values)

LEMMA NextProgress ==
    ASSUME NEW values, WholeFrame(values), NEW wire, IsWireOf(wire, values),
           NEW current \in Decoders, NEW p \in Nat,
           p < Len(wire[Len(values)]), OnTheWay(current, p, values, wire)
    PROVE  Progress(Push(current, wire[Len(values)][p + 1]), p + 1, values, wire)
  <1> DEFINE bytes  == wire[Len(values)]
             result == Push(current, bytes[p + 1])
  <1> HIDE DEF bytes, result
  <1>1. SUFFICES \/ /\ p + 1 < Len(bytes) /\ result.event = NoEvent
                    /\ Along(result.decoder, p + 1, values, wire)
                 \/ p + 1 = Len(bytes) /\ result.event = DecodedPacket(values)
    BY Zenon DEF Progress, OnTheWay, bytes, result
  <1>2. CASE Along(current, p, values, wire)
    BY <1>2, NextByte DEF bytes, result
  <1>3. CASE p = 0
    <2>1. /\ Len(values) \in Nat /\ Len(values) >= 3
          /\ 0 \in 0 .. Len(values) /\ 1 \in 1 .. Len(values) /\ 1 - 1 = 0
          /\ 1 \in 0 .. Len(values)
      BY DEF WholeFrame
    <2>2. wire[0] = <<Sync>> /\ Len(wire[0]) = 1 /\ wire[0][1] = Sync
      BY DEF IsWireOf
    <2>3. \A k \in 1 .. Len(wire[0]) : bytes[k] = wire[0][k]
      BY <2>1, WirePrefix DEF bytes
    <2>4. bytes[p + 1] = Sync
      BY <1>3, <2>2, <2>3
    <2>5. result = [decoder |-> AtAddress, event |-> NoEvent]
      BY <2>4, Zenon DEF result, Push
    <2>6. SubSeq(values, 1, 0) = <<>>
      OBVIOUS
    <2>7. AtValue(AtAddress, 1, values, wire, 1)
      BY <2>1, <2>2, <2>6, FreshDecoders DEF AtValue
    <2>8. Along(AtAddress, p + 1, values, wire)
      BY <1>3, <2>1, <2>7 DEF Along
    <2>9. p + 1 < Len(bytes)
      <3>1. Extends(wire[1], wire[1 - 1], Escaped(values[1]))
        BY <2>1, WireGrows
      <3>2. Extends(wire[1], wire[0], Escaped(values[1]))
        BY <2>1, <3>1, Zenon
      <3>3. Len(wire[1]) = 1 + Len(Escaped(values[1])) /\ Len(Escaped(values[1])) \in {1, 2}
        BY <2>2, <3>2, Zenon DEF Extends
      <3>4. Len(wire[1]) <= Len(bytes) /\ Len(wire[1]) \in Nat
        BY <2>1, WirePrefix DEF bytes
      <3>5. Len(bytes) \in Nat
        BY <2>1, WireAt DEF bytes
      <3> DEFINE a == Len(wire[1])  b == Len(Escaped(values[1]))  c == Len(bytes)
      <3>6. a = 1 + b /\ b \in {1, 2} /\ a <= c /\ c \in Nat /\ p = 0
        BY <1>3, <3>3, <3>4, <3>5
      <3> HIDE DEF a, b, c
      <3>7. p + 1 < c
        BY <3>6
      <3>8. QED  BY <3>7 DEF c
    <2>10. result.decoder = AtAddress /\ result.event = NoEvent
      BY <2>5
    <2>11. QED  BY <2>8, <2>9, <2>10, Zenon
  <1>4. QED  BY <1>2, <1>3, Zenon DEF OnTheWay

(* A write hands the decoder more bytes of a frame: it takes them all and  *)
(* comes along, or, with the last of them, to the packet.                  *)
LEMMA ConsumedAlong ==
    ASSUME NEW values, WholeFrame(values), NEW wire, IsWireOf(wire, values),
           NEW current \in Decoders, NEW p \in Nat,
           NEW bytes, NEW N \in Nat, Len(bytes) = N,
           N > 0, p + N <= Len(wire[Len(values)]),
           OnTheWay(current, p, values, wire),
           \A k \in 1 .. N : bytes[k] \in Byte /\ bytes[k] = wire[Len(values)][p + k]
    PROVE  /\ Progress(Consumed(current, bytes), p + N, values, wire)
           /\ Consumed(current, bytes).rest = <<>>
           /\ Consumed(current, bytes).decoder \in Decoders
  <1> DEFINE whole == wire[Len(values)]
  <1> HIDE DEF whole
  <1>a. PICK f : Pushes(f, N, current, bytes)
    BY ConsumedSteps
  <1>1. /\ \A i \in 0 .. N : f[i] \in Pushed
        /\ f[0] = Start(current)
        /\ \A i \in 1 .. N : f[i] = PushNext(f[i - 1], bytes[i], i)
        /\ Consumed(current, bytes) =
              [decoder |-> f[N].decoder, event |-> f[N].event,
               rest |-> SubSeq(bytes, f[N].taken + 1, N)]
    BY <1>a, Zenon DEF Pushes
  <1>2. Len(whole) \in Nat
    <2>1. Len(values) \in 1 .. Len(values)
      BY DEF WholeFrame
    <2>2. QED  BY <2>1, WireAt DEF whole
  <1> DEFINE Here(n) == f[n].taken = n /\ Progress(f[n], p + n, values, wire)
             P == {n \in 0 .. N : Here(n)}
  <1> HIDE DEF Here, P
  <1>3. Here(0)
    <2>1. /\ f[0].taken = 0 /\ f[0].event = NoEvent /\ f[0].decoder = current
          /\ p + 0 = p
      BY <1>1 DEF Start
    <2>2. p < Len(whole)
      BY <1>2 DEF whole
    <2>3. QED  BY <2>1, <2>2, Zenon DEF Here, Progress, whole
  <1>4. ASSUME NEW n \in 0 .. N - 1, Here(n)
        PROVE  Here(n + 1)
    <2>1. /\ n + 1 \in 1 .. N /\ (n + 1) - 1 = n /\ n \in 0 .. N
          /\ p + n \in Nat /\ p + n < Len(whole) /\ p + n # Len(whole)
          /\ p + (n + 1) = (p + n) + 1
      BY <1>2 DEF whole
    <2>2. f[n].event = NoEvent /\ OnTheWay(f[n].decoder, p + n, values, wire)
      BY <1>4, <2>1, Zenon DEF Here, Progress, whole
    <2>3. f[n].decoder \in Decoders
      BY <1>1, <2>1 DEF Pushed
    <2> DEFINE result == Push(f[n].decoder, whole[(p + n) + 1])
    <2> HIDE DEF result
    <2>4. Progress(result, (p + n) + 1, values, wire)
      BY <2>1, <2>2, <2>3, NextProgress DEF whole, result
    <2>5. bytes[n + 1] = whole[(p + n) + 1]
      BY <2>1 DEF whole
    <2>6. f[n + 1] = PushNext(f[n], bytes[n + 1], n + 1)
      BY <1>1, <2>1
    <2>7. ~(f[n].event.kind # "none")
      BY <2>2 DEF NoEvent
    <2>8. f[n + 1] = [decoder |-> result.decoder, event |-> result.event,
                      taken |-> n + 1]
      BY <2>5, <2>6, <2>7, Zenon DEF PushNext, result
    <2>9. /\ f[n + 1].decoder = result.decoder
          /\ f[n + 1].event = result.event
          /\ f[n + 1].taken = n + 1
      BY <2>8
    <2>10. QED  BY <2>1, <2>4, <2>9, Zenon DEF Here, Progress
  <1>5. \A n \in 0 .. N : n \in P
    <2>1. 0 \in P
      BY <1>3 DEF P
    <2>2. \A n \in 0 .. N - 1 : n \in P => n + 1 \in P
      BY <1>4 DEF P
    <2>3. QED  BY <2>1, <2>2, Segment, Zenon
  <1>6. Here(N) /\ f[N] \in Pushed
    BY <1>1, <1>5 DEF P
  <1>7. SubSeq(bytes, N + 1, N) = <<>>
    BY SubSeqEmpty
  <1> DEFINE c == Consumed(current, bytes)
  <1> HIDE DEF c
  <1>8. c.decoder = f[N].decoder /\ c.event = f[N].event /\ c.rest = <<>>
    BY <1>1, <1>6, <1>7 DEF Here, c
  <1>9. QED  BY <1>6, <1>8, Zenon DEF Here, Progress, c, Pushed

LEMMA EncodedBytes ==
    ASSUME NEW address \in Byte, NEW payload \in Seq(Byte), Len(payload) <= 254
    PROVE  LET values == FrameValues(address, payload)
               bytes  == EncodePacket(address, payload)
           IN  /\ bytes \in Seq(Byte) /\ Len(bytes) \in Nat /\ Len(bytes) > 0
               /\ WholeFrame(values)
               /\ \E wire : IsWireOf(wire, values) /\ bytes = wire[Len(values)]
  <1> DEFINE values == FrameValues(address, payload)
             bytes  == EncodePacket(address, payload)
  <1> HIDE DEF values, bytes
  <1>1. WholeFrame(values)
    BY FrameIsWhole DEF values
  <1>2. PICK wire : IsWireOf(wire, values) /\ Wire(values) = wire[Len(values)]
    BY <1>1, WireExists
  <1>3. bytes = wire[Len(values)]
    BY <1>2, Zenon DEF bytes, values, EncodePacket
  <1>4. 1 \in 1 .. Len(values) /\ 1 \in 0 .. Len(values)
    BY <1>1 DEF WholeFrame
  <1>5. /\ bytes \in Seq(Byte)
        /\ Len(wire[1]) <= Len(bytes) /\ Len(wire[1]) \in Nat
    BY <1>1, <1>2, <1>3, <1>4, WirePrefix
  <1>6. /\ Len(wire[1]) = Len(wire[1 - 1]) + 1 \/ Len(wire[1]) = Len(wire[1 - 1]) + 2
        /\ Len(wire[1 - 1]) \in Nat /\ Len(bytes) \in Nat
    BY <1>1, <1>2, <1>3, <1>4, WireAt
  <1>7. Len(bytes) > 0
    BY <1>5, <1>6
  <1>8. QED  BY <1>1, <1>2, <1>3, <1>5, <1>6, <1>7, Zenon DEF values, bytes

(* Decoding undoes encoding, whatever the decoder was doing: a frame sent  *)
(* whole is one packet, the one that was framed, and its last byte is the  *)
(* last the decoder takes (Encoder.cpp, Decoder.cpp).                      *)
THEOREM EncodedFrameDecodes ==
    ASSUME NEW address \in Byte, NEW payload \in Seq(Byte), Len(payload) <= 254,
           NEW current \in Decoders
    PROVE  LET c == Consumed(current, EncodePacket(address, payload))
           IN  /\ c.event = [kind |-> "packet", address |-> address,
                             payload |-> payload]
               /\ c.rest = <<>>
  <1> DEFINE values == FrameValues(address, payload)
             bytes  == EncodePacket(address, payload)
             c == Consumed(current, bytes)
  <1> HIDE DEF values, bytes, c
  <1>1. /\ bytes \in Seq(Byte) /\ Len(bytes) \in Nat /\ Len(bytes) > 0
        /\ WholeFrame(values)
        /\ \E wire : IsWireOf(wire, values) /\ bytes = wire[Len(values)]
    BY EncodedBytes, Zenon DEF values, bytes
  <1>2. PICK wire : IsWireOf(wire, values) /\ bytes = wire[Len(values)]
    BY <1>1
  <1>3. /\ \A k \in 1 .. Len(bytes) :
              bytes[k] \in Byte /\ bytes[k] = wire[Len(values)][0 + k]
        /\ 0 + Len(bytes) = Len(bytes)
        /\ 0 + Len(bytes) <= Len(wire[Len(values)])
    BY <1>1, <1>2
  <1>4. OnTheWay(current, 0, values, wire)
    BY DEF OnTheWay
  <1>5. Progress(c, 0 + Len(bytes), values, wire) /\ c.rest = <<>>
    <2>1. 0 \in Nat  OBVIOUS
    <2> DEFINE N == Len(bytes)
    <2>2. /\ N \in Nat /\ N > 0 /\ Len(bytes) = N /\ WholeFrame(values)
          /\ IsWireOf(wire, values)
      BY <1>1, <1>2
    <2>3. /\ 0 + N <= Len(wire[Len(values)])
          /\ \A k \in 1 .. N :
                bytes[k] \in Byte /\ bytes[k] = wire[Len(values)][0 + k]
      BY <1>3
    <2> HIDE DEF N
    <2>4. /\ Progress(Consumed(current, bytes), 0 + N, values, wire)
          /\ Consumed(current, bytes).rest = <<>>
      BY <1>4, <2>1, <2>2, <2>3, ConsumedAlong, Zenon
    <2>5. QED  BY <2>4 DEF c, N
  <1>6. ~(0 + Len(bytes) < Len(wire[Len(values)]))
    BY <1>1, <1>2
  <1>7. c.event = DecodedPacket(values)
    BY <1>5, <1>6, Zenon DEF Progress
  <1>8. DecodedPacket(values) =
           [kind |-> "packet", address |-> address, payload |-> payload]
    BY FrameIsWhole DEF values
  <1>9. QED  BY <1>5, <1>7, <1>8, Zenon DEF c, bytes

LEMMA ReplyIsOne ==
    ASSUME NEW payload \in Seq(Byte), Len(payload) <= 254
    PROVE  IsOneReply(EncodePacket(0, payload))
  <1> DEFINE c == Consumed(Seeking, EncodePacket(0, payload))
  <1> HIDE DEF c
  <1>1. 0 \in Byte /\ Seeking \in Decoders
    BY FreshDecoders DEF Byte
  <1>2. /\ c.event = [kind |-> "packet", address |-> 0, payload |-> payload]
        /\ c.rest = <<>>
    BY <1>1, EncodedFrameDecodes, Zenon DEF c
  <1>3. c.event.kind = "packet" /\ c.event.address = 0
    BY <1>2
  <1>4. QED  BY <1>2, <1>3, Zenon DEF c, IsOneReply

(* What is left of bytes that were not of one frame.                       *)
LEMMA ConsumedType ==
    ASSUME NEW current \in Decoders, NEW bytes \in Seq(Byte)
    PROVE  LET c == Consumed(current, bytes)
           IN  c.decoder \in Decoders /\ c.event \in Events /\ c.rest \in Seq(Byte)
  <1> DEFINE N == Len(bytes)
             c == Consumed(current, bytes)
  <1> HIDE DEF N, c
  <1>1. N \in Nat /\ \A i \in 1 .. N : bytes[i] \in Byte
    <2>1. Len(bytes) \in Nat /\ \A i \in 1 .. Len(bytes) : bytes[i] \in Byte
      OBVIOUS
    <2>2. QED  BY <2>1 DEF N
  <1>2. PICK f : Pushes(f, N, current, bytes)
    BY <1>1, ConsumedSteps DEF N
  <1>3. f[N] \in Pushed
    <2>1. N \in 0 .. N
      BY <1>1
    <2>2. QED  BY <1>2, <2>1, Zenon DEF Pushes
  <1>4. /\ c.decoder = f[N].decoder /\ c.event = f[N].event
        /\ c.rest = SubSeq(bytes, f[N].taken + 1, N)
    <2>1. c = [decoder |-> f[N].decoder, event |-> f[N].event,
               rest |-> SubSeq(bytes, f[N].taken + 1, N)]
      BY <1>2, Zenon DEF Pushes, c
    <2>2. QED  BY <2>1
  <1>5. /\ f[N].decoder \in Decoders /\ f[N].event \in Events
        /\ f[N].taken \in Nat
    BY <1>3 DEF Pushed
  <1>6. \A i \in f[N].taken + 1 .. N : bytes[i] \in Byte
    BY <1>1, <1>5
  <1>7. SubSeq(bytes, f[N].taken + 1, N) \in Seq(Byte)
    BY <1>1, <1>5, <1>6, SubSeqProperties
  <1>8. QED  BY <1>4, <1>5, <1>7, Zenon DEF c

-----------------------------------------------------------------------------
(* JvsDevice.                                                              *)
(* The packet under way, and the reply it has so far.                      *)
Replies == {reply \in Seq(Byte) : Len(reply) \in 1 .. kMaxPayloadSize}
Executions ==
    [at : {"run", "card", "done"}, broadcast : BOOLEAN, rest : Seq(Byte),
     alone : BOOLEAN, reply : Replies, required : BOOLEAN,
     retransmit : BOOLEAN, taken : Nat]

ExecInv == exec.at = "idle" \/ exec \in Executions
BusInv  == coins \in [Slots -> 0 .. kMaximumCoinCount]

(* The scan that waits is the newest; one that was taken stands in a reply *)
(* with its own data; and one being taken is not newer than the newest.    *)
ScanInv ==
    /\ scan.generation \in Nat /\ scan.present \in BOOLEAN
    /\ DOMAIN scan = {"present", "card_data", "generation"}
    /\ scan.card_data \in Cards \cup {NoData}
    /\ scan.present => scan.card_data = armed
    /\ ~scan.present /\ scan.generation > 0 =>
          /\ handed.generation = scan.generation
          /\ armed # NoData => handed.card_data = armed
    /\ exec.at = "card" =>
          /\ exec.taken \in Nat /\ exec.taken <= scan.generation
          /\ handed.generation = exec.taken
          /\ exec.taken = scan.generation /\ armed # NoData =>
                handed.card_data = armed

DeviceInv == ExecInv /\ BusInv /\ ScanInv

LEMMA Answers ==
    /\ ok \in Byte /\ unknown_command \in Byte /\ checksum_error \in Byte
    /\ acknowledgement_overflow \in Byte /\ invalid_input_parameter \in Byte
    /\ invalid_output_parameter \in Byte /\ 0 \in Byte /\ 1 \in Byte /\ 25 \in Byte
  <1>1. \A n \in {0, 1, 2, 3, 4, 25} : n \in Nat /\ n <= 255
    OBVIOUS
  <1>2. \A n \in {0, 1, 2, 3, 4, 25} : n \in Byte
    BY <1>1, ByteValues, Zenon
  <1>3. QED  BY <1>2 DEF ok, unknown_command, checksum_error, acknowledgement_overflow,
                invalid_input_parameter, invalid_output_parameter

LEMMA ShortBytes ==
    /\ \A a \in Byte : <<a>> \in Seq(Byte) /\ <<a>> \in Replies
    /\ \A a, b \in Byte : <<a, b>> \in Seq(Byte)
    /\ \A s, t \in Seq(Byte) : s \o t \in Seq(Byte)
    /\ \A s \in Seq(Byte) : Len(s) \in Nat
  <1>1. 1 \in 1 .. kMaxPayloadSize
    BY DeviceAssumption
  <1>2. \A a \in Byte : <<a>> \in Seq(Byte) /\ Len(<<a>>) = 1
    OBVIOUS
  <1>3. \A s, t \in Seq(Byte) : s \o t \in Seq(Byte)
    BY ConcatProperties
  <1>4. QED  BY <1>1, <1>2, <1>3 DEF Replies

LEMMA FieldsOf ==
    ASSUME NEW e \in Executions
    PROVE  /\ e.rest \in Seq(Byte) /\ e.reply \in Replies /\ e.at # "idle"
           /\ e.reply \in Seq(Byte) /\ Len(e.reply) \in 1 .. kMaxPayloadSize
           /\ [e EXCEPT !.at = "done"] \in Executions
           /\ [e EXCEPT !.at = "run"] \in Executions
           /\ [e EXCEPT !.at = "done"].at = "done"
           /\ [e EXCEPT !.at = "run"].at = "run"
           /\ [e EXCEPT !.retransmit = TRUE, !.at = "done"] \in Executions
           /\ [e EXCEPT !.retransmit = TRUE, !.at = "done"].at = "done"
           /\ \A rest \in Seq(Byte) :
                 /\ [e EXCEPT !.rest = rest] \in Executions
                 /\ [e EXCEPT !.rest = rest].at = e.at
  BY DEF Executions, Replies

LEMMA RestOf ==
    ASSUME NEW s \in Seq(Byte), NEW n \in Nat
    PROVE  SubSeq(s, n + 1, Len(s)) \in Seq(Byte)
  <1>1. Len(s) \in Nat /\ \A i \in n + 1 .. Len(s) : s[i] \in Byte
    <2>1. Len(s) \in Nat /\ \A i \in 1 .. Len(s) : s[i] \in Byte
      OBVIOUS
    <2>2. \A i \in n + 1 .. Len(s) : i \in 1 .. Len(s)
      BY <2>1
    <2>3. QED  BY <2>1, <2>2
  <1>2. QED  BY <1>1, SubSeqProperties

LEMMA ReportedType ==
    ASSUME NEW e \in Executions, NEW taken \in Nat, NEW bytes \in Seq(Byte)
    PROVE  /\ Reported(e, taken, bytes) \in Executions
           /\ Reported(e, taken, bytes).at \in {e.at, "done"}
           /\ [Reported(e, taken, bytes) EXCEPT !.at = "done"] \in Executions
           /\ [Reported(e, taken, bytes) EXCEPT !.at = "done"].at = "done"
  <1> DEFINE left == SubSeq(e.rest, taken + 2, Len(e.rest))
             next == [e EXCEPT !.rest = SubSeq(@, taken + 2, Len(@)), !.required = TRUE]
             longer == e.reply \o bytes
  <1> HIDE DEF left, next, longer
  <1>1. left \in Seq(Byte)
    <2>1. taken + 1 \in Nat /\ (taken + 1) + 1 = taken + 2
      OBVIOUS
    <2>2. QED  BY <2>1, RestOf, FieldsOf DEF left
  <1>2. next \in Executions /\ next.at = e.at /\ next.reply = e.reply
    <2>1. next = [e EXCEPT !.rest = left, !.required = TRUE]
      BY DEF next, left
    <2>2. QED  BY <1>1, <2>1 DEF Executions
  <1>3. \A reply \in Replies :
           /\ [next EXCEPT !.reply = reply] \in Executions
           /\ [next EXCEPT !.reply = reply].at = e.at
           /\ [next EXCEPT !.reply = reply, !.at = "done"] \in Executions
           /\ [next EXCEPT !.reply = reply, !.at = "done"].at = "done"
    BY <1>2 DEF Executions
  <1>5. /\ longer \in Seq(Byte) /\ Len(longer) = Len(e.reply) + Len(bytes)
        /\ Len(bytes) \in Nat /\ Len(e.reply) \in 1 .. kMaxPayloadSize
    <2>1. e.reply \in Seq(Byte) /\ Len(e.reply) \in 1 .. kMaxPayloadSize
      BY FieldsOf
    <2>2. /\ e.reply \o bytes \in Seq(Byte)
          /\ Len(e.reply \o bytes) = Len(e.reply) + Len(bytes)
          /\ Len(bytes) \in Nat
      BY <2>1, ConcatProperties
    <2>3. QED  BY <2>1, <2>2 DEF longer
  <1>4. Len(longer) <= kMaxPayloadSize => longer \in Replies
    <2>1. /\ longer \in Seq(Byte) /\ Len(longer) = Len(e.reply) + Len(bytes)
          /\ Len(bytes) \in Nat /\ Len(e.reply) \in 1 .. kMaxPayloadSize
      BY <1>5
    <2>2. kMaxPayloadSize \in Nat
      BY DeviceAssumption
    <2>3. Len(longer) \in Nat /\ Len(longer) >= 1
      BY <2>1, <2>2
    <2>4. QED  BY <2>1, <2>2, <2>3 DEF Replies
  <1>6. <<acknowledgement_overflow>> \in Replies
    BY Answers, ShortBytes
  <1>7. \/ /\ longer \in Replies
           /\ Reported(e, taken, bytes) = [next EXCEPT !.reply = longer]
        \/ Reported(e, taken, bytes) =
              [next EXCEPT !.reply = <<acknowledgement_overflow>>, !.at = "done"]
    <2>1. CASE Len(e.reply) + Len(bytes) <= kMaxPayloadSize
      <3>1. Reported(e, taken, bytes) = [next EXCEPT !.reply = @ \o bytes]
        BY <2>1, Zenon DEF Reported, next
      <3>2. [next EXCEPT !.reply = @ \o bytes] = [next EXCEPT !.reply = longer]
        BY <1>2 DEF longer
      <3>3. QED  BY <1>4, <1>5, <2>1, <3>1, <3>2
    <2>2. CASE ~(Len(e.reply) + Len(bytes) <= kMaxPayloadSize)
      BY <2>2, Zenon DEF Reported, next
    <2>3. QED  BY <2>1, <2>2
  <1>8. Reported(e, taken, bytes) \in Executions
        /\ Reported(e, taken, bytes).at \in {e.at, "done"}
    BY <1>3, <1>6, <1>7
  <1>9. QED  BY <1>8, FieldsOf

(* A step of a packet that neither begins nor ends the transfer of a card. *)
LEMMA QuietStep ==
    ASSUME DeviceInv, exec' \in Executions, exec'.at # "card", BusInv',
           UNCHANGED <<scanVars, handed>>
    PROVE  DeviceInv'
  BY DEF DeviceInv, ExecInv, ScanInv, scanVars

LEMMA Running ==
    ASSUME DeviceInv, exec.at = "run"
    PROVE  exec \in Executions
  BY DEF DeviceInv, ExecInv

LEMMA ParametersType ==
    ASSUME DeviceInv, exec.at = "run", exec.rest # <<>>
    PROVE  /\ Parameters \in Seq(Byte) /\ Len(Parameters) \in Nat
           /\ Head(exec.rest) \in Byte
           /\ \A i \in 1 .. Len(Parameters) : Parameters[i] \in Byte
           /\ Has(1) => Parameters[1] \in Byte
           /\ Has(2) => Parameters[2] \in Byte
           /\ Has(3) => Parameters[3] \in Byte
  <1>1. exec.rest \in Seq(Byte)
    BY Running, FieldsOf
  <1>2. /\ Parameters \in Seq(Byte) /\ Head(exec.rest) \in Byte
    BY <1>1, HeadTailProperties DEF Parameters
  <1> HIDE DEF Parameters
  <1>3. /\ Len(Parameters) \in Nat
        /\ \A i \in 1 .. Len(Parameters) : Parameters[i] \in Byte
    BY <1>2
  <1>4. QED  BY <1>2, <1>3 DEF Has

(* What a command may make of the packet: a report, a refusal, its end.    *)
Answered == exec' \in Executions /\ exec'.at \in {"run", "done"}

LEMMA ReportAnswers ==
    ASSUME DeviceInv, exec.at = "run", NEW taken \in Nat, NEW bytes \in Seq(Byte),
           Report(taken, bytes)
    PROVE  Answered
  <1>1. exec \in Executions
    BY Running
  <1>2. /\ Reported(exec, taken, bytes) \in Executions
        /\ Reported(exec, taken, bytes).at \in {exec.at, "done"}
    BY <1>1, ReportedType
  <1>3. QED  BY <1>2 DEF Report, Answered

LEMMA EndWithAnswers ==
    ASSUME DeviceInv, exec.at = "run", NEW report \in Byte, EndWith(report)
    PROVE  Answered
  <1>1. exec \in Executions /\ <<report>> \in Seq(Byte) /\ 0 \in Nat
    BY Running, ShortBytes
  <1>2. /\ [Reported(exec, 0, <<report>>) EXCEPT !.at = "done"] \in Executions
        /\ [Reported(exec, 0, <<report>>) EXCEPT !.at = "done"].at = "done"
    BY <1>1, ReportedType
  <1>3. QED  BY <1>2, Zenon DEF EndWith, Answered

LEMMA RefuseAnswers ==
    ASSUME DeviceInv, exec.at = "run", Refuse
    PROVE  Answered
  <1> DEFINE reply == [exec.reply EXCEPT ![1] = unknown_command]
  <1> HIDE DEF reply
  <1>1. exec \in Executions
    BY Running
  <1>2. /\ exec.reply \in Seq(Byte) /\ Len(exec.reply) \in 1 .. kMaxPayloadSize
        /\ kMaxPayloadSize \in Nat
    <2>1. exec.reply \in Seq(Byte) /\ Len(exec.reply) \in 1 .. kMaxPayloadSize
      BY <1>1, FieldsOf
    <2>2. QED  BY <2>1, DeviceAssumption
  <1>3. 1 \in 1 .. Len(exec.reply) /\ unknown_command \in Byte
    BY <1>2, Answers
  <1>4. reply \in Seq(Byte) /\ Len(reply) = Len(exec.reply)
    BY <1>2, <1>3, ExceptSeq DEF reply
  <1>5. reply \in Replies
    BY <1>2, <1>4 DEF Replies
  <1>6. exec' = [exec EXCEPT !.reply = reply, !.required = TRUE, !.at = "done"]
    BY <1>1 DEF Refuse, reply, Executions
  <1>7. [exec EXCEPT !.reply = reply, !.required = TRUE, !.at = "done"] \in Executions
        /\ [exec EXCEPT !.reply = reply, !.required = TRUE, !.at = "done"].at = "done"
    BY <1>1, <1>5 DEF Executions
  <1>8. QED  BY <1>6, <1>7, Zenon DEF Answered

LEMMA FinishAnswers ==
    ASSUME DeviceInv, exec.at = "run", Finish
    PROVE  Answered
  BY Running, FieldsOf DEF Finish, Answered

LEMMA AnsweredStep ==
    ASSUME DeviceInv, Answered, BusInv', UNCHANGED <<scanVars, handed>>
    PROVE  DeviceInv'
  <1>1. exec' \in Executions /\ exec'.at # "card"
    BY DEF Answered
  <1>2. QED  BY <1>1, QuietStep

LEMMA BusKept ==
    ASSUME DeviceInv, UNCHANGED coins
    PROVE  BusInv'
  BY DEF DeviceInv, BusInv

-----------------------------------------------------------------------------
(* Every command keeps it.                                                 *)
LEMMA EndOfPacketKeeps ==
    ASSUME DeviceInv, EndOfPacket  PROVE DeviceInv'
  BY FinishAnswers, AnsweredStep, BusKept DEF EndOfPacket, busVars

LEMMA TaitoCommandKeeps ==
    ASSUME DeviceInv, TaitoCommand  PROVE DeviceInv'
  <1>1. exec.at = "run" /\ exec.rest # <<>> /\ Head(exec.rest) \in {1, 3, 4, 5}
    BY DEF TaitoCommand, Commands, Command, TaitoParameters
  <1>2. TaitoParameters[Head(exec.rest)] \in Nat
    BY <1>1 DEF TaitoParameters
  <1>3. Len(Parameters) \in Nat
    BY <1>1, ParametersType
  <1>4. /\ <<invalid_input_parameter>> \in Seq(Byte)
        /\ <<ok>> \in Seq(Byte) /\ <<ok, 1>> \in Seq(Byte)
    BY Answers, ShortBytes
  <1>5. \/ Report(Len(Parameters), <<invalid_input_parameter>>)
        \/ Report(TaitoParameters[Head(exec.rest)], <<ok, 1>>)
        \/ Report(TaitoParameters[Head(exec.rest)], <<ok>>)
    BY Zenon DEF TaitoCommand
  <1>6. Answered
    BY <1>1, <1>2, <1>3, <1>4, <1>5, ReportAnswers
  <1>7. QED  BY <1>6, AnsweredStep, BusKept DEF TaitoCommand, busVars

LEMMA ResetKeeps ==
    ASSUME DeviceInv, Reset  PROVE DeviceInv'
  <1>1. exec.at = "run"
    BY DEF Reset, Command
  <1>2. UNCHANGED <<scanVars, handed>>
    BY DEF Reset
  <1>3. CASE Refuse /\ UNCHANGED busVars
    BY <1>1, <1>2, <1>3, RefuseAnswers, AnsweredStep, BusKept DEF busVars
  <1>4. CASE Finish /\ UNCHANGED busVars
    BY <1>1, <1>2, <1>4, FinishAnswers, AnsweredStep, BusKept DEF busVars
  <1>5. CASE exec' = [exec EXCEPT !.rest = SubSeq(@, 3, Len(@))] /\ ResetBus
    <2>1. BusInv'
      BY <1>5 DEF ResetBus, BusInv, Slots, kMaximumCoinCount
    <2>2. exec \in Executions /\ 2 \in Nat /\ 2 + 1 = 3
      BY <1>1, Running
    <2>3. SubSeq(exec.rest, 3, Len(exec.rest)) \in Seq(Byte)
      BY <2>2, FieldsOf, RestOf
    <2>4. exec' = [exec EXCEPT !.rest = SubSeq(exec.rest, 3, Len(exec.rest))]
      BY <1>5
    <2>5. Answered
      BY <1>1, <2>2, <2>3, <2>4, FieldsOf DEF Answered
    <2>6. QED  BY <1>2, <2>1, <2>5, AnsweredStep
  <1>6. QED  BY <1>3, <1>4, <1>5, Zenon DEF Reset

LEMMA SetAddressKeeps ==
    ASSUME DeviceInv, SetAddress  PROVE DeviceInv'
  <1>1. exec.at = "run" /\ UNCHANGED <<scanVars, handed>>
    BY DEF SetAddress, Command
  <1>2. UNCHANGED coins
    BY DEF SetAddress, busVars
  <1>3. \/ Refuse \/ EndWith(invalid_input_parameter) \/ Report(1, <<ok>>)
    BY DEF SetAddress
  <1>4. 1 \in Nat /\ <<ok>> \in Seq(Byte) /\ invalid_input_parameter \in Byte
    BY Answers, ShortBytes
  <1>5. Answered
    BY <1>1, <1>3, <1>4, RefuseAnswers, EndWithAnswers, ReportAnswers
  <1>6. QED  BY <1>1, <1>2, <1>5, AnsweredStep, BusKept

LEMMA IdentifyKeeps ==
    ASSUME DeviceInv, Identify  PROVE DeviceInv'
  <1>1. /\ exec.at = "run" /\ UNCHANGED <<scanVars, handed>> /\ UNCHANGED coins
        /\ Head(exec.rest) \in DOMAIN Identity
        /\ Report(0, <<ok>> \o Identity[Head(exec.rest)])
    BY DEF Identify, Commands, Command, busVars
  <1>2. <<ok>> \in Seq(Byte) /\ Identity[Head(exec.rest)] \in Seq(Byte) /\ 0 \in Nat
    BY <1>1, Answers, ShortBytes, DeviceAssumption
  <1>3. <<ok>> \o Identity[Head(exec.rest)] \in Seq(Byte)
    BY <1>2, ConcatProperties
  <1>4. Answered
    BY <1>1, <1>2, <1>3, ReportAnswers
  <1>5. QED  BY <1>1, <1>4, AnsweredStep, BusKept

LEMMA ZerosType ==
    ASSUME NEW n \in Nat
    PROVE  Zeros(n) \in Seq(Byte)
  <1>1. 0 \in Byte
    BY Answers
  <1>2. QED  BY <1>1 DEF Zeros

(* The two bytes of a count of coins.                                      *)
LEMMA CountBytes ==
    ASSUME NEW n \in Nat, n <= 16383
    PROVE  n \div 256 \in Byte /\ n % 256 \in Byte
  <1> DEFINE high == n \div 256  low == n % 256
  <1>1. high \in Nat /\ high <= 255 /\ low \in Byte
    <2>1. high \in Nat
      OBVIOUS
    <2>2. high <= 255
      OBVIOUS
    <2>3. low \in Byte
      BY ByteValues
    <2>4. QED  BY <2>1, <2>2, <2>3
  <1> HIDE DEF high, low
  <1>2. high \in Byte
    BY <1>1, ByteValues
  <1>3. QED  BY <1>1, <1>2 DEF high, low

LEMMA CoinBytesType ==
    ASSUME DeviceInv, NEW slots \in Slots
    PROVE  CoinBytes(slots) \in Seq(Byte)
  <1> DEFINE N == 2 * slots
  <1>1. N \in Nat
    BY DEF Slots
  <1>2. \A i \in 1 .. N : (i + 1) \div 2 \in Slots
    <2>1. \A i \in 1 .. 4 : (i + 1) \div 2 \in 1 .. 2
      OBVIOUS
    <2>2. slots \in {1, 2}
      BY DEF Slots
    <2>3. \A i \in 1 .. N : i \in 1 .. 4
      BY <2>2
    <2>4. QED  BY <2>1, <2>3 DEF Slots
  <1> HIDE DEF N
  <1>3. \A slot \in Slots : coins[slot] \in Nat /\ coins[slot] <= 16383
    <2>1. \A slot \in Slots : coins[slot] \in 0 .. kMaximumCoinCount
      BY DEF DeviceInv, BusInv
    <2>2. ASSUME NEW slot \in Slots PROVE coins[slot] \in Nat /\ coins[slot] <= 16383
      <3> DEFINE count == coins[slot]
      <3>1. count \in 0 .. kMaximumCoinCount
        BY <2>1
      <3> HIDE DEF count
      <3>2. count \in Nat /\ count <= 16383
        BY <3>1 DEF kMaximumCoinCount
      <3>3. QED  BY <3>2 DEF count
    <2>3. QED  BY <2>2
  <1>4. ASSUME NEW i \in 1 .. N
        PROVE  (IF i % 2 = 1 THEN coins[(i + 1) \div 2] \div 256
                             ELSE coins[(i + 1) \div 2] % 256) \in Byte
    <2> DEFINE slot == (i + 1) \div 2  value == coins[slot]
    <2>1. slot \in Slots
      BY <1>2
    <2> HIDE DEF slot
    <2>2. value \in Nat /\ value <= 16383
      BY <1>3, <2>1
    <2> HIDE DEF value
    <2>3. value \div 256 \in Byte /\ value % 256 \in Byte
      BY <2>2, CountBytes
    <2>4. (IF i % 2 = 1 THEN value \div 256 ELSE value % 256) \in Byte
      BY <2>3
    <2>5. QED  BY <2>4 DEF value, slot
  <1>5. CoinBytes(slots) =
           [i \in 1 .. N |-> IF i % 2 = 1 THEN coins[(i + 1) \div 2] \div 256
                                          ELSE coins[(i + 1) \div 2] % 256]
    BY Zenon DEF CoinBytes, N
  <1>6. QED  BY <1>1, <1>4, <1>5

LEMMA ReadSwitchesKeeps ==
    ASSUME DeviceInv, ReadSwitches  PROVE DeviceInv'
  <1>1. /\ exec.at = "run" /\ UNCHANGED <<scanVars, handed>> /\ UNCHANGED coins
        /\ exec.rest # <<>>
    BY DEF ReadSwitches, Command, busVars
  <1>2. CASE EndWith(invalid_input_parameter)
    BY <1>1, <1>2, Answers, EndWithAnswers, AnsweredStep, BusKept
  <1>3. CASE Report(2, <<invalid_input_parameter>>)
    <2>1. 2 \in Nat /\ <<invalid_input_parameter>> \in Seq(Byte)
      BY Answers, ShortBytes
    <2>2. QED  BY <1>1, <1>3, <2>1, ReportAnswers, AnsweredStep, BusKept
  <1>4. CASE /\ Parameters[1] \in 1 .. 2 /\ Parameters[2] \in 1 .. 2
             /\ Report(2, <<ok, 0>> \o Zeros(Parameters[1] * Parameters[2]))
    <2>1. Parameters[1] * Parameters[2] \in Nat /\ 2 \in Nat
      <3>1. \A a, b \in 1 .. 2 : a * b \in Nat
        OBVIOUS
      <3>2. QED  BY <1>4, <3>1
    <2>2. <<ok, 0>> \o Zeros(Parameters[1] * Parameters[2]) \in Seq(Byte)
      BY <2>1, Answers, ShortBytes, ZerosType
    <2>3. QED  BY <1>1, <1>4, <2>1, <2>2, ReportAnswers, AnsweredStep, BusKept
  <1>5. QED  BY <1>2, <1>3, <1>4, Zenon DEF ReadSwitches

LEMMA ReadCoinsKeeps ==
    ASSUME DeviceInv, ReadCoins  PROVE DeviceInv'
  <1>1. /\ exec.at = "run" /\ UNCHANGED <<scanVars, handed>> /\ UNCHANGED coins
        /\ exec.rest # <<>>
    BY DEF ReadCoins, Command, busVars
  <1>2. CASE EndWith(invalid_input_parameter)
    BY <1>1, <1>2, Answers, EndWithAnswers, AnsweredStep, BusKept
  <1>3. CASE Report(1, <<invalid_input_parameter>>)
    <2>1. 1 \in Nat /\ <<invalid_input_parameter>> \in Seq(Byte)
      BY Answers, ShortBytes
    <2>2. QED  BY <1>1, <1>3, <2>1, ReportAnswers, AnsweredStep, BusKept
  <1>4. CASE /\ Parameters[1] \in Slots
             /\ Report(1, <<ok>> \o CoinBytes(Parameters[1]))
    <2>1. 1 \in Nat /\ <<ok>> \o CoinBytes(Parameters[1]) \in Seq(Byte)
      BY <1>4, Answers, ShortBytes, CoinBytesType
    <2>2. QED  BY <1>1, <1>4, <2>1, ReportAnswers, AnsweredStep, BusKept
  <1>5. QED  BY <1>2, <1>3, <1>4, Zenon DEF ReadCoins

LEMMA LessOf ==
    ASSUME NEW a \in Nat, NEW b \in Nat
    PROVE  /\ Min({a, b}) \in Nat /\ Min({a, b}) <= a /\ Min({a, b}) <= b
           /\ Min({a, b}) \in {a, b}
  <1>1. \E m \in {a, b} : \A x \in {a, b} : m <= x
    OBVIOUS
  <1>2. /\ Min({a, b}) \in {a, b}
        /\ \A x \in {a, b} : Min({a, b}) <= x
    BY <1>1, Zenon DEF Min
  <1>3. QED  BY <1>2

LEMMA ReadGeneralInputKeeps ==
    ASSUME DeviceInv, ReadGeneralInput  PROVE DeviceInv'
  <1>1. /\ exec.at = "run" /\ UNCHANGED <<scanVars, handed>> /\ UNCHANGED coins
        /\ exec.rest # <<>>
    BY DEF ReadGeneralInput, Command, busVars
  <1>2. CASE EndWith(invalid_input_parameter)
    BY <1>1, <1>2, Answers, EndWithAnswers, AnsweredStep, BusKept
  <1> DEFINE taken == 1 + Min({Parameters[1], Len(Parameters) - 1})
             bytes == [i \in 1 .. Parameters[1] |-> IF scan.present THEN 25 ELSE 0]
  <1> HIDE DEF taken, bytes
  <1>3. CASE Has(1) /\ Report(taken, <<ok>> \o bytes)
    <2>1. Parameters[1] \in Byte /\ Len(Parameters) \in Nat
      BY <1>1, <1>3, ParametersType
    <2>2. Parameters[1] \in Nat /\ Len(Parameters) - 1 \in Nat
      <3>1. Len(Parameters) >= 1
        BY <1>3 DEF Has
      <3>2. QED  BY <2>1, <3>1, ByteValues
    <2>3. taken \in Nat
      BY <2>2, LessOf DEF taken
    <2>4. 25 \in Byte /\ 0 \in Byte
      BY Answers
    <2>5. bytes \in Seq(Byte)
      BY <2>2, <2>4 DEF bytes
    <2>6. <<ok>> \o bytes \in Seq(Byte)
      BY <2>5, Answers, ShortBytes
    <2>7. QED  BY <1>1, <1>3, <2>3, <2>6, ReportAnswers, AnsweredStep, BusKept
  <1>4. QED  BY <1>2, <1>3, Zenon DEF ReadGeneralInput, taken, bytes

LEMMA RetransmitKeeps ==
    ASSUME DeviceInv, Retransmit  PROVE DeviceInv'
  <1>1. /\ exec.at = "run" /\ UNCHANGED <<scanVars, handed>> /\ UNCHANGED coins
    BY DEF Retransmit, Command, busVars
  <1>2. CASE exec' = [exec EXCEPT !.retransmit = TRUE, !.at = "done"]
    <2>1. Answered
      BY <1>1, <1>2, Running, FieldsOf DEF Answered
    <2>2. QED  BY <1>1, <2>1, AnsweredStep, BusKept
  <1>3. CASE Refuse
    BY <1>1, <1>3, RefuseAnswers, AnsweredStep, BusKept
  <1>4. QED  BY <1>2, <1>3, Zenon DEF Retransmit

LEMMA UnknownCommandKeeps ==
    ASSUME DeviceInv, UnknownCommand  PROVE DeviceInv'
  <1>1. /\ exec.at = "run" /\ UNCHANGED <<scanVars, handed>> /\ UNCHANGED coins
        /\ Refuse
    BY DEF UnknownCommand, Commands, Command, busVars
  <1>2. QED  BY <1>1, RefuseAnswers, AnsweredStep, BusKept

LEMMA ChangeCoinsKeeps ==
    ASSUME DeviceInv, ChangeCoins  PROVE DeviceInv'
  <1>1. /\ exec.at = "run" /\ UNCHANGED <<scanVars, handed>> /\ exec.rest # <<>>
    BY DEF ChangeCoins, Commands, Command
  <1>2. CASE EndWith(invalid_input_parameter) /\ UNCHANGED coins
    BY <1>1, <1>2, Answers, EndWithAnswers, AnsweredStep, BusKept
  <1>3. CASE Report(3, <<invalid_output_parameter>>) /\ UNCHANGED coins
    <2>1. 3 \in Nat /\ <<invalid_output_parameter>> \in Seq(Byte)
      BY Answers, ShortBytes
    <2>2. QED  BY <1>1, <1>3, <2>1, ReportAnswers, AnsweredStep, BusKept
  <1> DEFINE value == 256 * Parameters[2] + Parameters[3]
             count == coins[Parameters[1]]
             next == IF Head(exec.rest) = 48
                     THEN (IF value > count THEN 0 ELSE count - value)
                     ELSE Min({count + value, kMaximumCoinCount})
  <1> HIDE DEF value, count, next
  <1>4. CASE /\ Has(3) /\ Parameters[1] \in Slots
             /\ coins' = [coins EXCEPT ![Parameters[1]] = next]
             /\ Report(3, <<ok>>)
    <2>1. Parameters[2] \in Byte /\ Parameters[3] \in Byte
      <3>1. Has(2)
        <4>1. Len(Parameters) \in Nat
          BY <1>1, ParametersType
        <4>2. QED  BY <1>4, <4>1 DEF Has
      <3>2. QED  BY <1>1, <1>4, <3>1, ParametersType
    <2>2. value \in Nat
      <3>1. Parameters[2] \in Nat /\ Parameters[3] \in Nat
        BY <2>1, ByteValues
      <3>2. QED  BY <3>1 DEF value
    <2>3. count \in 0 .. kMaximumCoinCount /\ kMaximumCoinCount \in Nat
      <3>1. \A slot \in Slots : coins[slot] \in 0 .. kMaximumCoinCount
        BY DEF DeviceInv, BusInv
      <3>2. kMaximumCoinCount \in Nat
        BY DEF kMaximumCoinCount
      <3>3. QED  BY <1>4, <3>1, <3>2, Zenon DEF count
    <2>4. next \in 0 .. kMaximumCoinCount
      <3>1. count + value \in Nat
        BY <2>2, <2>3
      <3>2. /\ Min({count + value, kMaximumCoinCount}) \in Nat
            /\ Min({count + value, kMaximumCoinCount}) <= kMaximumCoinCount
        BY <2>3, <3>1, LessOf
      <3>3. ~(value > count) => count - value \in 0 .. kMaximumCoinCount
        BY <2>2, <2>3
      <3>4. 0 \in 0 .. kMaximumCoinCount
        BY <2>3
      <3>5. Min({count + value, kMaximumCoinCount}) \in 0 .. kMaximumCoinCount
        BY <2>3, <3>2
      <3>6. QED  BY <3>3, <3>4, <3>5, Zenon DEF next
    <2>5. BusInv'
      BY <1>4, <2>4 DEF DeviceInv, BusInv
    <2>6. 3 \in Nat /\ <<ok>> \in Seq(Byte)
      BY Answers, ShortBytes
    <2>7. QED  BY <1>1, <1>4, <2>5, <2>6, ReportAnswers, AnsweredStep
  <1>5. \/ EndWith(invalid_input_parameter) /\ UNCHANGED coins
        \/ Report(3, <<invalid_output_parameter>>) /\ UNCHANGED coins
        \/ /\ Has(3) /\ Parameters[1] \in Slots
           /\ coins' = [coins EXCEPT ![Parameters[1]] = next]
           /\ Report(3, <<ok>>)
    BY DEF ChangeCoins, next, count, value
  <1>6. QED  BY <1>2, <1>3, <1>4, <1>5, Zenon

(* A card goes into the reply: the scan stays, and what is taken of it is  *)
(* its own data.                                                           *)
LEMMA WriteGeneralOutputKeeps ==
    ASSUME DeviceInv, WriteGeneralOutput  PROVE DeviceInv'
  <1>1. /\ exec.at = "run" /\ UNCHANGED scanVars /\ UNCHANGED coins
        /\ exec.rest # <<>>
    BY DEF WriteGeneralOutput, Command, busVars
  <1>2. CASE EndWith(invalid_input_parameter) /\ UNCHANGED handed
    BY <1>1, <1>2, Answers, EndWithAnswers, AnsweredStep, BusKept
  <1>3. CASE EndWith(invalid_output_parameter) /\ UNCHANGED handed
    BY <1>1, <1>3, Answers, EndWithAnswers, AnsweredStep, BusKept
  <1>4. CASE /\ Has(1) /\ UNCHANGED handed
             /\ Report(1 + Parameters[1],
                       <<ok>> \o Zeros(Parameters[1] * CardSize) \o <<ok>>)
    <2>1. Parameters[1] \in Nat /\ CardSize \in Nat
      <3>1. Parameters[1] \in Byte
        BY <1>1, <1>4, ParametersType
      <3>2. PICK card \in Cards : card \in Seq(Byte) /\ Len(card) = CardSize
        BY CardsAssumption
      <3>3. CardSize \in Nat
        BY <3>2
      <3>4. QED  BY <3>1, <3>3, ByteValues
    <2>2. 1 + Parameters[1] \in Nat /\ Parameters[1] * CardSize \in Nat
      <3>1. \A a, b \in Nat : a * b \in Nat /\ 1 + a \in Nat
        OBVIOUS
      <3>2. QED  BY <2>1, <3>1
    <2>3. Zeros(Parameters[1] * CardSize) \in Seq(Byte) /\ <<ok>> \in Seq(Byte)
      BY <2>2, ZerosType, Answers, ShortBytes
    <2>4. <<ok>> \o Zeros(Parameters[1] * CardSize) \o <<ok>> \in Seq(Byte)
      BY <2>3, ShortBytes
    <2>5. QED  BY <1>1, <1>4, <2>2, <2>4, ReportAnswers, AnsweredStep, BusKept
  <1>5. CASE /\ Has(1) /\ scan.present
             /\ \E card \in IF scan.card_data = NoData THEN Cards
                                                       ELSE {scan.card_data} :
                   LET sent_ == Reported(exec, 1 + Parameters[1],
                                         <<ok>> \o card \o <<ok>>)
                   IN  IF sent_.at = "done"
                       THEN exec' = sent_ /\ UNCHANGED handed
                       ELSE /\ exec' = [sent_ EXCEPT !.at = "card",
                                                     !.taken = scan.generation]
                            /\ handed' = [generation |-> scan.generation,
                                          card_data  |-> card]
    <2>1. PICK card \in IF scan.card_data = NoData THEN Cards
                                                   ELSE {scan.card_data} :
                   LET sent_ == Reported(exec, 1 + Parameters[1],
                                         <<ok>> \o card \o <<ok>>)
                   IN  IF sent_.at = "done"
                       THEN exec' = sent_ /\ UNCHANGED handed
                       ELSE /\ exec' = [sent_ EXCEPT !.at = "card",
                                                     !.taken = scan.generation]
                            /\ handed' = [generation |-> scan.generation,
                                          card_data  |-> card]
      BY <1>5
    <2> DEFINE reported == Reported(exec, 1 + Parameters[1], <<ok>> \o card \o <<ok>>)
    <2> HIDE DEF reported
    <2>2. card \in Seq(Byte) /\ (scan.card_data # NoData => card = scan.card_data)
      BY CardsAssumption DEF DeviceInv, ScanInv
    <2>3. <<ok>> \o card \o <<ok>> \in Seq(Byte)
      BY <2>2, Answers, ShortBytes
    <2>4. 1 + Parameters[1] \in Nat
      <3>1. Parameters[1] \in Byte
        BY <1>1, <1>5, ParametersType
      <3>2. Parameters[1] \in Nat
        BY <3>1, ByteValues
      <3>3. QED  BY <3>2
    <2>5. exec \in Executions
      BY <1>1, Running
    <2>6. reported \in Executions /\ reported.at \in {"run", "done"}
      BY <1>1, <2>3, <2>4, <2>5, ReportedType DEF reported
    <2>7. \/ exec' = reported /\ UNCHANGED handed
          \/ /\ exec' = [reported EXCEPT !.at = "card", !.taken = scan.generation]
             /\ handed' = [generation |-> scan.generation, card_data |-> card]
      BY <2>1, Zenon DEF reported
    <2>8. CASE exec' = reported /\ UNCHANGED handed
      <3>1. Answered
        BY <2>6, <2>8 DEF Answered
      <3>2. QED  BY <1>1, <2>8, <3>1, AnsweredStep, BusKept
    <2>9. CASE /\ exec' = [reported EXCEPT !.at = "card", !.taken = scan.generation]
               /\ handed' = [generation |-> scan.generation, card_data |-> card]
      <3>1. scan.generation \in Nat
        BY DEF DeviceInv, ScanInv
      <3>2. exec' \in Executions /\ exec'.at = "card" /\ exec'.taken = scan.generation
        BY <2>6, <2>9, <3>1 DEF Executions
      <3>3. handed'.generation = scan.generation /\ handed'.card_data = card
        BY <2>9
      <3>4. ScanInv'
        BY <1>1, <1>5, <2>2, <3>1, <3>2, <3>3 DEF DeviceInv, ScanInv, scanVars
      <3>5. QED  BY <1>1, <3>2, <3>4, BusKept DEF DeviceInv, ExecInv
    <2>10. QED  BY <2>7, <2>8, <2>9
  <1>6. QED  BY <1>2, <1>3, <1>4, <1>5, Zenon DEF WriteGeneralOutput

(* The scan is taken only when it is the one that was put into the reply.  *)
LEMMA ConsumeScanKeeps ==
    ASSUME DeviceInv, ConsumeScan  PROVE DeviceInv'
  <1>1. /\ exec.at = "card" /\ exec \in Executions /\ UNCHANGED coins
        /\ UNCHANGED <<armed, handed>>
        /\ exec' = [exec EXCEPT !.at = "run"]
    BY DEF ConsumeScan, busVars, DeviceInv, ExecInv
  <1>2. exec' \in Executions /\ exec'.at = "run"
    BY <1>1, FieldsOf
  <1>3. CASE scan' = scan
    BY <1>1, <1>2, <1>3, BusKept DEF DeviceInv, ExecInv, ScanInv
  <1>4. CASE /\ scan.present /\ scan.generation = exec.taken
             /\ scan' = [scan EXCEPT !.present = FALSE, !.card_data = NoData]
    <2>1. /\ scan'.present = FALSE /\ scan'.card_data = NoData
          /\ scan'.generation = scan.generation
          /\ DOMAIN scan' = {"present", "card_data", "generation"}
      BY <1>4 DEF DeviceInv, ScanInv
    <2>2. ScanInv'
      BY <1>1, <1>2, <1>4, <2>1 DEF DeviceInv, ScanInv
    <2>3. QED  BY <1>1, <1>2, <2>2, BusKept DEF DeviceInv, ExecInv
  <1>5. QED  BY <1>3, <1>4, Zenon DEF ConsumeScan, Consume

LEMMA DeviceStepKeeps ==
    ASSUME DeviceInv, DeviceStep  PROVE DeviceInv'
  BY EndOfPacketKeeps, TaitoCommandKeeps, ResetKeeps, SetAddressKeeps,
     IdentifyKeeps, ReadSwitchesKeeps, ReadCoinsKeeps, ReadGeneralInputKeeps,
     RetransmitKeeps, ChangeCoinsKeeps, WriteGeneralOutputKeeps,
     ConsumeScanKeeps, UnknownCommandKeeps, Zenon DEF DeviceStep

-----------------------------------------------------------------------------
(* CardReader. Replies of the port are encoded whole; the game has read    *)
(* the beginning of the one it is reading.                                 *)
Framed(reply) ==
    reply = Nothing \/ \E payload \in Replies : reply = EncodePacket(0, payload)
ReplyInv ==
    /\ Framed(pending_reply) /\ Framed(last_reply)
    /\ pending_reply # Nothing =>
          /\ read_cursor \in 0 .. Len(pending_reply)
          /\ got = SubSeq(pending_reply, 1, read_cursor)

(* Of the bytes of a frame the decoder has taken p and stands where they   *)
(* lead it; what the write under way and the game have yet to give is the  *)
(* rest of them.                                                           *)
RestIs(p, bytes) ==
    /\ p + Len(input) + Len(frame) = Len(bytes)
    /\ \A k \in 1 .. Len(input) : input[k] = bytes[p + k]
    /\ \A k \in 1 .. Len(frame) : frame[k] = bytes[p + Len(input) + k]
Underway(values, wire) ==
    \E p \in Nat :
       /\ p < Len(wire[Len(values)])
       /\ RestIs(p, wire[Len(values)])
       /\ OnTheWay(decoder, p, values, wire)

(* An undamaged frame is under way, or was handled and nothing is left.    *)
HandledOnce == handled = <<[address |-> sent.address, payload |-> sent.payload]>>
FrameInv ==
    sent.intact =>
       /\ sent.address \in Byte
       /\ sent.payload \in Seq(Byte) /\ Len(sent.payload) <= 254
       /\ \/ HandledOnce /\ input = <<>> /\ frame = <<>>
          \/ /\ handled = <<>>
             /\ LET values == FrameValues(sent.address, sent.payload) IN
                \E wire : IsWireOf(wire, values) /\ Underway(values, wire)

LineInv == decoder \in Decoders /\ input \in Seq(Byte) /\ frame \in Seq(Byte)
PortInv == DeviceInv /\ LineInv /\ ReplyInv /\ FrameInv

LEMMA ReplyFits ==
    ASSUME NEW payload \in Replies
    PROVE  payload \in Seq(Byte) /\ Len(payload) <= 254 /\ 0 \in Byte
  <1>1. payload \in Seq(Byte) /\ Len(payload) \in 1 .. kMaxPayloadSize
    BY DEF Replies
  <1>2. kMaxPayloadSize \in 1 .. 254
    BY DeviceAssumption
  <1>3. Len(payload) <= 254
    BY <1>1, <1>2
  <1>4. QED  BY <1>1, <1>3, Answers

(* The bytes of a reply.                                                   *)
LEMMA FramedBytes ==
    ASSUME NEW reply, Framed(reply)
    PROVE  reply \in Seq(Byte) /\ Len(reply) \in Nat
  <1>1. CASE reply = Nothing
    BY <1>1 DEF Nothing
  <1>2. CASE \E payload \in Replies : reply = EncodePacket(0, payload)
    <2>1. PICK payload \in Replies : reply = EncodePacket(0, payload)
      BY <1>2
    <2>2. payload \in Seq(Byte) /\ Len(payload) <= 254 /\ 0 \in Byte
      BY ReplyFits
    <2>3. QED  BY <2>1, <2>2, EncodedBytes
  <1>3. QED  BY <1>1, <1>2 DEF Framed

LEMMA AcknowledgeKeeps ==
    ASSUME ReplyInv, NEW payload \in Replies, Acknowledge(payload)
    PROVE  ReplyInv'
  <1>1. CASE pending_reply # Nothing
    BY <1>1 DEF Acknowledge, ReplyInv, Framed
  <1>2. CASE pending_reply = Nothing
    <2>1. /\ pending_reply' = EncodePacket(0, payload)
          /\ last_reply' = EncodePacket(0, payload)
          /\ read_cursor' = 0 /\ got' = Nothing
      BY <1>2, Zenon DEF Acknowledge
    <2>2. Framed(pending_reply)' /\ Framed(last_reply)'
      BY <2>1 DEF Framed
    <2>3. Framed(EncodePacket(0, payload))
      BY DEF Framed
    <2>4. Len(pending_reply') \in Nat
      BY <2>1, <2>3, FramedBytes
    <2>5. got' = SubSeq(pending_reply', 1, read_cursor')
      BY <2>1, SubSeqEmpty DEF Nothing
    <2>6. read_cursor' \in 0 .. Len(pending_reply')
      BY <2>1, <2>4
    <2>7. QED  BY <2>2, <2>5, <2>6 DEF ReplyInv
  <1>3. QED  BY <1>1, <1>2

LEMMA RetransmitPreviousKeeps ==
    ASSUME ReplyInv, RetransmitPrevious
    PROVE  ReplyInv'
  <1>1. CASE pending_reply # Nothing \/ last_reply = Nothing
    BY <1>1 DEF RetransmitPrevious, ReplyInv, Framed
  <1>2. CASE ~(pending_reply # Nothing \/ last_reply = Nothing)
    <2>1. /\ pending_reply' = last_reply /\ last_reply' = last_reply
          /\ read_cursor' = 0 /\ got' = Nothing
      BY <1>2, Zenon DEF RetransmitPrevious
    <2>2. Framed(pending_reply)' /\ Framed(last_reply)'
      BY <2>1 DEF ReplyInv, Framed
    <2>3. Len(pending_reply') \in Nat
      BY <2>1, FramedBytes DEF ReplyInv
    <2>4. got' = SubSeq(pending_reply', 1, read_cursor')
      BY <2>1, SubSeqEmpty DEF Nothing
    <2>5. read_cursor' \in 0 .. Len(pending_reply')
      BY <2>1, <2>3
    <2>6. QED  BY <2>2, <2>4, <2>5 DEF ReplyInv
  <1>3. QED  BY <1>1, <1>2

LEMMA NoResponseKeeps ==
    ASSUME ReplyInv, NoResponse
    PROVE  ReplyInv'
  BY DEF NoResponse, ReplyInv, Framed

(* The game takes the next bytes of the reply.                             *)
LEMMA ReadOn ==
    ASSUME NEW bytes \in Seq(Byte), NEW q \in 0 .. Len(bytes), NEW size \in Nat
    PROVE  LET unread == SubSeq(bytes, q + 1, Len(bytes))
               copied == SubSeq(unread, 1, Min({size, Len(unread)}))
           IN  /\ q + Len(copied) \in 0 .. Len(bytes)
               /\ SubSeq(bytes, 1, q) \o copied = SubSeq(bytes, 1, q + Len(copied))
  <1> DEFINE L == Len(bytes)
             unread == SubSeq(bytes, q + 1, L)
             m == Min({size, Len(unread)})
             copied == SubSeq(unread, 1, m)
  <1>1. L \in Nat /\ \A i \in 1 .. L : bytes[i] \in Byte
    OBVIOUS
  <1> HIDE DEF L, unread, m, copied
  <1>2. q \in Nat /\ q <= L
    BY DEF L
  <1>3. /\ Len(unread) = L - q /\ L - q \in Nat
        /\ \A i \in 1 .. L - q : unread[i] = bytes[q + i] /\ unread[i] \in Byte
    <2>1. \A i \in q + 1 .. L : bytes[i] \in Byte
      BY <1>1, <1>2
    <2>2. /\ Len(unread) = IF q + 1 <= L THEN L - (q + 1) + 1 ELSE 0
          /\ \A i \in 1 .. L - (q + 1) + 1 : unread[i] = bytes[(q + 1) + i - 1]
      BY <1>1, <1>2, <2>1, SubSeqProperties DEF unread
    <2>3. ASSUME NEW i \in 1 .. L - q
          PROVE  unread[i] = bytes[q + i] /\ unread[i] \in Byte
      <3>1. i \in 1 .. L - (q + 1) + 1 /\ (q + 1) + i - 1 = q + i /\ q + i \in 1 .. L
        BY <1>1, <1>2
      <3>2. QED  BY <1>1, <2>2, <3>1
    <2>4. Len(unread) = L - q /\ L - q \in Nat
      BY <1>1, <1>2, <2>2
    <2>5. QED  BY <2>3, <2>4
  <1>4. m \in Nat /\ m <= L - q
    <2>1. Len(unread) \in Nat
      BY <1>3
    <2>2. m \in Nat /\ m <= Len(unread)
      BY <2>1, LessOf DEF m
    <2>3. QED  BY <1>3, <2>2
  <1>5. /\ copied \in Seq(Byte) /\ Len(copied) = m
        /\ \A i \in 1 .. m : copied[i] = bytes[q + i]
    <2>1. \A i \in 1 .. m : unread[i] \in Byte /\ unread[i] = bytes[q + i]
      BY <1>1, <1>2, <1>3, <1>4
    <2>2. /\ copied \in Seq(Byte)
          /\ Len(copied) = IF 1 <= m THEN m - 1 + 1 ELSE 0
          /\ \A i \in 1 .. m - 1 + 1 : copied[i] = unread[1 + i - 1]
      BY <1>4, <2>1, SubSeqProperties DEF copied
    <2>3. Len(copied) = m
      BY <1>4, <2>2
    <2>4. ASSUME NEW i \in 1 .. m PROVE copied[i] = bytes[q + i]
      <3>1. i \in 1 .. m - 1 + 1 /\ 1 + i - 1 = i
        BY <1>4
      <3>2. QED  BY <2>1, <2>2, <3>1
    <2>5. QED  BY <2>2, <2>3, <2>4
  <1>6. q + m \in 0 .. L /\ q + m \in Nat
    BY <1>1, <1>2, <1>4
  <1> DEFINE before == SubSeq(bytes, 1, q)
             after  == SubSeq(bytes, 1, q + m)
  <1> HIDE DEF before, after
  <1>7. /\ before \in Seq(Byte) /\ Len(before) = q
        /\ \A i \in 1 .. q : before[i] = bytes[i]
    <2>1. \A i \in 1 .. q : bytes[i] \in Byte
      BY <1>1, <1>2
    <2>2. /\ before \in Seq(Byte)
          /\ Len(before) = IF 1 <= q THEN q - 1 + 1 ELSE 0
          /\ \A i \in 1 .. q - 1 + 1 : before[i] = bytes[1 + i - 1]
      BY <1>2, <2>1, SubSeqProperties DEF before
    <2>3. \A i \in 1 .. q : i \in 1 .. q - 1 + 1 /\ 1 + i - 1 = i
      BY <1>2
    <2>4. QED  BY <1>2, <2>2, <2>3
  <1>8. /\ after \in Seq(Byte) /\ Len(after) = q + m
        /\ \A i \in 1 .. q + m : after[i] = bytes[i]
    <2>1. \A i \in 1 .. q + m : bytes[i] \in Byte
      BY <1>1, <1>6
    <2>2. /\ after \in Seq(Byte)
          /\ Len(after) = IF 1 <= q + m THEN (q + m) - 1 + 1 ELSE 0
          /\ \A i \in 1 .. (q + m) - 1 + 1 : after[i] = bytes[1 + i - 1]
      BY <1>6, <2>1, SubSeqProperties DEF after
    <2>3. \A i \in 1 .. q + m : i \in 1 .. (q + m) - 1 + 1 /\ 1 + i - 1 = i
      BY <1>6
    <2>4. QED  BY <1>6, <2>2, <2>3
  <1> DEFINE both == before \o copied
  <1> HIDE DEF both
  <1>9. /\ both \in Seq(Byte) /\ Len(both) = q + m
        /\ \A i \in 1 .. q + m : both[i] = IF i <= q THEN before[i] ELSE copied[i - q]
    <2>1. /\ both \in Seq(Byte) /\ Len(both) = Len(before) + Len(copied)
          /\ \A i \in 1 .. Len(before) + Len(copied) :
                both[i] = IF i <= Len(before) THEN before[i] ELSE copied[i - Len(before)]
      BY <1>5, <1>7, ConcatProperties, Zenon DEF both
    <2>2. Len(before) = q /\ Len(copied) = m
      BY <1>5, <1>7
    <2>3. QED  BY <2>1, <2>2, Zenon
  <1>10. ASSUME NEW i \in 1 .. q + m
         PROVE  both[i] = after[i]
    <2>1. CASE i <= q
      BY <1>2, <1>6, <1>7, <1>8, <1>9, <2>1
    <2>2. CASE i > q
      <3>1. i - q \in 1 .. m /\ q + (i - q) = i /\ ~(i <= q)
        BY <1>2, <1>4, <2>2
      <3>2. copied[i - q] = bytes[i]
        BY <1>5, <3>1
      <3>3. QED  BY <1>8, <1>9, <3>1, <3>2
    <2>3. QED  BY <1>2, <1>6, <2>1, <2>2
  <1>11. both = after
    BY <1>8, <1>9, <1>10, SeqEqual
  <1>12. QED  BY <1>5, <1>6, <1>11 DEF both, before, after, copied, m, unread, L

-----------------------------------------------------------------------------
(* Every step keeps the invariant of the port.                             *)
LEMMA PortInvInit == Init => PortInv
  <1>1. SUFFICES ASSUME Init PROVE PortInv
    OBVIOUS
  <1>2. DeviceInv
    <2>1. ExecInv
      BY <1>1 DEF Init, DeviceInit, ExecInv, Idle
    <2>2. BusInv
      BY <1>1 DEF Init, DeviceInit, BusInv, kMaximumCoinCount
    <2>3. ScanInv
      BY <1>1 DEF Init, DeviceInit, ScanInv, Idle, NoData
    <2>4. QED  BY <2>1, <2>2, <2>3 DEF DeviceInv
  <1>3. LineInv
    BY <1>1, FreshDecoders DEF Init, LineInv, Nothing
  <1>4. ReplyInv
    BY <1>1 DEF Init, ReplyInv, Framed
  <1>5. FrameInv
    BY <1>1 DEF Init, FrameInv, NoRequest
  <1>6. QED  BY <1>2, <1>3, <1>4, <1>5 DEF PortInv

(* What the game and the port have of a frame.                             *)
LEMMA FrameKept ==
    ASSUME FrameInv, UNCHANGED <<sent, handled, input, frame, decoder>>
    PROVE  FrameInv'
  BY DEF FrameInv, HandledOnce, Underway, RestIs

LEMMA OpenCom2Keeps ==
    ASSUME PortInv, OpenCom2  PROVE PortInv'
  <1>1. UNCHANGED <<deviceVars, decoder, pending_reply, read_cursor,
                    last_reply, input, gameVars>>
    BY DEF OpenCom2
  <1>2. DeviceInv'
    BY <1>1 DEF PortInv, DeviceInv, ExecInv, BusInv, ScanInv, deviceVars, busVars,
                scanVars
  <1>3. LineInv' /\ ReplyInv'
    BY <1>1 DEF PortInv, LineInv, ReplyInv, Framed, gameVars
  <1>4. FrameInv'
    BY <1>1, FrameKept DEF PortInv, gameVars
  <1>5. QED  BY <1>2, <1>3, <1>4 DEF PortInv

LEMMA CloseCom2Keeps ==
    ASSUME PortInv, CloseCom2  PROVE PortInv'
  <1>1. /\ coins' = [slot \in Slots |-> 0]
        /\ decoder' = Seeking /\ input' = input /\ frame' = Nothing
        /\ pending_reply' = Nothing /\ last_reply' = Nothing
        /\ sent' = NoRequest
        /\ UNCHANGED <<exec, scan, armed, handed>>
    BY DEF CloseCom2, ResetBus, scanVars
  <1>2. BusInv'
    BY <1>1 DEF BusInv, kMaximumCoinCount
  <1>3. DeviceInv'
    BY <1>1, <1>2 DEF PortInv, DeviceInv, ExecInv, ScanInv
  <1>4. LineInv' /\ ReplyInv' /\ FrameInv'
    BY <1>1, FreshDecoders DEF PortInv, LineInv, ReplyInv, Framed, FrameInv,
                               NoRequest, Nothing
  <1>5. QED  BY <1>3, <1>4 DEF PortInv

(* A damaged frame is still bytes.                                         *)
LEMMA DamagedBytes ==
    ASSUME NEW bytes \in Seq(Byte), NEW damaged \in Damaged(bytes)
    PROVE  damaged \in Seq(Byte)
  <1>1. Len(bytes) \in Nat /\ DOMAIN bytes = 1 .. Len(bytes)
        /\ \A i \in 1 .. Len(bytes) : bytes[i] \in Byte
    OBVIOUS
  <1>2. CASE \E i \in DOMAIN bytes : damaged = RemoveAt(bytes, i)
    <2>1. PICK i \in DOMAIN bytes : damaged = RemoveAt(bytes, i)
      BY <1>2
    <2>2. i \in Nat /\ i - 1 \in Int /\ i <= Len(bytes)
          /\ \A j \in 1 .. i - 1 : bytes[j] \in Byte
      BY <1>1, <2>1
    <2>3. SubSeq(bytes, 1, i - 1) \in Seq(Byte)
      BY <2>2, SubSeqProperties
    <2>4. SubSeq(bytes, i + 1, Len(bytes)) \in Seq(Byte)
      BY <2>2, RestOf
    <2>5. QED  BY <2>1, <2>3, <2>4, ConcatProperties DEF RemoveAt
  <1>3. CASE \E i \in DOMAIN bytes, raw \in {0, Marker, Sync} :
                damaged = ReplaceAt(bytes, i, raw)
    <2>1. PICK i \in DOMAIN bytes, raw \in {0, Marker, Sync} :
             damaged = ReplaceAt(bytes, i, raw)
      BY <1>3
    <2>2. raw \in Byte
      <3>1. 0 \in Byte /\ Marker \in Byte /\ Sync \in Byte
        BY ByteValues DEF Marker, Sync
      <3>2. QED  BY <2>1, <3>1
    <2>3. QED  BY <1>1, <2>1, <2>2, ExceptSeq DEF ReplaceAt
  <1>4. QED  BY <1>2, <1>3 DEF Damaged

LEMMA BeginFrameKeeps ==
    ASSUME PortInv, BeginFrame  PROVE PortInv'
  <1>1. PICK request \in Requests :
           LET bytes == EncodePacket(request.address, request.payload) IN
           /\ frame' \in IF request \in Noisy THEN {bytes} \cup Damaged(bytes)
                                            ELSE {bytes}
           /\ sent' = [address |-> request.address,
                       payload |-> request.payload,
                       intact  |-> frame' = bytes]
    BY DEF BeginFrame
  <1> DEFINE bytes == EncodePacket(request.address, request.payload)
             values == FrameValues(request.address, request.payload)
  <1> HIDE DEF bytes, values
  <1>2. /\ frame' = bytes \/ frame' \in Damaged(bytes)
        /\ sent'.intact => frame' = bytes
        /\ sent'.address = request.address /\ sent'.payload = request.payload
    <2>1. /\ frame' \in IF request \in Noisy THEN {bytes} \cup Damaged(bytes)
                                            ELSE {bytes}
          /\ sent' = [address |-> request.address,
                      payload |-> request.payload,
                      intact  |-> frame' = bytes]
      BY <1>1, Zenon DEF bytes
    <2>2. QED  BY <2>1
  <1>3. /\ handled' = <<>> /\ input = <<>> /\ input' = input /\ decoder' = decoder
        /\ UNCHANGED deviceVars /\ UNCHANGED portVars /\ UNCHANGED got
    BY DEF BeginFrame, Returned, Nothing, portVars
  <1>4. /\ request.address \in Byte /\ request.payload \in Seq(Byte)
        /\ Len(request.payload) <= 254
    BY RequestsAssumption
  <1>5. /\ bytes \in Seq(Byte) /\ Len(bytes) \in Nat /\ Len(bytes) > 0
        /\ \E wire : IsWireOf(wire, values) /\ bytes = wire[Len(values)]
    BY <1>4, EncodedBytes, Zenon DEF bytes, values
  <1>6. PICK wire : IsWireOf(wire, values) /\ bytes = wire[Len(values)]
    BY <1>5
  <1>7. frame' \in Seq(Byte)
    BY <1>2, <1>5, DamagedBytes
  <1>8. ASSUME sent'.intact
        PROVE  Underway(values, wire)'
    <2>1. frame' = bytes /\ Len(input') = 0
      BY <1>2, <1>3, <1>8
    <2>2. RestIs(0, bytes)'
      <3>1. 0 + Len(input') + Len(frame') = Len(bytes)
        BY <1>5, <2>1
      <3>2. \A k \in 1 .. Len(frame') : frame'[k] = bytes[0 + Len(input') + k]
        BY <1>5, <2>1
      <3>3. \A k \in 1 .. Len(input') : input'[k] = bytes[0 + k]
        BY <2>1
      <3>4. QED  BY <3>1, <3>2, <3>3 DEF RestIs
    <2>3. OnTheWay(decoder, 0, values, wire)'
      BY DEF OnTheWay
    <2>4. QED  BY <1>5, <1>6, <2>2, <2>3 DEF Underway
  <1>9. FrameInv'
    <2>1. SUFFICES ASSUME sent'.intact PROVE
             /\ sent'.address \in Byte
             /\ sent'.payload \in Seq(Byte) /\ Len(sent'.payload) <= 254
             /\ handled' = <<>>
             /\ FrameValues(sent'.address, sent'.payload) = values
             /\ \E w : IsWireOf(w, values) /\ Underway(values, w)'
      BY DEF FrameInv
    <2>2. QED  BY <1>2, <1>3, <1>4, <1>6, <1>8, <2>1 DEF values
  <1>10. DeviceInv'
    BY <1>3 DEF PortInv, DeviceInv, ExecInv, BusInv, ScanInv, deviceVars, busVars,
                scanVars
  <1>11. ReplyInv'
    BY <1>3 DEF PortInv, ReplyInv, Framed, portVars
  <1>12. LineInv'
    BY <1>3, <1>7 DEF PortInv, LineInv
  <1>13. QED  BY <1>9, <1>10, <1>11, <1>12 DEF PortInv

(* The bytes a write takes from the front of a frame.                      *)
LEMMA WriteTakes ==
    ASSUME NEW bytes \in Seq(Byte), NEW size \in Nat
    PROVE  LET m == Min({size, Len(bytes)})
               front == SubSeq(bytes, 1, m)
               rest == SubSeq(bytes, size + 1, Len(bytes))
           IN  /\ front \in Seq(Byte) /\ rest \in Seq(Byte)
               /\ Len(front) \in Nat /\ Len(rest) \in Nat
               /\ Len(front) + Len(rest) = Len(bytes)
               /\ \A k \in 1 .. Len(front) : front[k] = bytes[k]
               /\ \A k \in 1 .. Len(rest) : rest[k] = bytes[Len(front) + k]
  <1> DEFINE L == Len(bytes)
             m == Min({size, L})
             front == SubSeq(bytes, 1, m)
             rest == SubSeq(bytes, size + 1, L)
  <1>1. L \in Nat /\ \A i \in 1 .. L : bytes[i] \in Byte
    OBVIOUS
  <1> HIDE DEF L, m, front, rest
  <1>2. m \in Nat /\ m <= L /\ m <= size /\ m \in {size, L}
    BY <1>1, LessOf DEF m
  <1>3. /\ front \in Seq(Byte) /\ Len(front) = m
        /\ \A k \in 1 .. m : front[k] = bytes[k]
    <2>1. \A i \in 1 .. m : bytes[i] \in Byte
      BY <1>1, <1>2
    <2>2. /\ front \in Seq(Byte)
          /\ Len(front) = IF 1 <= m THEN m - 1 + 1 ELSE 0
          /\ \A i \in 1 .. m - 1 + 1 : front[i] = bytes[1 + i - 1]
      BY <1>2, <2>1, SubSeqProperties DEF front
    <2>3. \A i \in 1 .. m : i \in 1 .. m - 1 + 1 /\ 1 + i - 1 = i
      BY <1>2
    <2>4. QED  BY <1>2, <2>2, <2>3
  <1>4. /\ rest \in Seq(Byte)
        /\ Len(rest) = IF size + 1 <= L THEN L - (size + 1) + 1 ELSE 0
        /\ \A i \in 1 .. L - (size + 1) + 1 : rest[i] = bytes[(size + 1) + i - 1]
    <2>1. \A i \in size + 1 .. L : bytes[i] \in Byte
      BY <1>1
    <2>2. QED  BY <1>1, <2>1, SubSeqProperties DEF rest
  <1>5. Len(rest) \in Nat /\ m + Len(rest) = L
    BY <1>1, <1>2, <1>4
  <1>6. ASSUME NEW k \in 1 .. Len(rest)
        PROVE  rest[k] = bytes[m + k]
    <2>1. size + 1 <= L /\ m = size
      BY <1>1, <1>2, <1>4
    <2>2. k \in 1 .. L - (size + 1) + 1 /\ (size + 1) + k - 1 = m + k
      BY <1>1, <1>4, <2>1
    <2>3. QED  BY <1>4, <2>2
  <1>7. QED  BY <1>2, <1>3, <1>4, <1>5, <1>6 DEF front, rest, m, L

LEMMA WriteKeeps ==
    ASSUME PortInv, Write  PROVE PortInv'
  <1>1. PICK size \in WriteSizes :
           /\ input' = SubSeq(frame, 1, Min({size, Len(frame)}))
           /\ frame' = SubSeq(frame, size + 1, Len(frame))
    BY DEF Write
  <1>2. /\ input = <<>> /\ frame # <<>> /\ UNCHANGED <<sent, handled, got, decoder>>
        /\ UNCHANGED deviceVars /\ UNCHANGED portVars
    BY DEF Write, Returned, Nothing, portVars
  <1>3. /\ frame \in Seq(Byte) /\ Len(frame) \in Nat /\ size \in Nat
    BY SizesAssumption DEF PortInv, LineInv
  <1>4. /\ input' \in Seq(Byte) /\ frame' \in Seq(Byte)
        /\ Len(input') \in Nat /\ Len(frame') \in Nat
        /\ Len(input') + Len(frame') = Len(frame)
        /\ \A k \in 1 .. Len(input') : input'[k] = frame[k]
        /\ \A k \in 1 .. Len(frame') : frame'[k] = frame[Len(input') + k]
    BY <1>1, <1>3, WriteTakes
  <1>5. ASSUME NEW p \in Nat, NEW bytes, RestIs(p, bytes)
        PROVE  RestIs(p, bytes)'
    <2>1. Len(input) = 0
      BY <1>2
    <2>2. /\ p + 0 + Len(frame) = Len(bytes)
          /\ \A k \in 1 .. Len(frame) : frame[k] = bytes[p + 0 + k]
      BY <1>5, <2>1 DEF RestIs
    <2>3. /\ p + Len(frame) = Len(bytes)
          /\ \A k \in 1 .. Len(frame) : frame[k] = bytes[p + k]
      BY <1>3, <2>2
    <2> DEFINE a == Len(input')  b == Len(frame')  c == Len(frame)
    <2>4. /\ a \in Nat /\ b \in Nat /\ c \in Nat /\ a + b = c
          /\ p + c = Len(bytes)
          /\ \A k \in 1 .. a : input'[k] = frame[k]
          /\ \A k \in 1 .. b : frame'[k] = frame[a + k]
          /\ \A k \in 1 .. c : frame[k] = bytes[p + k]
      BY <1>3, <1>4, <2>3
    <2> HIDE DEF a, b, c
    <2>5. p + a + b = Len(bytes)
      BY <2>4
    <2>6. ASSUME NEW k \in 1 .. a PROVE input'[k] = bytes[p + k]
      <3>1. k \in 1 .. c
        BY <2>4
      <3>2. QED  BY <2>4, <3>1
    <2>7. ASSUME NEW k \in 1 .. b PROVE frame'[k] = bytes[p + a + k]
      <3>1. a + k \in 1 .. c /\ p + (a + k) = p + a + k
        BY <2>4
      <3>2. QED  BY <2>4, <3>1
    <2>8. QED  BY <2>5, <2>6, <2>7 DEF RestIs, a, b
  <1>6. ASSUME NEW values, NEW wire, Underway(values, wire)
        PROVE  Underway(values, wire)'
    <2>1. PICK p \in Nat : /\ p < Len(wire[Len(values)])
                           /\ RestIs(p, wire[Len(values)])
                           /\ OnTheWay(decoder, p, values, wire)
      BY <1>6 DEF Underway
    <2>2. RestIs(p, wire[Len(values)])'
      BY <1>5, <2>1
    <2>3. QED  BY <1>2, <2>1, <2>2 DEF Underway
  <1>7. FrameInv'
    <2>1. SUFFICES ASSUME sent.intact PROVE FrameInv'
      BY <1>2 DEF FrameInv
    <2>2. /\ sent.address \in Byte
          /\ sent.payload \in Seq(Byte) /\ Len(sent.payload) <= 254
          /\ handled = <<>>
          /\ \E wire : /\ IsWireOf(wire, FrameValues(sent.address, sent.payload))
                       /\ Underway(FrameValues(sent.address, sent.payload), wire)
      BY <1>2, <2>1, Zenon DEF PortInv, FrameInv
    <2>3. QED  BY <1>2, <1>6, <2>2 DEF FrameInv
  <1>8. DeviceInv'
    BY <1>2 DEF PortInv, DeviceInv, ExecInv, BusInv, ScanInv, deviceVars, busVars,
                scanVars
  <1>9. ReplyInv'
    BY <1>2 DEF PortInv, ReplyInv, Framed, portVars
  <1>10. LineInv'
    BY <1>2, <1>4 DEF PortInv, LineInv
  <1>11. QED  BY <1>7, <1>8, <1>9, <1>10 DEF PortInv

(* The decoder takes what a write has given: bytes of a frame under way    *)
(* bring it further, or to the packet; other bytes to any event.           *)
LEMMA ConsumeFrame ==
    ASSUME PortInv, ConsumeInput  PROVE FrameInv'
  <1> DEFINE c == Consumed(decoder, input)
             N == Len(input)
             values == FrameValues(sent.address, sent.payload)
  <1> HIDE DEF c, values
  <1>1. /\ input # <<>> /\ input \in Seq(Byte) /\ decoder \in Decoders
        /\ decoder' = c.decoder /\ input' = c.rest
        /\ UNCHANGED <<frame, sent>>
    BY DEF ConsumeInput, PortInv, LineInv, Nothing, c
  <1>2. SUFFICES ASSUME sent.intact PROVE FrameInv'
    BY <1>1 DEF FrameInv
  <1>3. /\ sent.address \in Byte
        /\ sent.payload \in Seq(Byte) /\ Len(sent.payload) <= 254
        /\ handled = <<>>
        /\ \E wire : IsWireOf(wire, values) /\ Underway(values, wire)
    BY <1>1, <1>2, Zenon DEF PortInv, FrameInv, values
  <1>4. PICK wire : IsWireOf(wire, values) /\ Underway(values, wire)
    BY <1>3
  <1> DEFINE bytes == wire[Len(values)]
  <1> HIDE DEF bytes
  <1>5. PICK p \in Nat : /\ p < Len(bytes) /\ RestIs(p, bytes)
                         /\ OnTheWay(decoder, p, values, wire)
    BY <1>4 DEF Underway, bytes
  <1>6. WholeFrame(values)
        /\ DecodedPacket(values) = [kind |-> "packet", address |-> sent.address,
                                    payload |-> sent.payload]
    BY <1>3, FrameIsWhole DEF values
  <1>7. /\ N \in Nat /\ N > 0 /\ Len(frame) \in Nat /\ frame \in Seq(Byte)
        /\ \A k \in 1 .. N : input[k] \in Byte
    <2>1. Len(frame) \in Nat /\ frame \in Seq(Byte)
      BY DEF PortInv, LineInv
    <2>2. N \in Nat /\ N # 0 /\ \A k \in 1 .. N : input[k] \in Byte
      BY <1>1
    <2>3. QED  BY <2>1, <2>2
  <1>8. /\ p + N + Len(frame) = Len(bytes)
        /\ \A k \in 1 .. N : input[k] = bytes[p + k]
        /\ \A k \in 1 .. Len(frame) : frame[k] = bytes[p + N + k]
    BY <1>5 DEF RestIs
  <1> HIDE DEF N
  <1>9. p + N <= Len(bytes) /\ Len(bytes) \in Nat /\ p + N \in Nat
    BY <1>7, <1>8
  <1>10. Progress(c, p + N, values, wire) /\ c.rest = <<>> /\ c.decoder \in Decoders
    <2>1. /\ p + N <= Len(wire[Len(values)]) /\ Len(input) = N
          /\ \A k \in 1 .. N :
                input[k] \in Byte /\ input[k] = wire[Len(values)][p + k]
      BY <1>7, <1>8, <1>9 DEF bytes, N
    <2>2. /\ Progress(Consumed(decoder, input), p + N, values, wire)
          /\ Consumed(decoder, input).rest = <<>>
          /\ Consumed(decoder, input).decoder \in Decoders
      BY <1>1, <1>4, <1>5, <1>6, <1>7, <2>1, ConsumedAlong
    <2>3. QED  BY <2>2 DEF c
  <1>a. values' = values /\ bytes' = bytes
    BY <1>1 DEF values, bytes
  <1>b. PICK q \in Nat : q = p + N
    BY <1>9
  <1>11. CASE /\ p + N < Len(bytes) /\ c.event = NoEvent
              /\ OnTheWay(c.decoder, p + N, values, wire)
    <2>1. handled' = <<>>
      <3>1. c.event.kind = "none"
        BY <1>11 DEF NoEvent
      <3>2. QED  BY <1>3, <3>1 DEF ConsumeInput, c
    <2>2. input' = <<>> /\ Len(input') = 0
      BY <1>1, <1>10
    <2>3. RestIs(q, bytes)'
      <3>1. ASSUME NEW k \in 1 .. Len(frame)
            PROVE  frame[k] = bytes[(p + N) + 0 + k]
        <4>1. (p + N) + 0 + k = p + N + k
          BY <1>7, <1>9
        <4>2. QED  BY <1>8, <4>1
      <3>2. (p + N) + 0 + Len(frame) = Len(bytes)
        BY <1>7, <1>8, <1>9
      <3>3. 1 .. Len(input') = {}
        BY <2>2
      <3>4. /\ (p + N) + Len(input') + Len(frame') = Len(bytes)
            /\ \A k \in 1 .. Len(input') : input'[k] = bytes[(p + N) + k]
        BY <1>1, <2>2, <3>2, <3>3
      <3>5. \A k \in 1 .. Len(frame') : frame'[k] = bytes[(p + N) + Len(input') + k]
        BY <1>1, <2>2, <3>1
      <3>6. QED  BY <1>a, <1>b, <3>4, <3>5 DEF RestIs
    <2>4. OnTheWay(decoder', p + N, values, wire)
      BY <1>1, <1>11
    <2>5. Underway(values, wire)'
      <3>1. q < Len(bytes) /\ OnTheWay(decoder', q, values, wire)
        BY <1>9, <1>11, <1>b, <2>4
      <3>2. QED  BY <1>a, <2>3, <3>1 DEF Underway, bytes
    <2>6. QED  BY <1>1, <1>3, <1>4, <1>a, <2>1, <2>5 DEF FrameInv, values
  <1>12. CASE p + N = Len(bytes) /\ c.event = DecodedPacket(values)
    <2>1. /\ c.event.kind = "packet" /\ c.event.address = sent.address
          /\ c.event.payload = sent.payload
      BY <1>6, <1>12
    <2>2. handled' = Append(handled, [address |-> sent.address,
                                      payload |-> sent.payload])
      BY <2>1 DEF ConsumeInput, c
    <2>3. handled' = <<[address |-> sent.address, payload |-> sent.payload]>>
      BY <1>3, <2>2
    <2>4. Len(frame) = 0
      BY <1>7, <1>8, <1>9, <1>12
    <2>5. frame = <<>>
      BY <1>7, <2>4
    <2>6. QED  BY <1>1, <1>3, <1>10, <2>3, <2>5 DEF FrameInv, HandledOnce
  <1>13. QED  BY <1>10, <1>11, <1>12, Zenon DEF Progress, bytes

LEMMA ConsumeInputKeeps ==
    ASSUME PortInv, ConsumeInput  PROVE PortInv'
  <1> DEFINE c == Consumed(decoder, input)
  <1> HIDE DEF c
  <1>1. /\ decoder' = c.decoder /\ input' = c.rest /\ exec.at = "idle"
        /\ UNCHANGED <<frame, sent, coins, scan, armed, handed>>
        /\ \/ /\ c.event.kind \in {"none", "framing"}
              /\ NoResponse /\ UNCHANGED <<exec, handled>>
           \/ /\ c.event.kind = "checksum"
              /\ Acknowledge(<<checksum_error>>)
              /\ UNCHANGED <<exec, handled>>
           \/ /\ c.event.kind = "packet" /\ BeginPacket(c.event) /\ NoResponse
    BY DEF ConsumeInput, c, busVars, scanVars
  <1>2. c.decoder \in Decoders /\ c.event \in Events /\ c.rest \in Seq(Byte)
    BY ConsumedType DEF PortInv, LineInv, c
  <1>3. FrameInv'
    BY ConsumeFrame
  <1>4. LineInv'
    BY <1>1, <1>2 DEF PortInv, LineInv
  <1>5. ReplyInv'
    <2>1. <<checksum_error>> \in Replies
      BY Answers, ShortBytes
    <2>2. QED  BY <1>1, <2>1, AcknowledgeKeeps, NoResponseKeeps DEF PortInv
  <1>6. CASE UNCHANGED exec
    BY <1>1, <1>3, <1>4, <1>5, <1>6 DEF PortInv, DeviceInv, ExecInv, BusInv, ScanInv
  <1>7. CASE c.event.kind = "packet" /\ BeginPacket(c.event)
    <2>1. c.event \in Packets
      BY <1>2, <1>7 DEF Events, NoEvent, InvalidEscape, ChecksumFailure
    <2>2. c.event.payload \in Seq(Byte)
      BY <2>1 DEF Packets
    <2>3. <<ok>> \in Replies
      BY Answers, ShortBytes
    <2>4. Answered
      BY <1>7, <2>2, <2>3 DEF BeginPacket, Answered, Executions
    <2>5. DeviceInv'
      BY <1>1, <2>4, AnsweredStep, BusKept DEF PortInv, scanVars
    <2>6. QED  BY <1>3, <1>4, <1>5, <2>5 DEF PortInv
  <1>8. QED  BY <1>1, <1>6, <1>7

LEMMA RunPacketKeeps ==
    ASSUME PortInv, RunPacket  PROVE PortInv'
  <1>1. DeviceStep /\ UNCHANGED <<portVars, input, workerVars, gameVars>>
    BY DEF RunPacket
  <1>2. DeviceInv'
    BY <1>1, DeviceStepKeeps DEF PortInv
  <1>3. LineInv' /\ ReplyInv'
    BY <1>1 DEF PortInv, LineInv, ReplyInv, Framed, portVars, gameVars
  <1>4. FrameInv'
    BY <1>1, FrameKept DEF PortInv, portVars, gameVars
  <1>5. QED  BY <1>2, <1>3, <1>4 DEF PortInv

LEMMA EndPacketKeeps ==
    ASSUME PortInv, EndPacket  PROVE PortInv'
  <1>1. /\ exec.at = "done" /\ exec' = Idle
        /\ RetransmitPrevious \/ Acknowledge(exec.reply) \/ NoResponse
        /\ UNCHANGED <<coins, scan, armed, handed, decoder, input, frame, sent,
                       handled>>
    BY DEF EndPacket, busVars, scanVars
  <1>2. exec.reply \in Replies
    BY <1>1 DEF PortInv, DeviceInv, ExecInv, Executions
  <1>3. ReplyInv'
    BY <1>1, <1>2, RetransmitPreviousKeeps, AcknowledgeKeeps, NoResponseKeeps
       DEF PortInv
  <1>4. DeviceInv'
    BY <1>1 DEF PortInv, DeviceInv, ExecInv, BusInv, ScanInv, Idle
  <1>5. LineInv' /\ FrameInv'
    BY <1>1, FrameKept DEF PortInv, LineInv
  <1>6. QED  BY <1>3, <1>4, <1>5 DEF PortInv

LEMMA ReadKeeps ==
    ASSUME PortInv, Read  PROVE PortInv'
  <1>1. /\ pending_reply # Nothing
        /\ UNCHANGED <<deviceVars, decoder, last_reply, input, frame, sent, handled>>
    BY DEF Read
  <1>2. PICK size \in ReadSizes :
           LET copied == SubSeq(Unread, 1, Min({size, Len(Unread)})) IN
           \/ pending_reply' = Nothing
           \/ /\ read_cursor' = read_cursor + Len(copied)
              /\ got' = got \o copied
              /\ UNCHANGED pending_reply
    BY DEF Read
  <1>3. size \in Nat
    BY SizesAssumption
  <1>4. /\ pending_reply \in Seq(Byte) /\ read_cursor \in 0 .. Len(pending_reply)
        /\ got = SubSeq(pending_reply, 1, read_cursor)
    BY <1>1, FramedBytes DEF PortInv, ReplyInv
  <1> DEFINE copied == SubSeq(Unread, 1, Min({size, Len(Unread)}))
  <1>5. /\ read_cursor + Len(copied) \in 0 .. Len(pending_reply)
        /\ SubSeq(pending_reply, 1, read_cursor) \o copied =
              SubSeq(pending_reply, 1, read_cursor + Len(copied))
    BY <1>3, <1>4, ReadOn DEF Unread
  <1> HIDE DEF copied
  <1>6. \/ pending_reply' = Nothing
        \/ /\ read_cursor' = read_cursor + Len(copied)
           /\ got' = got \o copied
           /\ UNCHANGED pending_reply
    BY <1>2 DEF copied
  <1>7. ReplyInv'
    <2>1. CASE pending_reply' = Nothing
      BY <1>1, <2>1 DEF PortInv, ReplyInv, Framed
    <2>2. CASE /\ read_cursor' = read_cursor + Len(copied)
               /\ got' = got \o copied
               /\ UNCHANGED pending_reply
      <3>1. got' = SubSeq(pending_reply', 1, read_cursor')
        BY <1>4, <1>5, <2>2
      <3>2. read_cursor' \in 0 .. Len(pending_reply')
        BY <1>5, <2>2
      <3>3. QED  BY <1>1, <2>2, <3>1, <3>2 DEF PortInv, ReplyInv, Framed
    <2>3. QED  BY <1>6, <2>1, <2>2
  <1>8. DeviceInv'
    BY <1>1 DEF PortInv, DeviceInv, ExecInv, BusInv, ScanInv, deviceVars, busVars,
                scanVars
  <1>9. LineInv' /\ FrameInv'
    BY <1>1, FrameKept DEF PortInv, LineInv
  <1>10. QED  BY <1>7, <1>8, <1>9 DEF PortInv

(* A scan in the middle of anything is the newest, and none of it is taken. *)
LEMMA ScanKeeps ==
    ASSUME PortInv, Scan  PROVE PortInv'
  <1>1. PICK card_data \in Cards \cup {NoData} :
           /\ scan' = [present |-> TRUE, card_data |-> card_data,
                       generation |-> scan.generation + 1]
           /\ armed' = card_data
    BY DEF Scan, PressKey, ServeClient, Arm
  <1>2. UNCHANGED <<exec, coins, handed, portVars, input, gameVars>>
    BY DEF Scan, busVars
  <1>3. ScanInv'
    <2>1. /\ scan'.present = TRUE /\ scan'.card_data = card_data
          /\ scan'.generation = scan.generation + 1
          /\ DOMAIN scan' = {"present", "card_data", "generation"}
      BY <1>1
    <2>2. scan.generation \in Nat
      BY DEF PortInv, DeviceInv, ScanInv
    <2>3. exec'.at = "card" =>
             /\ exec'.taken \in Nat /\ exec'.taken <= scan'.generation
             /\ exec'.taken # scan'.generation
             /\ handed'.generation = exec'.taken
      BY <1>2, <2>1, <2>2 DEF PortInv, DeviceInv, ScanInv
    <2>4. QED  BY <1>1, <2>1, <2>2, <2>3 DEF ScanInv
  <1>4. DeviceInv'
    BY <1>2, <1>3 DEF PortInv, DeviceInv, ExecInv, BusInv
  <1>5. LineInv' /\ ReplyInv' /\ FrameInv'
    BY <1>2, FrameKept DEF PortInv, LineInv, ReplyInv, Framed, portVars, gameVars
  <1>6. QED  BY <1>4, <1>5 DEF PortInv

LEMMA PortStutters ==
    ASSUME PortInv, UNCHANGED vars  PROVE PortInv'
  <1>1. UNCHANGED <<deviceVars, portVars, input, gameVars>>
    BY DEF vars
  <1>2. DeviceInv'
    BY <1>1 DEF PortInv, DeviceInv, ExecInv, BusInv, ScanInv, deviceVars, busVars,
                scanVars
  <1>3. LineInv' /\ ReplyInv' /\ FrameInv'
    BY <1>1, FrameKept DEF PortInv, LineInv, ReplyInv, Framed, portVars, gameVars
  <1>4. QED  BY <1>2, <1>3 DEF PortInv

LEMMA PortInvKept == PortInv /\ [Next]_vars => PortInv'
  BY OpenCom2Keeps, CloseCom2Keeps, BeginFrameKeeps, WriteKeeps, ConsumeInputKeeps,
     RunPacketKeeps, EndPacketKeeps, ReadKeeps, ScanKeeps, PortStutters, Zenon
  DEF Next

(* The values of the port and the device are those the code's variables    *)
(* can have, replies are encoded whole and a frame is consumed as it was   *)
(* sent: the inductive invariant of the card reader.                       *)
THEOREM PortInvariant == Spec => []PortInv
  BY PortInvInit, PortInvKept, PTL DEF Spec

(* Whatever was sent before and however writes cut it, an undamaged frame  *)
(* is handled once and as it was sent, for every request, card and number  *)
(* of frames (Decoder::Push, ComPortState::Write).                         *)
THEOREM IntactFramesHandled == Spec => []IntactFrameHandled
  <1>1. ASSUME PortInv PROVE IntactFrameHandled
    <2>1. SUFFICES ASSUME Returned, frame = Nothing, sent.intact
                   PROVE  HandledOnce
      BY DEF IntactFrameHandled, HandledOnce
    <2>2. SUFFICES ASSUME NEW values, NEW wire, Underway(values, wire)
                   PROVE  FALSE
      BY <1>1, <2>1, Zenon DEF PortInv, FrameInv
    <2>3. PICK p \in Nat : /\ p < Len(wire[Len(values)])
                           /\ RestIs(p, wire[Len(values)])
      BY <2>2 DEF Underway
    <2>4. Len(input) = 0 /\ Len(frame) = 0
      BY <2>1 DEF Returned, Nothing
    <2>5. p + 0 + 0 = Len(wire[Len(values)])
      BY <2>3, <2>4 DEF RestIs
    <2>6. QED  BY <2>3, <2>5
  <1>2. QED  BY <1>1, PortInvariant, PTL

(* What the game has read of a reply and what is left of it is one packet  *)
(* for the master, for every size of the reads and of the replies that the *)
(* commands can give (ComPortState::QueueResponse, Read).                  *)
THEOREM RepliesWhole == Spec => []WholeReplies
  <1>1. ASSUME PortInv PROVE WholeReplies
    <2>1. SUFFICES ASSUME pending_reply # Nothing
                   PROVE  IsOneReply(got \o Unread)
      BY DEF WholeReplies
    <2>2. /\ pending_reply \in Seq(Byte) /\ Len(pending_reply) \in Nat
          /\ read_cursor \in 0 .. Len(pending_reply)
          /\ got = SubSeq(pending_reply, 1, read_cursor)
      BY <1>1, <2>1, FramedBytes DEF PortInv, ReplyInv
    <2>3. got \o Unread = pending_reply
      <3>1. /\ 1 \in 1 .. Len(pending_reply) + 1
            /\ read_cursor \in 1 - 1 .. Len(pending_reply)
            /\ Len(pending_reply) \in read_cursor .. Len(pending_reply)
        BY <2>2
      <3>2. SubSeq(pending_reply, 1, read_cursor)
               \o SubSeq(pending_reply, read_cursor + 1, Len(pending_reply))
               = SubSeq(pending_reply, 1, Len(pending_reply))
        BY <2>2, <3>1, ConcatAdjacentSubSeq
      <3>3. SubSeq(pending_reply, 1, Len(pending_reply)) = pending_reply
        BY <2>2, SubSeqFull
      <3>4. QED  BY <2>2, <3>2, <3>3, Zenon DEF Unread
    <2>4. PICK payload \in Replies : pending_reply = EncodePacket(0, payload)
      BY <1>1, <2>1 DEF PortInv, ReplyInv, Framed
    <2>5. IsOneReply(EncodePacket(0, payload))
      BY ReplyFits, ReplyIsOne
    <2>6. QED  BY <2>3, <2>4, <2>5
  <1>2. QED  BY <1>1, PortInvariant, PTL

(* A scan is gone only when it, and not an earlier one, stands in a reply  *)
(* with its own data, for every set of cards and number of scans           *)
(* (Device::HandlePacket, CardScanState::Consume).                         *)
THEOREM ScansAccounted == Spec => []CardAccounted
  <1>1. ASSUME PortInv PROVE CardAccounted
    BY <1>1 DEF PortInv, DeviceInv, ScanInv, CardAccounted
  <1>2. QED  BY <1>1, PortInvariant, PTL

-----------------------------------------------------------------------------
(* The calls. An object is named by the call that opened it; it is open    *)
(* under one handle, and one thread at a time uses it.                     *)
ObjectRecords ==
    [id : Nat, kind : Kinds \cup {"none"}, parent : Handles \cup {NoHandle},
     session : Nat]
Ops == {"open", "write", "flush", "close", "use"}
EnteredCalls ==
    [at : {"entered"}, number : Nat, op : Ops, kind : Kinds \cup {"none"},
     handle : Handles \cup {NoHandle}, started : Nat, parent : {NoObject},
     target : Nat]
ReturnedCalls ==
    [at : {"returned"}, op : Ops, kind : Kinds \cup {"none"},
     handle : Handles \cup {NoHandle}, object : ObjectRecords, started : Nat,
     finished : Nat, result : {"ok", "failed"}, target : Nat,
     parent : Handles \cup {NoHandle}]

CallsTyped ==
    /\ now \in Nat
    /\ calls \in Nat /\ 1..calls \subseteq Objects
    /\ native \in [Handles -> ObjectRecords]
    /\ detour \in [Callers -> {AtRest} \cup EnteredCalls \cup ReturnedCalls]

(* The call of thread t that opens object id, and the calls of t that hold *)
(* it.                                                                     *)
Opens(t, id) ==
    \/ detour[t].at = "entered" /\ detour[t].op = "open" /\ detour[t].number = id
    \/ detour[t].at = "returned" /\ detour[t].op = "open"
       /\ detour[t].object.id = id
Holds(t, id) == Opens(t, id) \/ (detour[t].at # "idle" /\ detour[t].target = id)
IsOpen(id) == \E h \in Handles : native[h].id = id

(* An open object is one of the calls so far, under a handle of its kind;  *)
(* no object is open under two handles, or held by two threads; no thread  *)
(* holds an object of the future.                                          *)
NativeRight ==
    \A h \in Handles :
       native[h] # NoObject =>
          /\ native[h].id \in 1..calls /\ native[h].kind \in Kinds
          /\ h \in HandlesOf(native[h].kind)
          /\ native[h].kind = "session" => native[h].session = native[h].id

OneHandle ==
    \A g, h \in Handles :
       native[g].id = native[h].id /\ native[g].id # 0 => g = h

OneHolder ==
    \A t, u \in Callers : \A id \in Nat :
       id # 0 /\ Holds(t, id) /\ Holds(u, id) => t = u

HeldRight == \A t \in Callers : \A id \in Nat : Holds(t, id) => id <= calls

(* What a call that is under way promises: the object it uses, or was      *)
(* opened on, is still there, and the one it opens is nowhere yet.         *)
ParentKind(kind) ==
    CASE kind = "connection" -> "session"
      [] kind = "request"    -> "connection"
      [] OTHER               -> "none"

EnteredOk(call) ==
    /\ call.handle = NoHandle => call.op = "open"
    /\ call.handle # NoHandle =>
          /\ native[call.handle].id = call.target /\ call.target # 0
    /\ call.op = "open" =>
          /\ call.kind \in Kinds /\ call.number # 0 /\ ~IsOpen(call.number)
          /\ call.kind \in {"connection", "request"} =>
                /\ call.handle \in HttpHandles
                /\ native[call.handle].kind = ParentKind(call.kind)
    /\ call.op # "open" /\ call.handle \in HttpHandles =>
          call.kind = native[call.handle].kind
    /\ call.op # "open" /\ call.kind \in HttpKinds => call.op \in {"use", "close"}
EnteredRight ==
    \A t \in Callers : detour[t].at = "entered" => EnteredOk(detour[t])

(* An answered call: an open that succeeded has its object under the       *)
(* handle, a close that succeeded left it nowhere, and any other call      *)
(* still has it.                                                           *)
OpenedOk(call) ==
    /\ call.object.kind = call.kind
    /\ call.kind = "session" => call.object.session = call.object.id
    /\ call.kind \in {"connection", "request"} =>
          /\ call.parent \in HttpHandles
          /\ native[call.parent].kind = ParentKind(call.kind)
          /\ native[call.parent].id = call.target
          /\ call.object.session = native[call.parent].session
    /\ call.result = "ok" =>
          /\ call.handle \in HandlesOf(call.kind)
          /\ native[call.handle] = call.object
          /\ call.object.parent = call.parent
    /\ call.result = "failed" => ~IsOpen(call.object.id)
CalledOk(call) ==
    /\ call.object.id = call.target
    /\ call.handle \in HandlesOf(call.object.kind)
    /\ call.handle \in HttpHandles => call.kind = call.object.kind
    /\ call.kind \in HttpKinds => call.op \in {"use", "close"}
    /\ IF call.op = "close" /\ call.result = "ok"
       THEN ~IsOpen(call.target)
       ELSE native[call.handle] = call.object
ReturnedRight ==
    \A t \in Callers : detour[t].at = "returned" =>
       /\ detour[t].object.id # 0 /\ detour[t].object.kind \in Kinds
       /\ detour[t].op = "open" => OpenedOk(detour[t])
       /\ detour[t].op # "open" => CalledOk(detour[t])

(* A connection knows the session it was opened on, unless that is closed. *)
SessionsKept ==
    \A h \in Handles :
       native[h].kind = "connection" =>
          /\ native[h].parent \in HttpHandles
          /\ LET session == native[native[h].parent]
             IN session = NoObject \/ session.id = native[h].session

CallsInv ==
    /\ CallsTyped /\ NativeRight /\ OneHandle /\ OneHolder /\ HeldRight
    /\ EnteredRight /\ ReturnedRight /\ SessionsKept

-----------------------------------------------------------------------------
(* The types of the tables, the reports and the histories. An entry        *)
(* without a handle is empty; one with a handle is of an object of the     *)
(* past.                                                                   *)
Entries ==
    [handle : Handles \cup {NoHandle}, object : Nat, sequence : Nat,
     started : Nat, calls : Nat, failed : BOOLEAN, pending : Nat,
     parent : Handles \cup {NoHandle}, session : Nat, own_session : Nat]

TablesTyped ==
    /\ DOMAIN tables = Kinds
    /\ \A kind \in Kinds : tables[kind] \in [1..TableSizes[kind] -> Entries]
    /\ \A kind \in Kinds : \A i \in DOMAIN tables[kind] :
          /\ tables[kind][i].handle = NoHandle => tables[kind][i] = NoEntry
          /\ tables[kind][i].handle # NoHandle =>
                /\ tables[kind][i].object \in 1..calls
                /\ kind \in {"log", "request"} => tables[kind][i].sequence # 0

Reports ==
    [kind : {"pipe", "log", "request"}, number : Nat, object : Nat, calls : Nat,
     session : Nat, own_session : Nat,
     stage : {"write", "flush", "close_without_flush", "close", "open"}]

LedgerTyped ==
    /\ sequence \in [{"pipe", "log", "request"} -> Nat]
    /\ observed \in [Objects -> Nat]
    /\ emitted \in Seq(Reports)
    /\ untracked \subseteq Nat

(* Closing(t): a close that succeeded and is not observed yet.             *)
Closing(t) ==
    /\ detour[t].at = "returned"
    /\ detour[t].op = "close" /\ detour[t].result = "ok"

(* An entry is of the object that is open under its handle, or was until a *)
(* close that is not observed yet.                                         *)
OwnedBy(kind, entry) ==
    \/ native[entry.handle].id = entry.object /\ native[entry.handle].kind = kind
    \/ \E t \in Callers :
          /\ Closing(t) /\ detour[t].handle = entry.handle
          /\ detour[t].object.id = entry.object /\ detour[t].object.kind = kind

Keeps(kind, i, id) == tables[kind][i].handle # NoHandle /\ tables[kind][i].object = id
InTables(id) == \E kind \in Kinds : \E i \in DOMAIN tables[kind] : Keeps(kind, i, id)

(* Every entry is owned so; a handle whose close is not observed is free,  *)
(* and in one thread.                                                      *)
EntriesOwned ==
    \A kind \in Kinds : \A i \in DOMAIN tables[kind] :
       tables[kind][i].handle # NoHandle => OwnedBy(kind, tables[kind][i])

ClosedFree ==
    \A t \in Callers : Closing(t) =>
       /\ native[detour[t].handle] = NoObject
       /\ \A u \in Callers :
             Closing(u) /\ detour[u].handle = detour[t].handle => u = t

(* An object is in one slot, and in none before it is observed as opened.  *)
OneSlot ==
    \A kind, other \in Kinds :
       \A i \in DOMAIN tables[kind], j \in DOMAIN tables[other] : \A id \in Nat :
          Keeps(kind, i, id) /\ Keeps(other, j, id) => kind = other /\ i = j

NotYet == \A t \in Callers : \A id \in Nat : Opens(t, id) => ~InTables(id)

(* What is open is in its table, unless it is still to be observed or had  *)
(* no slot.                                                                *)
AllEntered ==
    \A h \in Handles :
       \/ native[h] = NoObject
       \/ native[h].id \in untracked
       \/ \E t \in Callers : Opens(t, native[h].id)
       \/ \E i \in DOMAIN tables[native[h].kind] :
             Keeps(native[h].kind, i, native[h].id)

(* A call looks for its object in the table that has it.                   *)
KindKnown ==
    \A t \in Callers : detour[t].at # "idle" /\ detour[t].op # "open" =>
       \A kind \in Kinds : \A i \in DOMAIN tables[kind] :
          Keeps(kind, i, detour[t].target) => detour[t].kind = kind

(* An entry counts the calls observed of its object.                       *)
CallsCounted ==
    /\ \A kind \in Kinds : \A i \in DOMAIN tables[kind] :
          tables[kind][i].handle # NoHandle =>
             tables[kind][i].calls = observed[tables[kind][i].object]
    /\ \A id \in Objects :
          id > calls \/ (\E t \in Callers : Opens(t, id)) => observed[id] = 0

(* The session of a request is its own or none: the connection is tracked  *)
(* with the handle of its session, and what is tracked under that handle   *)
(* is the session.                                                         *)
SessionsKnown ==
    /\ \A kind \in Kinds : \A i \in DOMAIN tables[kind] :
          tables[kind][i].session \in {0, tables[kind][i].own_session}
    /\ \A i \in DOMAIN tables["connection"] : \A h \in Handles :
          Keeps("connection", i, native[h].id) =>
             tables["connection"][i].parent = native[h].parent
    /\ \A i \in DOMAIN tables["session"] : \A h \in Handles :
          /\ native[h].kind = "connection"
          /\ tables["session"][i].handle = native[h].parent
          => tables["session"][i].object = native[h].session

(* What is reported, but for messages, is over: the object is in no table  *)
(* and no thread opens it, so its count stays.                             *)
ReportsDone ==
    \A m \in DOMAIN emitted :
       /\ emitted[m].kind # "pipe" =>
             /\ emitted[m].object \in 1..calls /\ ~InTables(emitted[m].object)
             /\ \A t \in Callers : ~Opens(t, emitted[m].object)
             /\ emitted[m].calls = observed[emitted[m].object]
       /\ emitted[m].session \in {0, emitted[m].own_session}

TrackedInv ==
    /\ EntriesOwned /\ ClosedFree /\ OneSlot /\ NotYet /\ AllEntered /\ KindKnown
    /\ CallsCounted /\ SessionsKnown /\ ReportsDone

-----------------------------------------------------------------------------
(* No number is outstanding in two slots, or outstanding and reported.     *)
Numbered == {"pipe", "log", "request"}
Outstanding(kind, i) ==
    IF kind = "pipe" THEN tables[kind][i].pending ELSE tables[kind][i].sequence

NumbersInv ==
    \A kind \in Numbered :
       /\ \A i \in DOMAIN tables[kind] :
             /\ Outstanding(kind, i) <= sequence[kind]
             /\ \A j \in DOMAIN tables[kind] :
                   Outstanding(kind, i) = Outstanding(kind, j) =>
                      i = j \/ Outstanding(kind, i) = 0
       /\ \A m \in DOMAIN emitted : emitted[m].kind = kind =>
             /\ emitted[m].number \in 1..sequence[kind]
             /\ \A i \in DOMAIN tables[kind] :
                   Outstanding(kind, i) # emitted[m].number

(* The sums of the log records.                                            *)
Sums == [started : Int, records : Nat, slow : Nat, suppressed : Nat]
LogsInv ==
    /\ aggregate \in Sums
    /\ log_totals \in [records : Nat, slow : Nat, told : Nat, aggregated : Sums]
    /\ LogsAccounted

(* The invariant. What is said of the tables holds until a handle comes    *)
(* back before its close was observed.                                     *)
TrackingInv ==
    /\ CallsInv /\ TablesTyped /\ LedgerTyped
    /\ ~reused => TrackedInv
    /\ NumbersInv /\ ReportedOnce /\ LogsInv

-----------------------------------------------------------------------------
USE DEF NoHandle

LEMMA LargestOfTwo ==
    /\ \A n \in Nat : n < MaxCalls => n + 1 \in Objects
    /\ \A n \in Nat : n < MaxHttpCalls => n + 1 \in Objects
  <1> DEFINE M == Sets!Max({MaxCalls, MaxHttpCalls})
  <1>1. MaxCalls \in Nat /\ MaxHttpCalls \in Nat
    BY TrackingAssumption
  <1>2. \E x \in {MaxCalls, MaxHttpCalls} : \A y \in {MaxCalls, MaxHttpCalls} : x >= y
    <2>1. CASE MaxCalls >= MaxHttpCalls
      BY <1>1, <2>1
    <2>2. CASE ~(MaxCalls >= MaxHttpCalls)
      BY <1>1, <2>2
    <2>3. QED  BY <2>1, <2>2
  <1>3. M \in {MaxCalls, MaxHttpCalls} /\ \A y \in {MaxCalls, MaxHttpCalls} : M >= y
    BY <1>2, Zenon DEF Sets!Max
  <1>4. Objects = 1 .. M
    BY Zenon DEF Objects
  <1>5. M \in Nat /\ M >= MaxCalls /\ M >= MaxHttpCalls
    BY <1>1, <1>3
  <1> HIDE DEF M
  <1>6. QED  BY <1>1, <1>4, <1>5

(* What a step that enters a call does to the calls.                       *)
LEMMA EnterCalls ==
    ASSUME CallsInv, NEW t \in Callers, NEW op \in Ops,
           NEW kind \in Kinds \cup {"none"}, NEW handle \in Handles \cup {NoHandle},
           Enter(t, op, kind, handle),
           handle = NoHandle => op = "open",
           op = "open" =>
              /\ kind \in Kinds
              /\ kind \in {"connection", "request"} =>
                    handle \in HttpHandles /\ native[handle].kind = ParentKind(kind),
           op # "open" /\ handle \in HttpHandles => kind = native[handle].kind,
           op # "open" /\ kind \in HttpKinds => op \in {"use", "close"}
    PROVE  CallsInv'
  <1>0. PICK call :
           call = [at |-> "entered", number |-> calls + 1, op |-> op, kind |-> kind,
                   handle |-> handle, started |-> now, parent |-> NoObject,
                   target |-> IF handle = NoHandle THEN 0 ELSE native[handle].id]
    OBVIOUS
  <1>1. /\ calls' = calls + 1 /\ native' = native /\ now' = now
        /\ detour' = [detour EXCEPT ![t] = call]
        /\ detour[t].at = "idle"
        /\ handle # NoHandle => native[handle] # NoObject /\ ~InUse(native[handle].id)
        /\ calls < MaxCalls \/ calls < MaxHttpCalls
    BY <1>0 DEF Enter
  <1>2. CallsTyped
    BY DEF CallsInv
  <1>3. calls \in Nat /\ calls' \in Nat /\ calls' > calls
    BY <1>1, <1>2 DEF CallsTyped
  <1>4. handle # NoHandle => native[handle].id \in 1..calls /\ native[handle] # NoObject
    BY <1>1 DEF CallsInv, NativeRight
  <1>5. call \in EnteredCalls
    <2>1. call.target \in Nat
      BY <1>0, <1>2, <1>4 DEF CallsTyped
    <2>2. QED  BY <1>0, <1>2, <1>3, <1>1, <2>1 DEF CallsTyped, EnteredCalls
  <1>6. \A u \in Callers : detour'[u] = IF u = t THEN call ELSE detour[u]
    BY <1>1, <1>2 DEF CallsTyped
  <1>7. call.at = "entered" /\ call.number = calls + 1 /\ call.op = op
        /\ call.kind = kind /\ call.handle = handle
        /\ call.target = IF handle = NoHandle THEN 0 ELSE native[handle].id
    BY <1>0
  <1>8. CallsTyped'
    <2>1. (1 .. calls)' \subseteq Objects
      BY <1>1, <1>2, <1>3, LargestOfTwo DEF CallsTyped
    <2>2. QED  BY <1>1, <1>2, <1>3, <1>5, <2>1 DEF CallsTyped
  <1>9. NativeRight' /\ OneHandle' /\ SessionsKept'
    BY <1>1, <1>2, <1>3 DEF CallsInv, NativeRight, OneHandle, SessionsKept, CallsTyped
  <1>10. \A u \in Callers, id \in Nat :
            Holds(u, id)' => Holds(u, id) \/ (u = t /\ id \in {calls + 1, call.target})
    BY <1>6, <1>7 DEF Holds, Opens
  <1>11. \A u \in Callers, id \in Nat : Holds(u, id) => id <= calls
    BY DEF CallsInv, HeldRight
  <1>12. HeldRight'
    BY <1>1, <1>3, <1>4, <1>7, <1>10, <1>11 DEF HeldRight
  <1>13. \A u \in Callers : handle # NoHandle => ~Holds(u, call.target)
    <2>1. SUFFICES ASSUME NEW u \in Callers, handle # NoHandle, Holds(u, call.target)
                   PROVE  FALSE
      OBVIOUS
    <2>2. ~(detour[u].at # "idle" /\ detour[u].target = call.target)
          /\ ~(detour[u].at = "returned" /\ detour[u].object.id = call.target)
      BY <1>1, <1>7, <2>1 DEF InUse
    <2>3. detour[u].at = "entered" /\ detour[u].op = "open" /\ detour[u].number = call.target
      BY <2>1, <2>2 DEF Holds, Opens
    <2>4. ~IsOpen(call.target)
      BY <2>3 DEF CallsInv, EnteredRight, EnteredOk
    <2>5. handle \in Handles
      BY <2>1
    <2>6. QED  BY <1>7, <2>1, <2>4, <2>5 DEF IsOpen
  <1>14. OneHolder'
    <2>1. SUFFICES ASSUME NEW u \in Callers, NEW v \in Callers, NEW id \in Nat, id # 0,
                          Holds(u, id)', Holds(v, id)'
                   PROVE  u = v
      BY DEF OneHolder
    <2>2. CASE u # t /\ v # t
      BY <1>10, <2>1, <2>2 DEF CallsInv, OneHolder
    <2>3. ASSUME NEW w \in Callers, Holds(w, id), id \in {calls + 1, call.target} PROVE FALSE
      BY <1>3, <1>7, <1>11, <1>13, <2>1, <2>3
    <2>4. QED  BY <1>10, <2>1, <2>2, <2>3 DEF CallsInv, OneHolder
  <1>15. \A id : IsOpen(id)' <=> IsOpen(id)
    BY <1>1 DEF IsOpen
  <1>16. ~IsOpen(calls + 1)
    BY <1>2, <1>3 DEF CallsInv, NativeRight, IsOpen, CallsTyped, NoObject
  <1>17. EnteredRight'
    <2>1. SUFFICES ASSUME NEW u \in Callers, detour'[u].at = "entered"
                   PROVE  EnteredOk(detour[u])'
      BY DEF EnteredRight
    <2>2. CASE u = t
      <3>1. detour'[u] = call
        BY <1>6, <2>2
      <3>2. call.op = "open" =>
               /\ call.kind \in Kinds /\ call.number # 0 /\ ~IsOpen(call.number)'
               /\ call.kind \in {"connection", "request"} =>
                     /\ call.handle \in HttpHandles
                     /\ native'[call.handle].kind = ParentKind(call.kind)
        BY <1>1, <1>3, <1>7, <1>15, <1>16
      <3>3. call.handle # NoHandle => native'[call.handle].id = call.target /\ call.target # 0
        BY <1>1, <1>3, <1>4, <1>7
      <3>4. call.op # "open" /\ call.handle \in HttpHandles =>
               call.kind = native'[call.handle].kind
        BY <1>1, <1>7
      <3>5. QED  BY <1>7, <3>1, <3>2, <3>3, <3>4 DEF EnteredOk
    <2>3. CASE u # t
      <3>1. detour'[u] = detour[u] /\ EnteredOk(detour[u])
        BY <1>6, <2>1, <2>3 DEF CallsInv, EnteredRight
      <3>2. QED  BY <1>1, <1>15, <3>1 DEF EnteredOk
    <2>4. QED  BY <2>2, <2>3
  <1>18. ReturnedRight'
    <2>1. SUFFICES ASSUME NEW u \in Callers, detour'[u].at = "returned"
                   PROVE  /\ detour'[u].object.id # 0 /\ detour'[u].object.kind \in Kinds
                          /\ detour'[u].op = "open" => OpenedOk(detour[u])'
                          /\ detour'[u].op # "open" => CalledOk(detour[u])'
      BY DEF ReturnedRight
    <2>2. u # t /\ detour'[u] = detour[u]
      BY <1>6, <1>7, <2>1
    <2>3. QED
      BY <1>1, <1>15, <2>1, <2>2 DEF CallsInv, ReturnedRight, OpenedOk, CalledOk
  <1>19. QED  BY <1>8, <1>9, <1>12, <1>14, <1>17, <1>18 DEF CallsInv

(* The thread returns from the system with its object, which is named by   *)
(* the call; the calls of other threads are right about the new handles.   *)
LEMMA ReturnCalls ==
    ASSUME CallsInv, NEW t \in Callers, NEW call, call = detour[t],
           call.at = "entered", NEW back \in ReturnedCalls,
           detour' = [detour EXCEPT ![t] = back],
           UNCHANGED <<now, calls>>,
           native' \in [Handles -> ObjectRecords],
           NativeRight', OneHandle', SessionsKept',
           back.op = call.op, back.target = call.target,
           back.object.id # 0, back.object.kind \in Kinds,
           back.op = "open" => back.object.id = call.number /\ OpenedOk(back)',
           back.op # "open" => CalledOk(back)',
           \A g \in Handles, u \in Callers :
              u # t /\ detour[u].at # "idle" /\ detour[u].target = native[g].id
                 /\ native[g].id # 0 => native'[g] = native[g],
           \A g \in Handles, u \in Callers :
              u # t /\ detour[u].at = "returned" /\ native[g] = detour[u].object
                 => native'[g] = native[g],
           \A id \in Nat : IsOpen(id)' /\ id # 0 =>
              IsOpen(id) \/ (call.op = "open" /\ id = call.number)
    PROVE  CallsInv'
  <1>1. CallsTyped
    BY DEF CallsInv
  <1>2. \A u \in Callers : detour'[u] = IF u = t THEN back ELSE detour[u]
    BY <1>1 DEF CallsTyped
  <1>3. back.at = "returned"
    BY DEF ReturnedCalls
  <1>4. CallsTyped'
    BY <1>1 DEF CallsTyped
  <1>5. \A u \in Callers, id \in Nat : Holds(u, id)' => Holds(u, id)
    BY <1>2, <1>3 DEF Holds, Opens
  <1>6. HeldRight' /\ OneHolder'
    BY <1>5 DEF CallsInv, HeldRight, OneHolder
  <1>7. ASSUME NEW u \in Callers, u # t, NEW id \in Nat, id # 0, Holds(u, id), ~IsOpen(id)
        PROVE  ~IsOpen(id)'
    <2>1. SUFFICES ASSUME call.op = "open", id = call.number PROVE FALSE
      BY <1>7
    <2>2. Holds(t, id)
      BY <2>1 DEF Holds, Opens
    <2>3. QED  BY <1>7, <2>2 DEF CallsInv, OneHolder
  <1>8. EnteredRight'
    <2>1. SUFFICES ASSUME NEW u \in Callers, detour'[u].at = "entered"
                   PROVE  EnteredOk(detour[u])'
      BY DEF EnteredRight
    <2>2. u # t /\ detour'[u] = detour[u] /\ EnteredOk(detour[u])
      BY <1>2, <1>3, <2>1 DEF CallsInv, EnteredRight
    <2>3. detour[u] \in EnteredCalls
      BY <1>1, <2>1, <2>2 DEF CallsTyped, ReturnedCalls, AtRest
    <2>4. detour[u].handle # NoHandle => native'[detour[u].handle] = native[detour[u].handle]
      BY <2>1, <2>2, <2>3 DEF EnteredOk, EnteredCalls
    <2>5. detour[u].op = "open" => ~IsOpen(detour[u].number)'
      BY <1>7, <2>1, <2>2, <2>3 DEF EnteredOk, EnteredCalls, Holds, Opens
    <2>6. detour[u].handle \in HttpHandles => detour[u].handle # NoHandle
      BY TrackingAssumption
    <2>7. QED  BY <2>2, <2>4, <2>5, <2>6 DEF EnteredOk
  <1>9. ReturnedRight'
    <2>1. SUFFICES ASSUME NEW u \in Callers, detour'[u].at = "returned"
                   PROVE  /\ detour'[u].object.id # 0 /\ detour'[u].object.kind \in Kinds
                          /\ detour'[u].op = "open" => OpenedOk(detour[u])'
                          /\ detour'[u].op # "open" => CalledOk(detour[u])'
      BY DEF ReturnedRight
    <2>2. CASE u = t
      BY <1>2, <2>2 DEF OpenedOk, CalledOk
    <2>3. CASE u # t
      <3>1. detour'[u] = detour[u] /\ detour[u].at = "returned"
        BY <1>2, <2>1, <2>3
      <3>2. detour[u] \in ReturnedCalls
        BY <1>1, <3>1 DEF CallsTyped, EnteredCalls, AtRest
      <3>3. detour[u].object.id # 0 /\ detour[u].object.kind \in Kinds
        BY <3>1 DEF CallsInv, ReturnedRight
      <3>4. ASSUME detour[u].op = "open" PROVE OpenedOk(detour[u])'
        <4>1. OpenedOk(detour[u])
          BY <3>1, <3>4 DEF CallsInv, ReturnedRight
        <4>2. detour[u].kind \in {"connection", "request"} =>
                 native'[detour[u].parent] = native[detour[u].parent]
          <5>1. SUFFICES ASSUME detour[u].kind \in {"connection", "request"}
                         PROVE  native[detour[u].parent].id # 0 /\ detour[u].parent \in Handles
            BY <2>3, <3>1, <4>1 DEF OpenedOk
          <5>2. detour[u].parent \in Handles
            BY <4>1, <5>1 DEF OpenedOk, Handles
          <5>3. native[detour[u].parent].kind # "none"
            BY <4>1, <5>1 DEF OpenedOk, ParentKind
          <5>4. QED  BY <1>1, <5>2, <5>3 DEF CallsInv, NativeRight, NoObject, CallsTyped
        <4>3. detour[u].result = "ok" => native'[detour[u].handle] = detour[u].object
          <5>1. SUFFICES ASSUME detour[u].result = "ok"
                         PROVE  detour[u].handle \in Handles
            BY <2>3, <3>1, <4>1 DEF OpenedOk
          <5>2. QED  BY <4>1, <5>1 DEF OpenedOk, HandlesOf, Handles
        <4>4. detour[u].result = "failed" => ~IsOpen(detour[u].object.id)'
          BY <1>7, <2>3, <3>1, <3>2, <3>3, <3>4, <4>1 
             DEF OpenedOk, Holds, Opens, ReturnedCalls, ObjectRecords
        <4>5. QED  BY <3>1, <4>1, <4>2, <4>3, <4>4 DEF OpenedOk
      <3>5. ASSUME detour[u].op # "open" PROVE CalledOk(detour[u])'
        <4>1. CalledOk(detour[u])
          BY <3>1, <3>5 DEF CallsInv, ReturnedRight
        <4>2. detour[u].handle \in Handles
          BY <4>1 DEF CalledOk, HandlesOf, Handles
        <4>3. ~(detour[u].op = "close" /\ detour[u].result = "ok") =>
                 native'[detour[u].handle] = detour[u].object
          BY <2>3, <3>1, <4>1, <4>2 DEF CalledOk
        <4>4. ~IsOpen(detour[u].target) => ~IsOpen(detour[u].target)'
          BY <1>7, <2>3, <3>1, <3>2, <3>3, <4>1 DEF CalledOk, Holds, ReturnedCalls
        <4>5. QED  BY <3>1, <4>1, <4>3, <4>4 DEF CalledOk
      <3>6. QED  BY <3>1, <3>3, <3>4, <3>5
    <2>4. QED  BY <2>2, <2>3
  <1>10. QED  BY <1>4, <1>6, <1>8, <1>9 DEF CallsInv

(* A successful open: the lowest vacant value becomes the object's.        *)
LEMMA OpenCalls ==
    ASSUME CallsInv, NEW t \in Callers, NativeCall(t), detour[t].op = "open",
           NEW handle \in LowestVacant(detour[t].kind),
           native' = [native EXCEPT ![handle] = NewObject(detour[t])],
           Return(t, handle, NewObject(detour[t]), "ok")
    PROVE  CallsInv'
  <1>1. CallsTyped
    BY DEF CallsInv
  <1>2. PICK call : call = detour[t]
    OBVIOUS
  <1>3. /\ call \in EnteredCalls /\ call.at = "entered" /\ call.op = "open"
        /\ EnteredOk(call)
    BY <1>1, <1>2 DEF NativeCall, CallsTyped, ReturnedCalls, AtRest, CallsInv, EnteredRight
  <1>4. PICK object : object = NewObject(call)
    OBVIOUS
  <1>5. PICK back :
           back = [at |-> "returned", op |-> call.op, kind |-> call.kind,
                   handle |-> handle, object |-> object, started |-> call.started,
                   finished |-> now, result |-> "ok", target |-> call.target,
                   parent |-> call.handle]
    OBVIOUS
  <1>6. detour' = [detour EXCEPT ![t] = back]
    BY <1>1, <1>2, <1>4, <1>5 DEF Return, CallsTyped
  <1>7. /\ handle \in HandlesOf(call.kind) /\ handle \in Handles /\ Vacant(handle)
        /\ native[handle] = NoObject
    BY <1>2 DEF LowestVacant, HandlesOf, Handles, Vacant
  <1>8. UNCHANGED <<now, calls>>
    BY DEF NativeCall
  <1>9. call.number \in 1 .. calls
    <2>1. Holds(t, call.number)
      BY <1>2, <1>3 DEF Holds, Opens
    <2>2. QED  BY <1>1, <1>3, <2>1 DEF CallsInv, HeldRight, EnteredOk, EnteredCalls, CallsTyped
  <1>10. call.handle # NoHandle => call.handle \in Handles /\ native[call.handle].id = call.target
    BY <1>3 DEF EnteredOk, EnteredCalls
  <1>11. /\ object \in ObjectRecords /\ object.id = call.number /\ object.kind = call.kind
         /\ object.parent = call.handle
         /\ call.kind = "session" => object.session = call.number
         /\ call.kind # "session" /\ call.handle # NoHandle =>
               object.session = native[call.handle].session
    BY <1>1, <1>3, <1>4, <1>9, <1>10 DEF NewObject, CallsTyped, EnteredCalls, ObjectRecords
  <1>12. object.id # 0 /\ object.kind \in Kinds
    BY <1>3, <1>9, <1>11 DEF EnteredOk
  <1>13. native' = [native EXCEPT ![handle] = object]
    BY <1>2, <1>4
  <1>14. /\ \A g \in Handles : native'[g] = IF g = handle THEN object ELSE native[g]
         /\ native' \in [Handles -> ObjectRecords]
    BY <1>1, <1>7, <1>11, <1>13 DEF CallsTyped
  <1>15. \A id : IsOpen(id)' <=>
            (IsOpen(id) /\ id # 0) \/ id = call.number \/ (id = 0 /\ IsOpen(0)')
    <2>1. native[handle].id = 0
      BY <1>7 DEF NoObject
    <2>2. QED  BY <1>7, <1>11, <1>12, <1>14, <2>1 DEF IsOpen
  <1>16. ~IsOpen(call.number)
    BY <1>3 DEF EnteredOk
  <1>17. call.handle # handle
    BY <1>3, <1>7, <1>10, TrackingAssumption DEF EnteredOk, NoObject, Handles
  <1>18. call.kind \in {"connection", "request"} =>
            /\ call.handle \in HttpHandles
            /\ native[call.handle].kind = ParentKind(call.kind)
            /\ native[call.handle].id = call.target
            /\ call.handle # NoHandle /\ call.handle \in Handles
    BY <1>3, TrackingAssumption DEF EnteredOk, Handles
  <1>19. NativeRight'
    BY <1>7, <1>8, <1>9, <1>11, <1>12, <1>14 DEF CallsInv, NativeRight
  <1>20. OneHandle'
    BY <1>7, <1>11, <1>14, <1>16 DEF CallsInv, OneHandle, IsOpen
  <1>21. SessionsKept'
    <2>1. SUFFICES ASSUME NEW h \in Handles, native'[h].kind = "connection"
                   PROVE  /\ native'[h].parent \in HttpHandles
                          /\ \/ native'[native'[h].parent] = NoObject
                             \/ native'[native'[h].parent].id = native'[h].session
      BY DEF SessionsKept
    <2>2. CASE h = handle
      <3>1. call.kind = "connection" /\ native'[h] = object
        BY <1>11, <1>14, <2>1, <2>2
      <3>2. native[call.handle].kind = "session" /\ native[call.handle] # NoObject
        BY <1>18, <3>1 DEF ParentKind, NoObject
      <3>3. native[call.handle].session = native[call.handle].id
        BY <1>18, <3>1, <3>2 DEF CallsInv, NativeRight
      <3>4. QED  BY <1>11, <1>14, <1>17, <1>18, <3>1, <3>3
    <2>3. CASE h # handle
      <3>1. native'[h] = native[h]
        BY <1>14, <2>3
      <3>2. h \in HttpHandles
        BY <2>1, <3>1 DEF CallsInv, NativeRight, NoObject, HandlesOf, FileKinds
      <3>3. native[h].parent # handle
        BY <1>7, <3>2 DEF Vacant
      <3>4. native[h].parent \in HttpHandles /\ native[h].parent \in Handles
        BY <2>1, <3>1 DEF CallsInv, SessionsKept, Handles
      <3>5. QED  BY <1>14, <2>1, <3>1, <3>3, <3>4 DEF CallsInv, SessionsKept
    <2>4. QED  BY <2>2, <2>3
  <1>22. back \in ReturnedCalls
    BY <1>1, <1>3, <1>5, <1>7, <1>11 DEF ReturnedCalls, EnteredCalls, CallsTyped
  <1>23. OpenedOk(back)'
    <2>1. back.kind \in {"connection", "request"} =>
             /\ native'[back.parent] = native[back.parent]
             /\ back.object.session = native[back.parent].session
      BY <1>5, <1>11, <1>14, <1>17, <1>18
    <2>2. native'[handle] = object
      BY <1>7, <1>14
    <2>3. QED  BY <1>5, <1>7, <1>11, <1>18, <2>1, <2>2 DEF OpenedOk
  <1>24. \A g \in Handles : native[g].id # 0 => native'[g] = native[g]
    BY <1>7, <1>14 DEF NoObject
  <1>25. \A g \in Handles, u \in Callers :
            detour[u].at = "returned" /\ native[g] = detour[u].object => native'[g] = native[g]
    BY <1>24 DEF CallsInv, ReturnedRight
  <1>26. \A id \in Nat : IsOpen(id)' => IsOpen(id) \/ id = call.number
    BY <1>7, <1>11, <1>14 DEF IsOpen
  <1>27. /\ back.op = call.op /\ back.target = call.target
         /\ back.object.id # 0 /\ back.object.kind \in Kinds
         /\ back.op = "open" => back.object.id = call.number /\ OpenedOk(back)'
         /\ back.op # "open" => CalledOk(back)'
    BY <1>3, <1>5, <1>11, <1>12, <1>23
  <1>28. \A id \in Nat : IsOpen(id)' /\ id # 0 =>
            IsOpen(id) \/ (call.op = "open" /\ id = call.number)
    BY <1>3, <1>26
  <1>29. /\ \A g \in Handles, u \in Callers :
               u # t /\ detour[u].at # "idle" /\ detour[u].target = native[g].id
                  /\ native[g].id # 0 => native'[g] = native[g]
         /\ \A g \in Handles, u \in Callers :
               u # t /\ detour[u].at = "returned" /\ native[g] = detour[u].object
                  => native'[g] = native[g]
    BY <1>24, <1>25
  <1>30. QED
    BY <1>2, <1>3, <1>6, <1>8, <1>14, <1>19, <1>20, <1>21, <1>22, <1>27, <1>28, <1>29,
       ReturnCalls, ZenonT(60)

(* The other answers of the system.                                        *)
LEMMA OpenFailedCalls ==
    ASSUME CallsInv, NEW t \in Callers, NativeCall(t), detour[t].op = "open",
           Return(t, NoHandle, [NewObject(detour[t]) EXCEPT !.parent = NoHandle], "failed"),
           native' = native
    PROVE  CallsInv'
  <1>1. CallsTyped
    BY DEF CallsInv
  <1>2. PICK call : call = detour[t]
    OBVIOUS
  <1>3. /\ call \in EnteredCalls /\ call.at = "entered" /\ call.op = "open"
        /\ EnteredOk(call)
    BY <1>1, <1>2 DEF NativeCall, CallsTyped, ReturnedCalls, AtRest, CallsInv, EnteredRight
  <1>4. PICK object : object = [NewObject(call) EXCEPT !.parent = NoHandle]
    OBVIOUS
  <1>5. PICK back :
           back = [at |-> "returned", op |-> call.op, kind |-> call.kind,
                   handle |-> NoHandle, object |-> object, started |-> call.started,
                   finished |-> now, result |-> "failed", target |-> call.target,
                   parent |-> call.handle]
    OBVIOUS
  <1>6. detour' = [detour EXCEPT ![t] = back]
    BY <1>1, <1>2, <1>4, <1>5 DEF Return, CallsTyped
  <1>7. UNCHANGED <<now, calls>>
    BY DEF NativeCall
  <1>8. call.handle # NoHandle => call.handle \in Handles /\ native[call.handle].id = call.target
    BY <1>3 DEF EnteredOk, EnteredCalls
  <1>9. /\ object \in ObjectRecords /\ object.id = call.number /\ object.kind = call.kind
        /\ call.kind = "session" => object.session = call.number
        /\ call.kind # "session" /\ call.handle # NoHandle =>
              object.session = native[call.handle].session
    BY <1>1, <1>3, <1>4, <1>8 DEF NewObject, CallsTyped, EnteredCalls, ObjectRecords
  <1>10. object.id # 0 /\ object.kind \in Kinds
    BY <1>3, <1>9 DEF EnteredOk
  <1>11. \A id : IsOpen(id)' <=> IsOpen(id)
    BY DEF IsOpen
  <1>12. back \in ReturnedCalls
    BY <1>1, <1>3, <1>5, <1>9 DEF ReturnedCalls, EnteredCalls, CallsTyped
  <1>13. call.kind \in {"connection", "request"} =>
            /\ call.handle \in HttpHandles
            /\ native[call.handle].kind = ParentKind(call.kind)
            /\ native[call.handle].id = call.target
            /\ call.handle # NoHandle
    BY <1>3, <1>8, TrackingAssumption DEF EnteredOk
  <1>14. OpenedOk(back)'
    BY <1>3, <1>5, <1>9, <1>11, <1>13 DEF OpenedOk, EnteredOk
  <1>15. NativeRight' /\ OneHandle' /\ SessionsKept'
    BY <1>7 DEF CallsInv, NativeRight, OneHandle, SessionsKept
  <1>16. native' \in [Handles -> ObjectRecords]
    BY <1>1 DEF CallsTyped
  <1>17. /\ back.op = call.op /\ back.target = call.target
         /\ back.object.id # 0 /\ back.object.kind \in Kinds
         /\ back.op = "open" => back.object.id = call.number /\ OpenedOk(back)'
         /\ back.op # "open" => CalledOk(back)'
    BY <1>3, <1>5, <1>9, <1>10, <1>14
  <1>18. \A id \in Nat : IsOpen(id)' /\ id # 0 =>
            IsOpen(id) \/ (call.op = "open" /\ id = call.number)
    BY <1>11
  <1>19. /\ \A g \in Handles, u \in Callers :
               u # t /\ detour[u].at # "idle" /\ detour[u].target = native[g].id
                  /\ native[g].id # 0 => native'[g] = native[g]
         /\ \A g \in Handles, u \in Callers :
               u # t /\ detour[u].at = "returned" /\ native[g] = detour[u].object
                  => native'[g] = native[g]
    OBVIOUS
  <1>20. QED
    BY <1>2, <1>3, <1>6, <1>7, <1>12, <1>15, <1>16, <1>17, <1>18, <1>19, ReturnCalls, Zenon

(* A use or a close, answered.                                             *)
LEMMA UseCalls ==
    ASSUME CallsInv, NEW t \in Callers, NativeCall(t), detour[t].op # "open",
           NEW result \in {"ok", "failed"},
           Return(t, detour[t].handle, native[detour[t].handle], result),
           native' = IF detour[t].op = "close" /\ result = "ok"
                     THEN [native EXCEPT ![detour[t].handle] = NoObject]
                     ELSE native
    PROVE  CallsInv'
  <1>1. CallsTyped
    BY DEF CallsInv
  <1>2. PICK call : call = detour[t]
    OBVIOUS
  <1>3. /\ call \in EnteredCalls /\ call.at = "entered" /\ call.op # "open"
        /\ EnteredOk(call)
    BY <1>1, <1>2 DEF NativeCall, CallsTyped, ReturnedCalls, AtRest, CallsInv, EnteredRight
  <1>4. PICK object : object = native[call.handle]
    OBVIOUS
  <1>5. PICK back :
           back = [at |-> "returned", op |-> call.op, kind |-> call.kind,
                   handle |-> call.handle, object |-> object, started |-> call.started,
                   finished |-> now, result |-> result, target |-> call.target,
                   parent |-> call.handle]
    OBVIOUS
  <1>6. detour' = [detour EXCEPT ![t] = back]
    BY <1>1, <1>2, <1>4, <1>5 DEF Return, CallsTyped
  <1>7. UNCHANGED <<now, calls>>
    BY DEF NativeCall
  <1>8. /\ call.handle \in Handles /\ call.handle # NoHandle /\ native[call.handle] = object
        /\ object.id = call.target /\ call.target # 0 /\ object # NoObject
    BY <1>3, <1>4 DEF EnteredOk, EnteredCalls, NoObject
  <1>9. /\ object \in ObjectRecords /\ object.kind \in Kinds
        /\ call.handle \in HandlesOf(object.kind)
    BY <1>1, <1>8 DEF CallsTyped, CallsInv, NativeRight
  <1>10. back \in ReturnedCalls
    BY <1>1, <1>3, <1>5, <1>9 DEF ReturnedCalls, EnteredCalls, CallsTyped
  <1>11. \A g \in Handles : native'[g] = IF call.op = "close" /\ result = "ok" /\ g = call.handle
                                         THEN NoObject ELSE native[g]
    BY <1>1, <1>2 DEF CallsTyped
  <1>12. native' \in [Handles -> ObjectRecords]
    BY <1>1, <1>2 DEF CallsTyped, ObjectRecords, NoObject
  <1>13. NoObject.id = 0 /\ NoObject.kind = "none" /\ "none" \notin Kinds
    BY DEF NoObject, Kinds, FileKinds, HttpKinds
  <1>14. NativeRight' /\ OneHandle'
    BY <1>7, <1>11, <1>13 DEF CallsInv, NativeRight, OneHandle
  <1>15. SessionsKept'
    <2>1. SUFFICES ASSUME NEW h \in Handles, native'[h].kind = "connection"
                   PROVE  /\ native'[h].parent \in HttpHandles
                          /\ \/ native'[native'[h].parent] = NoObject
                             \/ native'[native'[h].parent].id = native'[h].session
      BY DEF SessionsKept
    <2>2. native'[h] = native[h]
      BY <1>11, <1>13, <2>1
    <2>3. native[h].parent \in Handles /\ native[h].parent \in HttpHandles
      BY <2>1, <2>2 DEF CallsInv, SessionsKept, Handles
    <2>4. QED  BY <1>11, <2>1, <2>2, <2>3 DEF CallsInv, SessionsKept
  <1>16. \A id \in Nat : IsOpen(id)' => IsOpen(id) \/ id = 0
    BY <1>11, <1>13 DEF IsOpen
  <1>17. call.op = "close" /\ result = "ok" => ~IsOpen(call.target)'
    BY <1>8, <1>11, <1>13 DEF IsOpen, CallsInv, OneHandle
  <1>18. CalledOk(back)'
    <2>1. ~(call.op = "close" /\ result = "ok") => native'[call.handle] = object
      BY <1>8, <1>11
    <2>2. call.handle \in HttpHandles => call.kind = object.kind
      BY <1>3, <1>8 DEF EnteredOk
    <2>3. call.kind \in HttpKinds => call.op \in {"use", "close"}
      BY <1>3 DEF EnteredOk
    <2>4. QED  BY <1>5, <1>8, <1>9, <1>17, <2>1, <2>2, <2>3 DEF CalledOk
  <1>19. \A g \in Handles, u \in Callers :
            u # t /\ detour[u].at # "idle" /\ detour[u].target = native[g].id
               /\ native[g].id # 0 => native'[g] = native[g]
    <2>1. SUFFICES ASSUME NEW g \in Handles, NEW u \in Callers, u # t, detour[u].at # "idle",
                          detour[u].target = native[g].id, native[g].id # 0,
                          g = call.handle
                   PROVE  FALSE
      BY <1>11
    <2>2. Holds(t, call.target) /\ Holds(u, call.target)
      BY <1>2, <1>3, <1>8, <2>1 DEF Holds
    <2>3. QED  BY <1>3, <1>8, <2>1, <2>2 DEF CallsInv, OneHolder, EnteredCalls
  <1>20. \A g \in Handles, u \in Callers :
            u # t /\ detour[u].at = "returned" /\ native[g] = detour[u].object
               => native'[g] = native[g]
    <2>1. SUFFICES ASSUME NEW g \in Handles, NEW u \in Callers, u # t, detour[u].at = "returned",
                          native[g] = detour[u].object, g = call.handle
                   PROVE  FALSE
      BY <1>11
    <2>2. Holds(u, call.target)
      BY <1>8, <2>1 DEF Holds, Opens, CallsInv, ReturnedRight, CalledOk
    <2>3. Holds(t, call.target)
      BY <1>2, <1>3 DEF Holds
    <2>4. QED  BY <1>3, <1>8, <2>1, <2>2, <2>3 DEF CallsInv, OneHolder, EnteredCalls
  <1>21. /\ back.op = call.op /\ back.target = call.target
         /\ back.object.id # 0 /\ back.object.kind \in Kinds
         /\ back.op = "open" => back.object.id = call.number /\ OpenedOk(back)'
         /\ back.op # "open" => CalledOk(back)'
    BY <1>3, <1>5, <1>8, <1>9, <1>18
  <1>22. \A id \in Nat : IsOpen(id)' /\ id # 0 =>
            IsOpen(id) \/ (call.op = "open" /\ id = call.number)
    BY <1>16
  <1>23. /\ \A g \in Handles, u \in Callers :
               u # t /\ detour[u].at # "idle" /\ detour[u].target = native[g].id
                  /\ native[g].id # 0 => native'[g] = native[g]
         /\ \A g \in Handles, u \in Callers :
               u # t /\ detour[u].at = "returned" /\ native[g] = detour[u].object
                  => native'[g] = native[g]
    BY <1>19, <1>20
  <1>24. QED
    BY <1>2, <1>3, <1>6, <1>7, <1>10, <1>12, <1>14, <1>15, <1>21, <1>22, <1>23, ReturnCalls, Zenon

(* The calls, at the start and after every step.                           *)
LEMMA CallsStart == TrackingInit => CallsInv
  <1>1. SUFFICES ASSUME TrackingInit PROVE CallsInv
    OBVIOUS
  <1>2. /\ now = 1 /\ calls = 0 /\ \A h \in Handles : native[h] = NoObject
        /\ \A t \in Callers : detour[t] = AtRest
        /\ native \in [Handles -> ObjectRecords]
        /\ detour \in [Callers -> {AtRest} \cup EnteredCalls \cup ReturnedCalls]
    BY <1>1 DEF TrackingInit, ObjectRecords, NoObject
  <1>3. AtRest.at = "idle"
    BY DEF AtRest
  <1>4. CallsTyped
    BY <1>2 DEF CallsTyped
  <1>5. NativeRight /\ OneHandle /\ SessionsKept
    BY <1>2 DEF NativeRight, OneHandle, SessionsKept, NoObject
  <1>6. OneHolder /\ HeldRight
    BY <1>2, <1>3 DEF OneHolder, HeldRight, Holds, Opens
  <1>7. EnteredRight /\ ReturnedRight
    BY <1>2, <1>3 DEF EnteredRight, ReturnedRight
  <1>8. QED  BY <1>4, <1>5, <1>6, <1>7 DEF CallsInv

LEMMA EnterOpenCalls ==
    ASSUME CallsInv, NEW t \in Callers, NEW kind \in Kinds, EnterOpen(t, kind)
    PROVE  CallsInv'
  <1>1. CASE kind \in FileKinds \cup {"session"} /\ Enter(t, "open", kind, NoHandle)
    <2>1. kind \notin {"connection", "request"}
      BY <1>1 DEF FileKinds
    <2>2. QED
      BY <1>1, <2>1, EnterCalls DEF Ops
  <1>2. ASSUME NEW handle \in HttpHandles,
               <<native[handle].kind, kind>> \in
                  {<<"session", "connection">>, <<"connection", "request">>},
               Enter(t, "open", kind, handle)
        PROVE  CallsInv'
    <2>1. native[handle].kind = ParentKind(kind)
      BY <1>2 DEF ParentKind
    <2>2. handle \in Handles \cup {NoHandle}
      BY DEF Handles
    <2>3. handle # NoHandle
      BY TrackingAssumption
    <2>4. QED  BY <1>2, <2>1, <2>2, <2>3, EnterCalls DEF Ops
  <1>3. QED  BY <1>1, <1>2 DEF EnterOpen

LEMMA EnterCallCalls ==
    ASSUME CallsInv, NEW t \in Callers, EnterCall(t)
    PROVE  CallsInv'
  <1>0. PICK handle \in Handles : \E op \in OpsOf(native[handle].kind) :
           Enter(t, op, IF handle \in HttpHandles THEN native[handle].kind
                                                  ELSE TrackedKind(handle), handle)
    BY DEF EnterCall
  <1>1. PICK op \in OpsOf(native[handle].kind) :
           Enter(t, op, IF handle \in HttpHandles THEN native[handle].kind
                                                  ELSE TrackedKind(handle), handle)
    BY <1>0
  <1>2. PICK kind : kind = IF handle \in HttpHandles THEN native[handle].kind
                                                     ELSE TrackedKind(handle)
    OBVIOUS
  <1>3. Enter(t, op, kind, handle)
    BY <1>1, <1>2
  <1>4. handle # NoHandle
    BY TrackingAssumption DEF Handles
  <1>5. op \in Ops /\ op # "open"
    BY DEF OpsOf, Ops
  <1>6. kind \in Kinds \cup {"none"}
    BY <1>2 DEF CallsInv, CallsTyped, ObjectRecords, TrackedKind, Kinds, FileKinds
  <1>7. kind \in HttpKinds => op \in {"use", "close"}
    <2>1. SUFFICES ASSUME kind \in HttpKinds PROVE kind = native[handle].kind /\ kind # "pipe"
      BY DEF OpsOf
    <2>2. TrackedKind(handle) \notin HttpKinds
      BY DEF TrackedKind, HttpKinds
    <2>3. QED  BY <1>2, <2>1, <2>2 DEF HttpKinds
  <1>8. QED  BY <1>2, <1>3, <1>4, <1>5, <1>6, <1>7, EnterCalls

LEMMA NativeCallCalls ==
    ASSUME CallsInv, NEW t \in Callers, NativeCall(t)
    PROVE  CallsInv'
  <1>1. CASE detour[t].op = "open" /\ NativeOpen(t)
    <2>1. CASE /\ Return(t, NoHandle, [NewObject(detour[t]) EXCEPT !.parent = NoHandle],
                         "failed")
               /\ native' = native
      BY <1>1, <2>1, OpenFailedCalls
    <2>2. ASSUME NEW handle \in LowestVacant(detour[t].kind),
                 native' = [native EXCEPT ![handle] = NewObject(detour[t])],
                 Return(t, handle, NewObject(detour[t]), "ok")
          PROVE  CallsInv'
      BY <1>1, <2>2, OpenCalls
    <2>3. QED  BY <1>1, <2>1, <2>2 DEF NativeOpen
  <1>2. CASE detour[t].op # "open" /\ NativeUse(t)
    <2>1. PICK result \in {"ok", "failed"} :
             /\ Return(t, detour[t].handle, native[detour[t].handle], result)
             /\ native' = IF detour[t].op = "close" /\ result = "ok"
                          THEN [native EXCEPT ![detour[t].handle] = NoObject]
                          ELSE native
      BY <1>2 DEF NativeUse
    <2>2. QED  BY <1>2, <2>1, UseCalls
  <1>3. QED  BY <1>1, <1>2 DEF NativeCall, NativeOpen, NativeUse

LEMMA ObserveCalls ==
    ASSUME CallsInv, NEW t \in Callers, Observe(t)
    PROVE  CallsInv'
  <1>1. /\ native' = native /\ calls' = calls /\ now' = now
        /\ detour' = [detour EXCEPT ![t] = AtRest]
    BY DEF Observe
  <1>2. CallsTyped
    BY DEF CallsInv
  <1>3. \A u \in Callers : detour'[u] = IF u = t THEN AtRest ELSE detour[u]
    BY <1>1, <1>2 DEF CallsTyped
  <1>4. AtRest.at = "idle"
    BY DEF AtRest
  <1>5. CallsTyped' /\ NativeRight' /\ OneHandle' /\ SessionsKept'
    BY <1>1, <1>2 DEF CallsInv, CallsTyped, NativeRight, OneHandle, SessionsKept
  <1>6. \A u \in Callers, id \in Nat : Holds(u, id)' => Holds(u, id)
    BY <1>3, <1>4 DEF Holds, Opens
  <1>7. OneHolder' /\ HeldRight'
    BY <1>1, <1>6 DEF CallsInv, OneHolder, HeldRight
  <1>8. \A id : IsOpen(id)' <=> IsOpen(id)
    BY <1>1 DEF IsOpen
  <1>9. EnteredRight'
    BY <1>1, <1>3, <1>4, <1>8 DEF CallsInv, EnteredRight, EnteredOk
  <1>10. ReturnedRight'
    BY <1>1, <1>3, <1>4, <1>8 DEF CallsInv, ReturnedRight, OpenedOk, CalledOk
  <1>11. QED  BY <1>5, <1>7, <1>9, <1>10 DEF CallsInv

LEMMA CallsStill ==
    ASSUME CallsInv, now' \in Nat, UNCHANGED <<native, calls, detour>>
    PROVE  CallsInv'
  <1>1. CallsTyped' /\ NativeRight' /\ OneHandle' /\ SessionsKept'
    BY DEF CallsInv, CallsTyped, NativeRight, OneHandle, SessionsKept
  <1>2. /\ \A t \in Callers : \A id \in Nat : Holds(t, id)' <=> Holds(t, id)
        /\ \A id : IsOpen(id)' <=> IsOpen(id)
    BY DEF Holds, Opens, IsOpen
  <1>3. OneHolder' /\ HeldRight'
    BY <1>2 DEF CallsInv, OneHolder, HeldRight
  <1>4. EnteredRight'
    BY <1>2 DEF CallsInv, EnteredRight, EnteredOk
  <1>5. ReturnedRight'
    BY <1>2 DEF CallsInv, ReturnedRight, OpenedOk, CalledOk
  <1>6. QED  BY <1>1, <1>3, <1>4, <1>5 DEF CallsInv

LEMMA CallsStep ==
    ASSUME CallsInv, TrackingNext, kinds \subseteq Kinds
    PROVE  CallsInv'
  <1>1. CASE ClockTicks
    BY <1>1, CallsStill DEF ClockTicks, CallsInv, CallsTyped
  <1>2. QED
    BY <1>1, EnterOpenCalls, EnterCallCalls, NativeCallCalls, ObserveCalls DEF TrackingNext

-----------------------------------------------------------------------------
(* What an observation does to the ledger: it sets slot j of one table to  *)
(* an entry, or none where j is 0, gives out a number or not, and adds a   *)
(* report or none.                                                         *)
NoReport == [kind |-> "none"]
OutOf(kind, entry) == IF kind = "pipe" THEN entry.pending ELSE entry.sequence

(* The slot, the number and the report.                                    *)
Moves(kind, j, entry, given, r) ==
    /\ kind \in Kinds /\ j \in {0} \cup DOMAIN tables[kind] /\ entry \in Entries
    /\ given \in BOOLEAN /\ r \in Reports \cup {NoReport}
    /\ tables' = IF j = 0 THEN tables ELSE [tables EXCEPT ![kind][j] = entry]
    /\ sequence' = IF given THEN [sequence EXCEPT ![kind] = @ + 1] ELSE sequence
    /\ emitted' = IF r = NoReport THEN emitted ELSE Append(emitted, r)
    /\ r # NoReport => r.kind = kind
    /\ kind \notin Numbered => ~given /\ r = NoReport

(* A report takes the number that is outstanding in the slot, or the one   *)
(* given out now; an entry keeps the number of its slot, or takes that.    *)
Counts(kind, j, entry, given, r) ==
    /\ r # NoReport =>
          \/ /\ r.number = sequence[kind] + 1 /\ given
             /\ j # 0 => OutOf(kind, entry) = 0
          \/ j # 0 /\ r.number = OutOf(kind, tables[kind][j]) /\ r.number # 0
             /\ OutOf(kind, entry) = 0
    /\ j # 0 =>
          \/ OutOf(kind, entry) \in {0, OutOf(kind, tables[kind][j])}
          \/ OutOf(kind, entry) = sequence[kind] + 1 /\ given
    /\ j # 0 /\ entry.handle # NoHandle =>
          /\ kind \in {"log", "request"} => OutOf(kind, entry) # 0
          /\ entry.object \in 1..calls
    /\ j # 0 /\ entry.handle = NoHandle => entry = NoEntry

(* The slot is filled by an open, emptied by a close, or changed by a use. *)
Placed(call, kind, j, entry) ==
    /\ call.op = "open" /\ call.result = "ok" /\ kind = call.kind
    /\ entry.handle = call.handle /\ entry.object = call.object.id
    /\ \/ tables[kind][j].handle = NoHandle
       \/ kind = "pipe" /\ tables[kind][j].handle = call.handle
    /\ entry.calls = 0
    /\ kind = "connection" => entry.parent = call.parent
    /\ IF kind = "request"
       THEN entry.session = KnownSession(call.parent) /\ entry.own_session = call.object.session
       ELSE entry.session = 0

Dropped(call, kind, j, entry) ==
    /\ call.op = "close" /\ entry = NoEntry
    /\ tables[kind][j].handle = call.handle

Changed(call, kind, j, entry) ==
    /\ call.op \notin {"open", "close"} /\ kind = call.kind
    /\ tables[kind][j].handle = call.handle
    /\ entry.handle = call.handle /\ entry.object = tables[kind][j].object
    /\ entry.session = tables[kind][j].session
    /\ entry.own_session = tables[kind][j].own_session
    /\ entry.parent = tables[kind][j].parent
    /\ \/ kind = "pipe" /\ entry.calls = tables[kind][j].calls
       \/ kind # "pipe" /\ entry.calls = tables[kind][j].calls + 1

(* The slot, and the calls counted.                                        *)
Tracks(call, kind, j, entry) ==
    /\ \/ j = 0 \/ Placed(call, kind, j, entry) \/ Dropped(call, kind, j, entry)
       \/ Changed(call, kind, j, entry)
    /\ observed' = IF j # 0 /\ kind # "pipe" /\ Changed(call, kind, j, entry)
                   THEN [observed EXCEPT ![call.object.id] = @ + 1] ELSE observed

(* What is left out of the tables.                                         *)
Misses(call, kind, j) ==
    /\ untracked \subseteq untracked' /\ untracked' \subseteq untracked \cup {call.object.id}
    /\ call.op = "open" /\ call.result = "ok" /\ j = 0 => call.object.id \in untracked'
    /\ call.op = "close" /\ call.result = "failed" => call.object.id \in untracked'
    /\ call.op = "close" /\ j = 0 /\ call.kind \in Kinds =>
          ~IsTracked(call.kind, call.handle)

(* The report, but for its number.                                         *)
Tells(call, kind, j, r) ==
    r # NoReport =>
       IF call.op = "open"
       THEN /\ j = 0 /\ r.object = call.object.id /\ r.calls = 0
            /\ \/ r.session = 0
               \/ /\ call.kind = "request" /\ r.session = KnownSession(call.parent)
                  /\ r.own_session = call.object.session
       ELSE /\ j # 0 /\ (call.op = "close" \/ kind = "pipe")
            /\ r.object = tables[kind][j].object /\ r.calls = tables[kind][j].calls
            /\ r.session = tables[kind][j].session
            /\ r.own_session = tables[kind][j].own_session

(* All of it: every observation does so, of one table at a time.           *)
Ledger(call, kind, j, entry, given, r) ==
    /\ Moves(kind, j, entry, given, r) /\ Counts(kind, j, entry, given, r)
    /\ Tracks(call, kind, j, entry) /\ Misses(call, kind, j) /\ Tells(call, kind, j, r)

(* The first slot with a handle has it.                                    *)
LEMMA SlotHas ==
    ASSUME TablesTyped, NEW kind \in Kinds, NEW handle, IsTracked(kind, handle)
    PROVE  /\ SlotOf(kind, handle) \in DOMAIN tables[kind]
           /\ SlotOf(kind, handle) \in Nat \ {0}
           /\ tables[kind][SlotOf(kind, handle)].handle = handle
  <1> DEFINE S == SlotsWith(kind, handle)
  <1>1. DOMAIN tables[kind] = 1 .. TableSizes[kind]
    BY DEF TablesTyped
  <1>2. S # {} /\ S \subseteq Nat /\ S \subseteq DOMAIN tables[kind] /\ 0 \notin S
    BY <1>1, TrackingAssumption DEF IsTracked, SlotsWith
  <1>3. \A i \in S : tables[kind][i].handle = handle
    BY DEF SlotsWith
  <1> HIDE DEF S
  <1>4. \E x \in S : \A y \in S : x =< y
    <2>1. PICK x \in S : \A y \in S : ~(<<y, x>> \in OpToRel(<, Nat))
      BY <1>2, NatLessThanWellFounded, WFMin, Zenon
    <2>2. \A y \in S : ~(y < x)
      BY <1>2, <2>1 DEF OpToRel
    <2>3. \A y \in S : x =< y
      BY <1>2, <2>2
    <2>4. QED  BY <2>3
  <1>5. Sets!Min(S) \in S
    BY <1>4, Zenon DEF Sets!Min
  <1>6. SlotOf(kind, handle) = Sets!Min(S)
    BY DEF SlotOf, S
  <1>7. QED  BY <1>2, <1>3, <1>5, <1>6

LEMMA EntryTyped ==
    ASSUME TablesTyped, NEW kind \in Kinds, NEW i \in DOMAIN tables[kind]
    PROVE  tables[kind][i] \in Entries
  BY DEF TablesTyped

(* A returned call.                                                        *)
LEMMA ReturnedFacts ==
    ASSUME CallsInv, NEW t \in Callers, detour[t].at = "returned",
           NEW call, call = detour[t]
    PROVE  /\ call \in ReturnedCalls
           /\ call.object.id \in 1..calls /\ call.object.id \in Objects
           /\ call.object.id \in Nat /\ call.object.session \in Nat
           /\ call.object.kind \in Kinds
           /\ call.op = "open" => OpenedOk(call) /\ call.kind \in Kinds
           /\ call.op # "open" => CalledOk(call) /\ call.handle # NoHandle
           /\ call.op = "open" /\ call.result = "ok" =>
                 call.handle # NoHandle /\ call.handle \in Handles
  <1>1. CallsTyped
    BY DEF CallsInv
  <1>2. call \in ReturnedCalls
    BY <1>1 DEF CallsTyped, EnteredCalls, AtRest
  <1>3. /\ call.object.id # 0 /\ call.object.kind \in Kinds
        /\ call.op = "open" => OpenedOk(call)
        /\ call.op # "open" => CalledOk(call)
    BY DEF CallsInv, ReturnedRight
  <1>4. call.object.id \in Nat /\ call.object.session \in Nat
    BY <1>2 DEF ReturnedCalls, ObjectRecords
  <1>5. Holds(t, call.object.id)
    BY <1>3 DEF Holds, Opens, CalledOk
  <1>6. call.object.id <= calls
    BY <1>4, <1>5 DEF CallsInv, HeldRight
  <1>7. \A kind : HandlesOf(kind) \subseteq Handles
    BY DEF HandlesOf, Handles
  <1>8. NoHandle \notin Handles
    BY TrackingAssumption DEF Handles
  <1>9. call.op = "open" => call.kind \in Kinds
    BY <1>3 DEF OpenedOk
  <1>10. call.object.id \in 1..calls
    BY <1>1, <1>3, <1>4, <1>6 DEF CallsTyped
  <1>11. call.object.id \in Objects
    BY <1>1, <1>10 DEF CallsTyped
  <1>12. QED
    BY <1>2, <1>3, <1>4, <1>7, <1>8, <1>9, <1>10, <1>11 DEF OpenedOk, CalledOk

(* What is no report and no entry, and a step that leaves the ledger       *)
(* alone.                                                                  *)
LEMMA NoReportApart ==
    /\ NoReport \notin Reports
    /\ NoEntry \in Entries /\ NoEntry.handle = NoHandle /\ NoEntry.pending = 0
    /\ NoEntry.sequence = 0 /\ NoEntry.session = 0 /\ NoEntry.own_session = 0
    /\ NoEntry.calls = 0 /\ NoEntry.object = 0 /\ NoEntry.parent = NoHandle
  BY DEF NoReport, Reports, NoEntry, Entry, Entries

LEMMA LedgerStill ==
    ASSUME NEW call, NEW kind \in Kinds,
           UNCHANGED <<tables, sequence, emitted, observed>>,
           Misses(call, kind, 0)
    PROVE  Ledger(call, kind, 0, NoEntry, FALSE, NoReport)
  <1>1. Moves(kind, 0, NoEntry, FALSE, NoReport)
    BY NoReportApart DEF Moves
  <1>2. Counts(kind, 0, NoEntry, FALSE, NoReport)
    BY DEF Counts
  <1>3. Tracks(call, kind, 0, NoEntry) /\ Tells(call, kind, 0, NoReport)
    BY DEF Tracks, Tells
  <1>4. QED  BY <1>1, <1>2, <1>3 DEF Ledger

(* Track fills a free slot, or leaves the object out.                      *)
LEMMA TrackSlot ==
    ASSUME TablesTyped, NEW kind \in Kinds, NEW entry, Track(kind, entry)
    PROVE  \E j \in {0} \cup DOMAIN tables[kind] :
              /\ tables' = IF j = 0 THEN tables ELSE [tables EXCEPT ![kind][j] = entry]
              /\ j = 0 => /\ ~IsTracked(kind, NoHandle)
                          /\ untracked' = untracked \cup {entry.object}
              /\ j # 0 => /\ IsTracked(kind, NoHandle) /\ untracked' = untracked
                          /\ tables[kind][j].handle = NoHandle
  <1>1. CASE IsTracked(kind, NoHandle)
    <2>1. SlotOf(kind, NoHandle) \in DOMAIN tables[kind] /\ SlotOf(kind, NoHandle) # 0
          /\ tables[kind][SlotOf(kind, NoHandle)].handle = NoHandle
      BY <1>1, SlotHas
    <2>2. QED  BY <1>1, <2>1 DEF Track, SetSlot
  <1>2. CASE ~IsTracked(kind, NoHandle)
    BY <1>2 DEF Track
  <1>3. QED  BY <1>1, <1>2

(* An opened object is entered, or left out of a full table.               *)
LEMMA LedgerPlaced ==
    ASSUME CallsInv, TablesTyped, LedgerTyped, NEW t \in Callers,
           detour[t].at = "returned", NEW call, call = detour[t],
           call.op = "open", call.result = "ok",
           NEW kind, kind = call.kind,
           NEW j \in {0} \cup DOMAIN tables[kind], NEW entry \in Entries,
           NEW given \in BOOLEAN,
           given => kind \in Numbered /\ sequence' = [sequence EXCEPT ![kind] = @ + 1],
           ~given => sequence' = sequence,
           tables' = IF j = 0 THEN tables ELSE [tables EXCEPT ![kind][j] = entry],
           j = 0 => untracked' = untracked \cup {call.object.id},
           j # 0 => untracked' = untracked,
           UNCHANGED <<emitted, observed>>,
           j # 0 => Placed(call, kind, j, entry),
           entry.pending = 0,
           entry.sequence = IF kind \in {"log", "request"} THEN sequence[kind] + 1 ELSE 0,
           kind \in {"log", "request"} /\ j # 0 => given
    PROVE  \E e \in Entries : Ledger(call, kind, j, e, given, NoReport)
  <1>1. /\ kind \in Kinds /\ call.object.id \in 1..calls /\ call.handle # NoHandle
        /\ call \in ReturnedCalls
    BY ReturnedFacts
  <1>2. Moves(kind, j, entry, given, NoReport)
    BY <1>1, NoReportApart DEF Moves
  <1>3. kind \in {"log", "request"} => sequence[kind] \in Nat
    BY DEF LedgerTyped
  <1>4. Counts(kind, j, entry, given, NoReport)
    BY <1>1, <1>3 DEF Counts, OutOf, Placed
  <1>5. Tracks(call, kind, j, entry)
    BY DEF Tracks, Changed
  <1>6. Misses(call, kind, j)
    BY DEF Misses
  <1>7. QED
    BY <1>2, <1>4, <1>5, <1>6 DEF Ledger, Tells

(* The observations of opens, one by one.                                  *)
LEMMA LedgerPipeOpen ==
    ASSUME CallsInv, TablesTyped, LedgerTyped, NEW t \in Callers,
           detour[t].at = "returned", NEW call, call = detour[t],
           call.op = "open", ObservePipeOpen(call), UNCHANGED observed
    PROVE  \E kind, j, entry, given, r : Ledger(call, kind, j, entry, given, r)
  <1>1. PICK entry : entry = Entry(call.handle, call.object.id)
    OBVIOUS
  <1>2. call.kind = "pipe" /\ UNCHANGED <<sequence, emitted>> /\ "pipe" \in Kinds
    BY DEF ObservePipeOpen, Kinds, FileKinds
  <1>3. CASE call.result = "failed" /\ UNCHANGED <<tables, untracked>>
    <2>1. Misses(call, "pipe", 0)
      BY <1>3 DEF Misses
    <2>2. QED  BY <1>2, <1>3, <2>1, LedgerStill
  <1>4. ASSUME call.result = "ok" PROVE
           /\ entry \in Entries /\ entry.handle = call.handle /\ entry.object = call.object.id
           /\ entry.pending = 0 /\ entry.sequence = 0 /\ entry.calls = 0 /\ entry.session = 0
    BY <1>1, <1>4, ReturnedFacts DEF Entry, Entries
  <1>5. CASE call.result = "ok" /\ ~IsTracked("pipe", call.handle) /\ Track("pipe", entry)
    <2>1. PICK j \in {0} \cup DOMAIN tables["pipe"] :
              /\ tables' = IF j = 0 THEN tables ELSE [tables EXCEPT !["pipe"][j] = entry]
              /\ j = 0 => untracked' = untracked \cup {entry.object}
              /\ j # 0 => untracked' = untracked /\ tables["pipe"][j].handle = NoHandle
      BY <1>2, <1>5, TrackSlot
    <2>2. j # 0 => Placed(call, "pipe", j, entry)
      BY <1>2, <1>4, <1>5, <2>1 DEF Placed
    <2>3. \E e \in Entries : Ledger(call, "pipe", j, e, FALSE, NoReport)
      BY <1>2, <1>4, <1>5, <2>1, <2>2, LedgerPlaced
    <2>4. QED  BY <2>3
  <1>6. CASE /\ call.result = "ok" /\ IsTracked("pipe", call.handle)
             /\ SetSlot("pipe", SlotOf("pipe", call.handle), entry)
             /\ UNCHANGED untracked
    <2>1. PICK j : j = SlotOf("pipe", call.handle)
      OBVIOUS
    <2>2. j \in DOMAIN tables["pipe"] /\ j # 0 /\ tables["pipe"][j].handle = call.handle
      BY <1>2, <1>6, <2>1, SlotHas
    <2>3. tables' = [tables EXCEPT !["pipe"][j] = entry]
      BY <1>6, <2>1 DEF SetSlot
    <2>4. Placed(call, "pipe", j, entry)
      BY <1>2, <1>4, <1>6, <2>2 DEF Placed
    <2>5. \E e \in Entries : Ledger(call, "pipe", j, e, FALSE, NoReport)
      BY <1>2, <1>4, <1>6, <2>2, <2>3, <2>4, LedgerPlaced
    <2>6. QED  BY <2>5
  <1>7. QED  BY <1>1, <1>3, <1>5, <1>6 DEF ObservePipeOpen

LEMMA LedgerHttpOpen ==
    ASSUME CallsInv, TablesTyped, LedgerTyped, NEW t \in Callers,
           detour[t].at = "returned", NEW call, call = detour[t],
           call.op = "open", ObserveHttpOpen(call), UNCHANGED observed
    PROVE  \E kind, j, entry, given, r : Ledger(call, kind, j, entry, given, r)
  <1>1. PICK entry : entry = [Entry(call.handle, call.object.id) EXCEPT !.parent = call.parent]
    OBVIOUS
  <1>2. /\ call.kind \in {"session", "connection"} /\ UNCHANGED <<sequence, emitted>>
        /\ call.kind \in Kinds
    BY DEF ObserveHttpOpen, Kinds, HttpKinds
  <1>3. CASE call.result = "failed" /\ UNCHANGED <<tables, untracked>>
    <2>1. Misses(call, call.kind, 0)
      BY <1>3 DEF Misses
    <2>2. QED  BY <1>2, <1>3, <2>1, LedgerStill
  <1>4. CASE call.result = "ok" /\ Track(call.kind, entry)
    <2>1. /\ entry \in Entries /\ entry.handle = call.handle /\ entry.object = call.object.id
          /\ entry.pending = 0 /\ entry.sequence = 0 /\ entry.calls = 0 /\ entry.session = 0
          /\ entry.parent = call.parent
      <3>1. call.parent \in Handles \cup {NoHandle} /\ call.handle \in Handles
            /\ call.object.id \in Nat
        BY <1>4, ReturnedFacts DEF ReturnedCalls
      <3>2. QED  BY <1>1, <3>1 DEF Entry, Entries
    <2>0. PICK kind : kind = call.kind
      OBVIOUS
    <2>2a. \E j \in {0} \cup DOMAIN tables[kind] :
              /\ tables' = IF j = 0 THEN tables ELSE [tables EXCEPT ![kind][j] = entry]
              /\ j = 0 => /\ ~IsTracked(kind, NoHandle)
                          /\ untracked' = untracked \cup {entry.object}
              /\ j # 0 => /\ IsTracked(kind, NoHandle) /\ untracked' = untracked
                          /\ tables[kind][j].handle = NoHandle
      <3>1. kind \in Kinds /\ Track(kind, entry)
        BY <1>2, <1>4, <2>0
      <3>2. TablesTyped
        OBVIOUS
      <3>3. QED  BY ONLY <3>1, <3>2, TrackSlot, Zenon
    <2>2. PICK j \in {0} \cup DOMAIN tables[call.kind] :
              /\ tables' = IF j = 0 THEN tables ELSE [tables EXCEPT ![call.kind][j] = entry]
              /\ j = 0 => untracked' = untracked \cup {entry.object}
              /\ j # 0 => untracked' = untracked /\ tables[call.kind][j].handle = NoHandle
      BY <2>2a, <2>0
    <2>3. j # 0 => Placed(call, call.kind, j, entry)
      BY <1>2, <1>4, <2>1, <2>2 DEF Placed
    <2>4. \E e \in Entries : Ledger(call, call.kind, j, e, FALSE, NoReport)
      BY <1>2, <1>4, <2>1, <2>2, <2>3, LedgerPlaced
    <2>5. QED  BY <2>4
  <1>5. QED  BY <1>1, <1>3, <1>4 DEF ObserveHttpOpen

(* A report of an entry, and a log record, which may be reported.          *)
ReportOf(kind, entry, number, stage) ==
    [kind |-> kind, number |-> number, object |-> entry.object, calls |-> entry.calls,
     session |-> entry.session, own_session |-> entry.own_session, stage |-> stage]

LEMMA ReportTyped ==
    ASSUME NEW kind \in Numbered, NEW entry \in Entries, NEW number \in Nat,
           NEW stage \in {"write", "flush", "close_without_flush", "close", "open"},
           NEW r, r = ReportOf(kind, entry, number, stage)
    PROVE  /\ r \in Reports /\ r # NoReport /\ r.kind = kind /\ r.number = number
           /\ r.object = entry.object /\ r.calls = entry.calls
           /\ r.session = entry.session /\ r.own_session = entry.own_session
           /\ Emit(kind, entry, number, stage) <=> emitted' = Append(emitted, r)
  <1>1. r \in Reports
    BY DEF ReportOf, Reports, Entries, Numbered
  <1>2. QED  BY <1>1, NoReportApart DEF ReportOf, Emit

LEMMA RecordReport ==
    ASSUME NEW entry \in Entries, NEW failed, NEW finished,
           ProcessLogRecord(entry, failed, finished)
    PROVE  \E r \in Reports \cup {NoReport} :
              /\ emitted' = IF r = NoReport THEN emitted ELSE Append(emitted, r)
              /\ r # NoReport =>
                    /\ r.kind = "log" /\ r.number = entry.sequence
                    /\ r.object = entry.object /\ r.calls = entry.calls
                    /\ r.session = entry.session /\ r.own_session = entry.own_session
  <1>1. Emit("log", entry, entry.sequence, "close") \/ UNCHANGED emitted
    BY Zenon DEF ProcessLogRecord
  <1>2. CASE UNCHANGED emitted
    BY <1>2
  <1>3. CASE Emit("log", entry, entry.sequence, "close")
    <2>1. PICK r : r = ReportOf("log", entry, entry.sequence, "close")
      OBVIOUS
    <2>2. entry.sequence \in Nat
      BY DEF Entries
    <2>3. /\ r \in Reports /\ r # NoReport /\ r.kind = "log" /\ r.number = entry.sequence
          /\ r.object = entry.object /\ r.calls = entry.calls
          /\ r.session = entry.session /\ r.own_session = entry.own_session
          /\ emitted' = Append(emitted, r)
      BY <1>3, <2>1, <2>2, ReportTyped DEF Numbered
    <2>4. QED  BY <2>3
  <1>4. QED  BY <1>1, <1>2, <1>3

LEMMA EntryUpdates ==
    ASSUME NEW base \in Entries, NEW n \in Nat, NEW a \in Nat, NEW b \in Nat
    PROVE  /\ [base EXCEPT !.sequence = n, !.started = a] \in Entries
           /\ [base EXCEPT !.sequence = n, !.session = a, !.own_session = b] \in Entries
  BY DEF Entries

LEMMA LedgerLogOpen ==
    ASSUME CallsInv, TablesTyped, LedgerTyped, NEW t \in Callers,
           detour[t].at = "returned", NEW call, call = detour[t],
           call.op = "open", ObserveLogOpen(call), UNCHANGED observed
    PROVE  \E kind, j, entry, given, r : Ledger(call, kind, j, entry, given, r)
  <1>1. PICK entry : entry = [Entry(call.handle, call.object.id) EXCEPT
                                 !.sequence = NextNumber("log"), !.started = call.started]
    OBVIOUS
  <1>2. call.kind = "log" /\ "log" \in Kinds /\ "log" \in Numbered /\ sequence["log"] \in Nat
    BY DEF ObserveLogOpen, Kinds, FileKinds, Numbered, LedgerTyped
  <1>3. call.handle \in Handles \cup {NoHandle} /\ call.object.id \in Nat /\ call.started \in Nat
    BY ReturnedFacts DEF ReturnedCalls
  <1>4. /\ entry \in Entries /\ entry.handle = call.handle /\ entry.object = call.object.id
        /\ entry.pending = 0 /\ entry.sequence = sequence["log"] + 1 /\ entry.calls = 0
        /\ entry.session = 0
    <2>1. PICK base : base = Entry(call.handle, call.object.id)
      OBVIOUS
    <2>2. /\ base \in Entries /\ base.handle = call.handle /\ base.object = call.object.id
          /\ base.pending = 0 /\ base.calls = 0 /\ base.session = 0
      BY <1>3, <2>1 DEF Entry, Entries
    <2>3. entry = [base EXCEPT !.sequence = sequence["log"] + 1, !.started = call.started]
      BY <1>1, <2>1 DEF NextNumber
    <2>4. PICK n \in Nat : n = sequence["log"] + 1
      BY <1>2
    <2>5. entry \in Entries
      BY <1>3, <2>2, <2>3, <2>4, EntryUpdates
    <2>6. /\ entry.handle = base.handle /\ entry.object = base.object
          /\ entry.pending = base.pending /\ entry.sequence = n /\ entry.calls = base.calls
          /\ entry.session = base.session
      BY <2>2, <2>3, <2>4 DEF Entries
    <2>7. QED  BY <2>2, <2>4, <2>5, <2>6
  <1>5. CASE /\ call.result = "failed" /\ Number("log")
             /\ ProcessLogRecord(entry, TRUE, call.finished)
             /\ UNCHANGED <<tables, untracked>>
    <2>1. PICK r \in Reports \cup {NoReport} :
              /\ emitted' = IF r = NoReport THEN emitted ELSE Append(emitted, r)
              /\ r # NoReport =>
                    /\ r.kind = "log" /\ r.number = entry.sequence
                    /\ r.object = entry.object /\ r.calls = entry.calls
                    /\ r.session = entry.session /\ r.own_session = entry.own_session
      BY <1>4, <1>5, RecordReport, Zenon
    <2>2. Moves("log", 0, entry, TRUE, r)
      BY <1>2, <1>4, <1>5, <2>1 DEF Moves, Number
    <2>3. Counts("log", 0, entry, TRUE, r)
      BY <1>4, <2>1 DEF Counts
    <2>4. Tracks(call, "log", 0, entry) /\ Misses(call, "log", 0)
      BY <1>5 DEF Tracks, Misses
    <2>5. Tells(call, "log", 0, r)
      BY <1>4, <2>1 DEF Tells
    <2>6. QED  BY <2>2, <2>3, <2>4, <2>5 DEF Ledger
  <1>6. CASE /\ call.result = "ok" /\ Track("log", entry)
             /\ IF IsTracked("log", NoHandle) THEN Number("log") ELSE UNCHANGED sequence
             /\ UNCHANGED <<logVars, emitted>>
    <2>1. PICK j \in {0} \cup DOMAIN tables["log"] :
              /\ tables' = IF j = 0 THEN tables ELSE [tables EXCEPT !["log"][j] = entry]
              /\ j = 0 => /\ ~IsTracked("log", NoHandle)
                          /\ untracked' = untracked \cup {entry.object}
              /\ j # 0 => /\ IsTracked("log", NoHandle) /\ untracked' = untracked
                          /\ tables["log"][j].handle = NoHandle
      BY <1>2, <1>6, TrackSlot
    <2>2. j # 0 => Placed(call, "log", j, entry)
      BY <1>2, <1>4, <1>6, <2>1 DEF Placed
    <2>3. PICK given \in BOOLEAN : given <=> j # 0
      OBVIOUS
    <2>4. /\ given => sequence' = [sequence EXCEPT !["log"] = @ + 1]
          /\ ~given => sequence' = sequence
      BY <1>6, <2>1, <2>3 DEF Number
    <2>5. \E e \in Entries : Ledger(call, "log", j, e, given, NoReport)
      BY <1>2, <1>4, <1>6, <2>1, <2>2, <2>3, <2>4, LedgerPlaced
    <2>6. QED  BY <2>5
  <1>7. QED  BY <1>1, <1>5, <1>6 DEF ObserveLogOpen

(* A request, with the session that is found for it.                       *)
LEMMA SessionTyped ==
    ASSUME TablesTyped, NEW connection
    PROVE  KnownSession(connection) \in Nat
  <1>1. SUFFICES ASSUME IsTracked("connection", connection),
                        NEW session,
                        session = tables["connection"][SlotOf("connection", connection)].parent,
                        IsTracked("session", session)
                 PROVE  tables["session"][SlotOf("session", session)].object \in Nat
    BY DEF KnownSession
  <1>2. "session" \in Kinds
    BY DEF Kinds, HttpKinds
  <1>3. SlotOf("session", session) \in DOMAIN tables["session"]
    BY <1>1, <1>2, SlotHas
  <1>4. QED  BY <1>2, <1>3, EntryTyped DEF Entries

LEMMA LedgerRequestOpen ==
    ASSUME CallsInv, TablesTyped, LedgerTyped, NEW t \in Callers,
           detour[t].at = "returned", NEW call, call = detour[t],
           call.op = "open", ObserveHttpOpenRequest(call), UNCHANGED observed
    PROVE  \E kind, j, entry, given, r : Ledger(call, kind, j, entry, given, r)
  <1>1. PICK entry : entry = [Entry(call.handle, call.object.id) EXCEPT
                                 !.sequence = NextNumber("request"),
                                 !.session = KnownSession(call.parent),
                                 !.own_session = call.object.session]
    OBVIOUS
  <1>2. /\ call.kind = "request" /\ "request" \in Kinds /\ "request" \in Numbered
        /\ sequence["request"] \in Nat /\ Number("request")
    BY DEF ObserveHttpOpenRequest, Kinds, HttpKinds, Numbered, LedgerTyped
  <1>3. /\ call.handle \in Handles \cup {NoHandle} /\ call.object.id \in Nat
        /\ call.object.session \in Nat
    BY ReturnedFacts DEF ReturnedCalls
  <1>4. KnownSession(call.parent) \in Nat
    BY SessionTyped
  <1>5. /\ entry \in Entries /\ entry.handle = call.handle /\ entry.object = call.object.id
        /\ entry.pending = 0 /\ entry.sequence = sequence["request"] + 1 /\ entry.calls = 0
        /\ entry.session = KnownSession(call.parent) /\ entry.own_session = call.object.session
    <2>1. PICK base, known :
             base = Entry(call.handle, call.object.id) /\ known = KnownSession(call.parent)
      OBVIOUS
    <2>2. /\ base \in Entries /\ base.handle = call.handle /\ base.object = call.object.id
          /\ base.pending = 0 /\ base.calls = 0
      BY <1>3, <2>1 DEF Entry, Entries
    <2>3. entry = [base EXCEPT !.sequence = sequence["request"] + 1, !.session = known,
                               !.own_session = call.object.session]
      BY <1>1, <2>1 DEF NextNumber
    <2>4. PICK n \in Nat : n = sequence["request"] + 1
      BY <1>2
    <2>5. entry \in Entries
      BY <1>3, <1>4, <2>1, <2>2, <2>3, <2>4, EntryUpdates
    <2>6. /\ entry.handle = base.handle /\ entry.object = base.object
          /\ entry.pending = base.pending /\ entry.sequence = n /\ entry.calls = base.calls
          /\ entry.session = known /\ entry.own_session = call.object.session
      BY <2>2, <2>3, <2>4 DEF Entries
    <2>7. QED  BY <2>1, <2>2, <2>4, <2>5, <2>6
  <1>6. CASE /\ call.result = "ok" /\ IsTracked("request", NoHandle)
             /\ Track("request", entry) /\ UNCHANGED emitted
    <2>1. PICK j \in {0} \cup DOMAIN tables["request"] :
              /\ tables' = IF j = 0 THEN tables ELSE [tables EXCEPT !["request"][j] = entry]
              /\ j = 0 => /\ ~IsTracked("request", NoHandle)
                          /\ untracked' = untracked \cup {entry.object}
              /\ j # 0 => /\ IsTracked("request", NoHandle) /\ untracked' = untracked
                          /\ tables["request"][j].handle = NoHandle
      BY <1>2, <1>6, TrackSlot
    <2>2. j # 0 /\ Placed(call, "request", j, entry)
      BY <1>2, <1>5, <1>6, <2>1 DEF Placed
    <2>3. \E e \in Entries : Ledger(call, "request", j, e, TRUE, NoReport)
      BY <1>2, <1>5, <1>6, <2>1, <2>2, LedgerPlaced DEF Number
    <2>4. QED  BY <2>3
  <1>7. CASE /\ Emit("request", entry, entry.sequence, "open")
             /\ untracked' = untracked \cup {entry.object}
             /\ UNCHANGED tables
    <2>1. PICK r : r = ReportOf("request", entry, entry.sequence, "open")
      OBVIOUS
    <2>2. entry.sequence \in Nat
      BY <1>2, <1>5
    <2>3. /\ r \in Reports /\ r # NoReport /\ r.kind = "request" /\ r.number = entry.sequence
          /\ r.object = entry.object /\ r.calls = entry.calls
          /\ r.session = entry.session /\ r.own_session = entry.own_session
          /\ emitted' = Append(emitted, r)
      BY <1>2, <1>5, <1>7, <2>1, <2>2, ReportTyped
    <2>4. Moves("request", 0, entry, TRUE, r)
      BY <1>2, <1>5, <1>7, <2>3 DEF Moves, Number
    <2>5. Counts("request", 0, entry, TRUE, r)
      BY <1>5, <2>3 DEF Counts
    <2>6. Tracks(call, "request", 0, entry) /\ Misses(call, "request", 0)
      BY <1>5, <1>7 DEF Tracks, Misses
    <2>7. Tells(call, "request", 0, r)
      BY <1>2, <1>5, <2>3 DEF Tells
    <2>8. QED  BY <2>4, <2>5, <2>6, <2>7 DEF Ledger
  <1>8. QED  BY <1>1, <1>6, <1>7 DEF ObserveHttpOpenRequest

(* The observation of a call that opens nothing.                           *)
Misplaces(call) ==
    untracked' = IF call.op = "close" /\ call.result = "failed"
                 THEN untracked \cup {call.object.id} ELSE untracked

(* The observations of calls.                                              *)
LEMMA EntryChanges ==
    ASSUME NEW e \in Entries, NEW n \in Nat, NEW f \in BOOLEAN
    PROVE  /\ [e EXCEPT !.pending = n] \in Entries
           /\ [e EXCEPT !.calls = n, !.failed = f] \in Entries
  BY DEF Entries

TellsPipe(pipe, r) ==
    /\ r.object = pipe.object /\ r.calls = pipe.calls
    /\ r.session = pipe.session /\ r.own_session = pipe.own_session

LEMMA LedgerPipeCall ==
    ASSUME CallsInv, TablesTyped, LedgerTyped, NEW t \in Callers,
           detour[t].at = "returned", NEW call, call = detour[t],
           call.op # "open", ObservePipeCall(call), Misplaces(call), ~Passed(call)
    PROVE  \E kind, j, entry, given, r : Ledger(call, kind, j, entry, given, r)
  <1>1. /\ call.kind = "pipe" /\ observed' = observed /\ "pipe" \in Kinds
        /\ "pipe" \in Numbered /\ "pipe" \in FileKinds
        /\ sequence["pipe"] \in Nat
    BY DEF ObservePipeCall, Kinds, FileKinds, Numbered, LedgerTyped
  <1>2. IsTracked("pipe", call.handle)
    BY <1>1 DEF Passed
  <1>3. PICK j : j = SlotOf("pipe", call.handle)
    OBVIOUS
  <1>4. j \in DOMAIN tables["pipe"] /\ j # 0 /\ tables["pipe"][j].handle = call.handle
    BY <1>1, <1>2, <1>3, SlotHas
  <1>5. PICK pipe : pipe = tables["pipe"][j]
    OBVIOUS
  <1>6. pipe \in Entries /\ pipe.handle = call.handle /\ call.handle # NoHandle
    BY <1>1, <1>4, <1>5, EntryTyped, ReturnedFacts
  <1>7. pipe.object \in 1..calls /\ pipe.pending \in Nat
    BY <1>1, <1>4, <1>5, <1>6 DEF TablesTyped, Entries
  <1>8. PICK n \in Nat : n = sequence["pipe"] + 1
    BY <1>1
  <1>9. NextNumber("pipe") = n
    BY <1>8 DEF NextNumber
  <1>10. ObservePipeWrite(call, j) \/ ObservePipeFlush(call, j) \/ ForgetPipe(call, j)
    BY <1>1, <1>3 DEF ObservePipeCall
  <1>11. call.op # "close" => Misses(call, "pipe", j)
    BY DEF Misses, Misplaces
  <1>12. ASSUME NEW m \in Nat, NEW stage \in {"write", "flush", "close_without_flush"},
                NEW r, r = ReportOf("pipe", pipe, m, stage)
         PROVE  /\ r \in Reports /\ r # NoReport /\ r.kind = "pipe" /\ r.number = m
                /\ TellsPipe(pipe, r)
                /\ Emit("pipe", pipe, m, stage) <=> emitted' = Append(emitted, r)
    BY <1>1, <1>6, <1>12, ReportTyped DEF TellsPipe
  <1>13. ASSUME NEW m \in Nat, NEW e, e = [pipe EXCEPT !.pending = m],
                call.op \notin {"open", "close"}
         PROVE  /\ e \in Entries /\ e.pending = m /\ e.handle = pipe.handle
                /\ e.object = pipe.object
                /\ Changed(call, "pipe", j, e)
    <2>1. e \in Entries /\ e.pending = m /\ e.handle = pipe.handle /\ e.object = pipe.object
      BY <1>6, <1>13, EntryChanges DEF Entries
    <2>2. /\ e.session = pipe.session /\ e.own_session = pipe.own_session
          /\ e.parent = pipe.parent /\ e.calls = pipe.calls
      BY <1>6, <1>13 DEF Entries
    <2>3. QED  BY <1>1, <1>4, <1>5, <1>6, <1>13, <2>1, <2>2 DEF Changed
  <1>14. CASE call.op = "write" /\ ObservePipeWrite(call, j)
    <2>1. sequence' = [sequence EXCEPT !["pipe"] = @ + 1]
      BY <1>14 DEF ObservePipeWrite, Number
    <2>2. CASE call.result = "failed"
      <3>1. PICK e : e = [pipe EXCEPT !.pending = 0]
        OBVIOUS
      <3>2. PICK r : r = ReportOf("pipe", pipe, n, "write")
        OBVIOUS
      <3>3. tables' = [tables EXCEPT !["pipe"][j] = e] /\ emitted' = Append(emitted, r)
        BY <1>5, <1>9, <1>12, <1>14, <2>2, <3>1, <3>2 DEF ObservePipeWrite, SetSlot
      <3>4. /\ r \in Reports /\ r # NoReport /\ r.kind = "pipe" /\ r.number = n
            /\ TellsPipe(pipe, r)
        BY <1>12, <3>2
      <3>5. /\ e \in Entries /\ e.pending = 0 /\ e.handle = pipe.handle
            /\ e.object = pipe.object /\ Changed(call, "pipe", j, e)
        BY <1>13, <1>14, <3>1
      <3>6. Moves("pipe", j, e, TRUE, r)
        BY <1>1, <1>4, <2>1, <3>3, <3>4, <3>5 DEF Moves
      <3>7. Counts("pipe", j, e, TRUE, r)
        BY <1>6, <1>7, <1>8, <3>4, <3>5 DEF Counts, OutOf
      <3>8. Tracks(call, "pipe", j, e) /\ Tells(call, "pipe", j, r)
        BY <1>1, <1>4, <1>5, <1>14, <3>4, <3>5 DEF Tracks, Tells, TellsPipe
      <3>9. QED  BY <1>11, <1>14, <3>6, <3>7, <3>8 DEF Ledger
    <2>3. CASE call.result # "failed"
      <3>1. PICK e : e = [pipe EXCEPT !.pending = n]
        OBVIOUS
      <3>2. tables' = [tables EXCEPT !["pipe"][j] = e] /\ emitted' = emitted
        BY <1>5, <1>9, <1>14, <2>3, <3>1 DEF ObservePipeWrite, SetSlot
      <3>3. /\ e \in Entries /\ e.pending = n /\ e.handle = pipe.handle
            /\ e.object = pipe.object /\ Changed(call, "pipe", j, e)
        BY <1>13, <1>14, <3>1
      <3>4. Moves("pipe", j, e, TRUE, NoReport)
        BY <1>1, <1>4, <2>1, <3>2, <3>3 DEF Moves
      <3>5. Counts("pipe", j, e, TRUE, NoReport)
        BY <1>6, <1>7, <1>8, <3>3 DEF Counts, OutOf
      <3>6. Tracks(call, "pipe", j, e) /\ Tells(call, "pipe", j, NoReport)
        BY <1>1, <3>3 DEF Tracks, Tells
      <3>7. QED  BY <1>11, <1>14, <3>4, <3>5, <3>6 DEF Ledger
    <2>4. QED  BY <2>2, <2>3
  <1>15. CASE call.op = "flush" /\ ObservePipeFlush(call, j)
    <2>1. PICK e : e = [pipe EXCEPT !.pending = 0]
      OBVIOUS
    <2>2. PICK r : r = ReportOf("pipe", pipe, pipe.pending, "flush")
      OBVIOUS
    <2>3. /\ tables' = [tables EXCEPT !["pipe"][j] = e] /\ emitted' = Append(emitted, r)
          /\ sequence' = sequence /\ pipe.pending # 0
      BY <1>5, <1>7, <1>12, <1>15, <2>1, <2>2 DEF ObservePipeFlush, SetSlot
    <2>4. /\ r \in Reports /\ r # NoReport /\ r.kind = "pipe" /\ r.number = pipe.pending
          /\ TellsPipe(pipe, r)
      BY <1>7, <1>12, <2>2
    <2>5. /\ e \in Entries /\ e.pending = 0 /\ e.handle = pipe.handle
          /\ e.object = pipe.object /\ Changed(call, "pipe", j, e)
      BY <1>13, <1>15, <2>1
    <2>6. Moves("pipe", j, e, FALSE, r)
      BY <1>1, <1>4, <2>3, <2>4, <2>5 DEF Moves
    <2>7. Counts("pipe", j, e, FALSE, r)
      BY <1>4, <1>5, <1>6, <1>7, <2>3, <2>4, <2>5 DEF Counts, OutOf
    <2>8. Tracks(call, "pipe", j, e) /\ Tells(call, "pipe", j, r)
      BY <1>1, <1>4, <1>5, <1>15, <2>4, <2>5 DEF Tracks, Tells, TellsPipe
    <2>9. QED  BY <1>11, <1>15, <2>6, <2>7, <2>8 DEF Ledger
  <1>16. CASE call.op = "close" /\ ForgetPipe(call, j)
    <2>1. /\ tables' = [tables EXCEPT !["pipe"][j] = NoEntry] /\ sequence' = sequence
      BY <1>16 DEF ForgetPipe, SetSlot
    <2>2. PICK r \in Reports \cup {NoReport} :
             /\ emitted' = IF r = NoReport THEN emitted ELSE Append(emitted, r)
             /\ r # NoReport =>
                   r.kind = "pipe" /\ r.number = pipe.pending /\ pipe.pending # 0 /\ TellsPipe(pipe, r)
      <3>1. CASE pipe.pending = 0
        BY <1>5, <1>16, <3>1 DEF ForgetPipe
      <3>2. CASE pipe.pending # 0
        <4>1. PICK r : r = ReportOf("pipe", pipe, pipe.pending, "close_without_flush")
          OBVIOUS
        <4>2. /\ r \in Reports /\ r # NoReport /\ r.kind = "pipe" /\ r.number = pipe.pending
              /\ TellsPipe(pipe, r)
              /\ emitted' = Append(emitted, r)
          BY <1>5, <1>7, <1>12, <1>16, <3>2, <4>1 DEF ForgetPipe
        <4>3. QED  BY <3>2, <4>2
      <3>3. QED  BY <3>1, <3>2
    <2>3. Moves("pipe", j, NoEntry, FALSE, r)
      BY <1>1, <1>4, <2>1, <2>2, NoReportApart DEF Moves
    <2>4. Counts("pipe", j, NoEntry, FALSE, r)
      BY <1>4, <1>5, <2>2, NoReportApart DEF Counts, OutOf
    <2>5. Tracks(call, "pipe", j, NoEntry)
      BY <1>1, <1>4, <1>16 DEF Tracks, Dropped
    <2>6. Misses(call, "pipe", j) /\ Tells(call, "pipe", j, r)
      BY <1>4, <1>5, <1>16, <2>2 DEF Misses, Misplaces, Tells, TellsPipe
    <2>7. QED  BY <2>3, <2>4, <2>5, <2>6 DEF Ledger
  <1>17. QED
    BY <1>10, <1>14, <1>15, <1>16 DEF ObservePipeWrite, ObservePipeFlush, ForgetPipe

(* The other calls, counted, and the closes.                               *)
LEMMA LedgerUse ==
    ASSUME CallsInv, TablesTyped, LedgerTyped, NEW t \in Callers,
           detour[t].at = "returned", NEW call, call = detour[t],
           call.op # "open", ObserveUse(call), Misplaces(call), ~Passed(call)
    PROVE  \E kind, j, entry, given, r : Ledger(call, kind, j, entry, given, r)
  <1>1. PICK kind : kind = call.kind
    OBVIOUS
  <1>2. kind \in Kinds /\ kind # "pipe" /\ call.op \in {"use", "write"}
    BY <1>1, ReturnedFacts DEF ObserveUse, Passed, ReturnedCalls
  <1>3. IsTracked(kind, call.handle)
    <2>1. kind \in FileKinds => IsTracked(kind, call.handle)
      BY <1>1, <1>2 DEF Passed
    <2>2. kind \in HttpKinds => call.op = "use"
      BY <1>1, <1>2, ReturnedFacts DEF CalledOk
    <2>3. QED  BY <1>1, <1>2, <2>1, <2>2 DEF Passed, Kinds
  <1>4. PICK j : j = SlotOf(kind, call.handle)
    OBVIOUS
  <1>5. j \in DOMAIN tables[kind] /\ j # 0 /\ tables[kind][j].handle = call.handle
    BY <1>2, <1>3, <1>4, SlotHas
  <1>6. PICK old : old = tables[kind][j]
    OBVIOUS
  <1>7. old \in Entries /\ old.handle = call.handle /\ call.handle # NoHandle
    BY <1>2, <1>5, <1>6, EntryTyped, ReturnedFacts
  <1>8. old.object \in 1..calls /\ old.calls \in Nat /\ old.failed \in BOOLEAN
    BY <1>2, <1>5, <1>6, <1>7 DEF TablesTyped, Entries
  <1>9. PICK n \in Nat : n = old.calls + 1
    BY <1>8
  <1>10. PICK f \in BOOLEAN : f = (old.failed \/ call.result # "ok")
    BY <1>8
  <1>11. PICK e : e = [old EXCEPT !.calls = n, !.failed = f]
    OBVIOUS
  <1>12. /\ tables' = [tables EXCEPT ![kind][j] = e] /\ UNCHANGED <<sequence, emitted>>
         /\ observed' = [observed EXCEPT ![call.object.id] = @ + 1]
    <2>1. /\ tables' = [tables EXCEPT ![kind][j] =
                           [old EXCEPT !.calls = @ + 1, !.failed = @ \/ call.result # "ok"]]
          /\ UNCHANGED <<sequence, emitted>>
          /\ observed' = [observed EXCEPT ![call.object.id] = @ + 1]
      BY <1>1, <1>4, <1>6 DEF ObserveUse, SetSlot
    <2>2. e = [old EXCEPT !.calls = @ + 1, !.failed = @ \/ call.result # "ok"]
      BY <1>7, <1>9, <1>10, <1>11 DEF Entries
    <2>3. QED  BY <2>1, <2>2
  <1>13. e \in Entries
    BY <1>7, <1>11, EntryChanges
  <1>14. /\ e.handle = old.handle /\ e.object = old.object /\ e.session = old.session
         /\ e.own_session = old.own_session /\ e.parent = old.parent
         /\ e.calls = old.calls + 1 /\ e.sequence = old.sequence
    BY <1>7, <1>9, <1>11 DEF Entries
  <1>15. Changed(call, kind, j, e)
    BY <1>1, <1>2, <1>5, <1>6, <1>7, <1>14 DEF Changed
  <1>16. Moves(kind, j, e, FALSE, NoReport)
    BY <1>2, <1>5, <1>12, <1>13 DEF Moves
  <1>17. kind \in {"log", "request"} => old.sequence # 0
    BY <1>2, <1>5, <1>6, <1>7 DEF TablesTyped
  <1>18. Counts(kind, j, e, FALSE, NoReport)
    BY <1>2, <1>6, <1>7, <1>8, <1>14, <1>17 DEF Counts, OutOf
  <1>19. Tracks(call, kind, j, e) /\ Tells(call, kind, j, NoReport)
    BY <1>2, <1>5, <1>12, <1>15 DEF Tracks, Tells
  <1>20. Misses(call, kind, j)
    BY <1>2 DEF Misses, Misplaces
  <1>21. QED  BY <1>16, <1>18, <1>19, <1>20 DEF Ledger

LEMMA LedgerLogClose ==
    ASSUME CallsInv, TablesTyped, LedgerTyped, NEW t \in Callers,
           detour[t].at = "returned", NEW call, call = detour[t],
           call.op # "open", ObserveLogClose(call), Misplaces(call), ~Passed(call)
    PROVE  \E kind, j, entry, given, r : Ledger(call, kind, j, entry, given, r)
  <1>1. /\ call.kind = "log" /\ call.op = "close" /\ observed' = observed
        /\ "log" \in Kinds /\ "log" \in FileKinds
        /\ sequence' = sequence /\ "log" \in Numbered
    BY DEF ObserveLogClose, Kinds, FileKinds, Numbered
  <1>2. IsTracked("log", call.handle)
    BY <1>1 DEF Passed
  <1>3. PICK j : j = SlotOf("log", call.handle)
    OBVIOUS
  <1>4. j \in DOMAIN tables["log"] /\ j # 0 /\ tables["log"][j].handle = call.handle
    BY <1>1, <1>2, <1>3, SlotHas
  <1>5. PICK old, failed :
           old = tables["log"][j] /\ failed = (old.failed \/ call.result = "failed")
    OBVIOUS
  <1>6. old \in Entries /\ old.handle = call.handle /\ call.handle # NoHandle
    BY <1>1, <1>4, <1>5, EntryTyped, ReturnedFacts
  <1>7. old.sequence # 0
    BY <1>1, <1>4, <1>5, <1>6 DEF TablesTyped
  <1>8. /\ tables' = [tables EXCEPT !["log"][j] = NoEntry]
        /\ ProcessLogRecord(old, failed, call.finished)
    BY <1>3, <1>5 DEF ObserveLogClose, SetSlot
  <1>9. PICK r \in Reports \cup {NoReport} :
           /\ emitted' = IF r = NoReport THEN emitted ELSE Append(emitted, r)
           /\ r # NoReport =>
                 /\ r.kind = "log" /\ r.number = old.sequence
                 /\ r.object = old.object /\ r.calls = old.calls
                 /\ r.session = old.session /\ r.own_session = old.own_session
    BY <1>6, <1>8, RecordReport, Zenon
  <1>10. Moves("log", j, NoEntry, FALSE, r)
    BY <1>1, <1>4, <1>8, <1>9, NoReportApart DEF Moves
  <1>11. Counts("log", j, NoEntry, FALSE, r)
    BY <1>4, <1>5, <1>7, <1>9, NoReportApart DEF Counts, OutOf
  <1>12. Tracks(call, "log", j, NoEntry)
    BY <1>1, <1>4 DEF Tracks, Dropped, Changed
  <1>13. Misses(call, "log", j) /\ Tells(call, "log", j, r)
    BY <1>1, <1>4, <1>5, <1>9 DEF Misses, Misplaces, Tells
  <1>14. QED  BY <1>10, <1>11, <1>12, <1>13 DEF Ledger

LEMMA LedgerHttpClose ==
    ASSUME CallsInv, TablesTyped, LedgerTyped, NEW t \in Callers,
           detour[t].at = "returned", NEW call, call = detour[t],
           call.op # "open", ObserveHttpClose(call), Misplaces(call), ~Passed(call)
    PROVE  \E kind, j, entry, given, r : Ledger(call, kind, j, entry, given, r)
  <1>1. /\ call.kind \in HttpKinds /\ call.op = "close" /\ observed' = observed
        /\ sequence' = sequence
    BY DEF ObserveHttpClose
  <1>2. PICK kind : kind = IF IsTracked("request", call.handle) THEN "request"
                           ELSE IF IsTracked("connection", call.handle) THEN "connection"
                           ELSE "session"
    OBVIOUS
  <1>3. PICK k \in HttpKinds : IsTracked(k, call.handle)
    BY <1>1 DEF Passed
  <1>4. kind \in HttpKinds /\ IsTracked(kind, call.handle) /\ kind \in Kinds
    BY <1>2, <1>3 DEF HttpKinds, Kinds
  <1>5. PICK j : j = SlotOf(kind, call.handle)
    OBVIOUS
  <1>6. j \in DOMAIN tables[kind] /\ j # 0 /\ tables[kind][j].handle = call.handle
    BY <1>4, <1>5, SlotHas
  <1>7. PICK old : old = tables[kind][j]
    OBVIOUS
  <1>8. old \in Entries /\ old.handle = call.handle /\ call.handle # NoHandle
    BY <1>4, <1>6, <1>7, EntryTyped, ReturnedFacts
  <1>9. kind = "request" => old.sequence # 0 /\ old.sequence \in Nat
    BY <1>4, <1>6, <1>7, <1>8 DEF TablesTyped, Entries
  <1>10. /\ tables' = [tables EXCEPT ![kind][j] = NoEntry]
         /\ IF kind # "request" THEN UNCHANGED emitted
            ELSE Emit("request", old, old.sequence, "close")
    BY <1>2, <1>5, <1>7 DEF ObserveHttpClose, SetSlot
  <1>11. PICK r \in Reports \cup {NoReport} :
            /\ emitted' = IF r = NoReport THEN emitted ELSE Append(emitted, r)
            /\ r # NoReport =>
                  /\ kind = "request" /\ r.kind = kind /\ r.number = old.sequence
                  /\ r.object = old.object /\ r.calls = old.calls
                  /\ r.session = old.session /\ r.own_session = old.own_session
    <2>1. CASE kind # "request"
      BY <1>10, <2>1
    <2>2. CASE kind = "request"
      <3>1. PICK r : r = ReportOf("request", old, old.sequence, "close")
        OBVIOUS
      <3>2. /\ r \in Reports /\ r # NoReport /\ r.kind = "request" /\ r.number = old.sequence
            /\ r.object = old.object /\ r.calls = old.calls
            /\ r.session = old.session /\ r.own_session = old.own_session
            /\ emitted' = Append(emitted, r)
        BY <1>8, <1>9, <1>10, <2>2, <3>1, ReportTyped DEF Numbered
      <3>3. QED  BY <2>2, <3>2
    <2>3. QED  BY <2>1, <2>2
  <1>12. Moves(kind, j, NoEntry, FALSE, r)
    BY <1>1, <1>4, <1>6, <1>10, <1>11, NoReportApart DEF Moves, Numbered
  <1>13. Counts(kind, j, NoEntry, FALSE, r)
    BY <1>6, <1>7, <1>9, <1>11, NoReportApart DEF Counts, OutOf
  <1>14. Tracks(call, kind, j, NoEntry)
    BY <1>1, <1>6 DEF Tracks, Dropped, Changed
  <1>15. Misses(call, kind, j) /\ Tells(call, kind, j, r)
    BY <1>1, <1>6, <1>7, <1>11 DEF Misses, Misplaces, Tells
  <1>16. QED  BY <1>12, <1>13, <1>14, <1>15 DEF Ledger

(* Every observation.                                                      *)
LEMMA ObserveLedger ==
    ASSUME CallsInv, TablesTyped, LedgerTyped, NEW t \in Callers, Observe(t),
           NEW call, call = detour[t]
    PROVE  \E kind, j, entry, given, r : Ledger(call, kind, j, entry, given, r)
  <1>1. detour[t].at = "returned" /\ (ObserveOpen(call) \/ ObserveCall(call))
    BY DEF Observe
  <1>2. CASE ObserveOpen(call)
    <2>1. call.op = "open" /\ UNCHANGED observed
      BY <1>2 DEF ObserveOpen
    <2>2. CASE ObservePipeOpen(call)
      BY <1>1, <2>1, <2>2, LedgerPipeOpen
    <2>3. CASE ObserveLogOpen(call)
      BY <1>1, <2>1, <2>3, LedgerLogOpen
    <2>4. CASE ObserveHttpOpen(call)
      BY <1>1, <2>1, <2>4, LedgerHttpOpen
    <2>5. CASE ObserveHttpOpenRequest(call)
      BY <1>1, <2>1, <2>5, LedgerRequestOpen
    <2>6. QED  BY <1>2, <2>2, <2>3, <2>4, <2>5 DEF ObserveOpen
  <1>3. CASE ObserveCall(call)
    <2>1. call.op # "open" /\ Misplaces(call)
      BY <1>3 DEF ObserveCall, Misplaces
    <2>2. CASE Passed(call)
      <3>1. UNCHANGED <<tables, sequence, emitted, observed>>
        BY <1>3, <2>2 DEF ObserveCall
      <3>2. call.op = "close" /\ call.kind \in Kinds => ~IsTracked(call.kind, call.handle)
        BY <2>2 DEF Passed, Kinds, FileKinds, HttpKinds
      <3>3. Misses(call, "pipe", 0)
        BY <2>1, <3>2 DEF Misses, Misplaces
      <3>4. QED  BY <3>1, <3>3, LedgerStill DEF Kinds, FileKinds
    <2>3. CASE ~Passed(call)
      <3>1. \/ ObservePipeCall(call) \/ ObserveUse(call)
            \/ ObserveLogClose(call) \/ ObserveHttpClose(call)
        BY <1>3, <2>3 DEF ObserveCall
      <3>2. CASE ObservePipeCall(call)
        BY <1>1, <2>1, <2>3, <3>2, LedgerPipeCall
      <3>3. CASE ObserveUse(call)
        BY <1>1, <2>1, <2>3, <3>3, LedgerUse
      <3>4. CASE ObserveLogClose(call)
        BY <1>1, <2>1, <2>3, <3>4, LedgerLogClose
      <3>5. CASE ObserveHttpClose(call)
        BY <1>1, <2>1, <2>3, <3>5, LedgerHttpClose
      <3>6. QED  BY <3>1, <3>2, <3>3, <3>4, <3>5
    <2>4. QED  BY <2>2, <2>3
  <1>4. QED  BY <1>1, <1>2, <1>3

-----------------------------------------------------------------------------
(* The ledger keeps its types.                                             *)
LEMMA LedgerTypes ==
    ASSUME TablesTyped, LedgerTyped, CallsTyped, calls' = calls,
           NEW call, call.object.id \in Objects, call.object.id \in Nat,
           NEW kind, NEW j, NEW entry, NEW given, NEW r,
           Ledger(call, kind, j, entry, given, r)
    PROVE  /\ TablesTyped' /\ LedgerTyped'
           /\ \A k \in Kinds : DOMAIN tables'[k] = DOMAIN tables[k]
           /\ \A k \in Kinds : \A i \in DOMAIN tables[k] :
                 tables'[k][i] = IF k = kind /\ i = j THEN entry ELSE tables[k][i]
  <1>1. /\ Moves(kind, j, entry, given, r) /\ Counts(kind, j, entry, given, r)
        /\ Tracks(call, kind, j, entry) /\ Misses(call, kind, j)
    BY DEF Ledger
  <1>2. /\ kind \in Kinds /\ entry \in Entries /\ j \in {0} \cup DOMAIN tables[kind]
        /\ tables' = IF j = 0 THEN tables ELSE [tables EXCEPT ![kind][j] = entry]
    BY <1>1 DEF Moves
  <1>3. /\ DOMAIN tables = Kinds
        /\ \A k \in Kinds : tables[k] \in [1..TableSizes[k] -> Entries]
        /\ \A k \in Kinds : TableSizes[k] \in Nat
    BY TrackingAssumption DEF TablesTyped
  <1>4. \A k \in Kinds : DOMAIN tables[k] = 1..TableSizes[k] /\ 0 \notin DOMAIN tables[k]
    BY <1>3
  <1>5. /\ DOMAIN tables' = Kinds
        /\ \A k \in Kinds : tables'[k] = IF k = kind /\ j # 0 THEN [tables[k] EXCEPT ![j] = entry]
                                                              ELSE tables[k]
    BY <1>2, <1>3
  <1>6. \A k \in Kinds : /\ tables'[k] \in [1..TableSizes[k] -> Entries]
                         /\ DOMAIN tables'[k] = DOMAIN tables[k]
    BY <1>2, <1>3, <1>4, <1>5
  <1>7. \A k \in Kinds : \A i \in DOMAIN tables[k] :
           tables'[k][i] = IF k = kind /\ i = j THEN entry ELSE tables[k][i]
    BY <1>2, <1>3, <1>4, <1>5
  <1>8. TablesTyped'
    <2>1. SUFFICES ASSUME NEW k \in Kinds, NEW i \in DOMAIN tables'[k]
                   PROVE  /\ tables'[k][i].handle = NoHandle => tables'[k][i] = NoEntry
                          /\ tables'[k][i].handle # NoHandle =>
                                /\ tables'[k][i].object \in 1..calls'
                                /\ k \in {"log", "request"} => tables'[k][i].sequence # 0
      BY <1>5, <1>6 DEF TablesTyped
    <2>2. i \in DOMAIN tables[k]
      BY <1>6, <2>1
    <2>3. CASE k = kind /\ i = j
      <3>1. tables'[k][i] = entry /\ j # 0
        BY <1>4, <1>7, <2>2, <2>3
      <3>2. QED  BY <1>1, <2>3, <3>1 DEF Counts, OutOf
    <2>4. CASE ~(k = kind /\ i = j)
      BY <1>7, <2>2, <2>4 DEF TablesTyped
    <2>5. QED  BY <2>3, <2>4
  <1>9. sequence' \in [{"pipe", "log", "request"} -> Nat]
    <2>1. given => kind \in {"pipe", "log", "request"}
      BY <1>1 DEF Moves, Numbered
    <2>2. QED  BY <1>1, <2>1 DEF Moves, LedgerTyped
  <1>10. observed' \in [Objects -> Nat]
    BY <1>1 DEF Tracks, LedgerTyped
  <1>11. emitted' \in Seq(Reports)
    BY <1>1 DEF Moves, LedgerTyped
  <1>12. untracked' \subseteq Nat
    BY <1>1 DEF Misses, LedgerTyped
  <1>13. QED  BY <1>6, <1>7, <1>8, <1>9, <1>10, <1>11, <1>12 DEF LedgerTyped

(* No number is outstanding in two slots, or reported twice.               *)
LEMMA NumbersKept ==
    ASSUME TablesTyped, LedgerTyped, NumbersInv, ReportedOnce, CallsTyped, calls' = calls,
           NEW call, call.object.id \in Objects, call.object.id \in Nat,
           NEW kind, NEW j, NEW entry, NEW given, NEW r,
           Ledger(call, kind, j, entry, given, r)
    PROVE  NumbersInv' /\ ReportedOnce'
  <1>1. /\ Moves(kind, j, entry, given, r) /\ Counts(kind, j, entry, given, r)
    BY DEF Ledger
  <1>2. /\ kind \in Kinds /\ entry \in Entries /\ j \in {0} \cup DOMAIN tables[kind]
        /\ emitted' = IF r = NoReport THEN emitted ELSE Append(emitted, r)
        /\ r # NoReport => r.kind = kind /\ r \in Reports
        /\ sequence' = IF given THEN [sequence EXCEPT ![kind] = @ + 1] ELSE sequence
        /\ kind \notin Numbered => ~given /\ r = NoReport
    BY <1>1 DEF Moves
  <1>3. /\ \A k \in Kinds : DOMAIN tables'[k] = DOMAIN tables[k]
        /\ \A k \in Kinds : \A i \in DOMAIN tables[k] :
              tables'[k][i] = IF k = kind /\ i = j THEN entry ELSE tables[k][i]
        /\ TablesTyped'
    BY LedgerTypes
  <1>4. Numbered \subseteq Kinds
    BY DEF Numbered, Kinds, FileKinds, HttpKinds
  <1>5. \A k \in Numbered : sequence[k] \in Nat /\
           sequence'[k] = IF given /\ k = kind THEN sequence[k] + 1 ELSE sequence[k]
    BY <1>2 DEF LedgerTyped, Numbered
  <1>6. /\ DOMAIN emitted \subseteq DOMAIN emitted'
        /\ \A m \in DOMAIN emitted : emitted'[m] = emitted[m]
        /\ \A m \in DOMAIN emitted' : m \in DOMAIN emitted \/ (r # NoReport /\ emitted'[m] = r)
        /\ \A m, n \in DOMAIN emitted' :
              m \notin DOMAIN emitted /\ n \notin DOMAIN emitted => m = n
    <2>1. emitted \in Seq(Reports)
      BY DEF LedgerTyped
    <2>2. CASE r = NoReport
      BY <1>2, <2>2
    <2>3. CASE r # NoReport
      <3>1. emitted' = Append(emitted, r)
        BY <1>2, <2>3
      <3>2. QED  BY <2>1, <2>3, <3>1
    <2>4. QED  BY <2>2, <2>3
  <1>7. \A k \in Kinds : \A i \in DOMAIN tables[k] :
           /\ Outstanding(k, i)' = IF k = kind /\ i = j THEN OutOf(k, entry)
                                                        ELSE Outstanding(k, i)
           /\ Outstanding(k, i) = OutOf(k, tables[k][i])
    BY <1>3 DEF Outstanding, OutOf
  <1>8. \A k \in Kinds : \A i \in DOMAIN tables[k] : Outstanding(k, i) \in Nat
    BY EntryTyped DEF Outstanding, Entries
  <1>9. \A k \in Kinds : 0 \notin DOMAIN tables[k]
    BY TrackingAssumption DEF TablesTyped
  <1>10. r # NoReport =>
            /\ kind \in Numbered /\ r.number \in 1..sequence'[kind]
            /\ \A i \in DOMAIN tables[kind] : Outstanding(kind, i)' # r.number
            /\ \A m \in DOMAIN emitted : emitted[m].kind = kind => emitted[m].number # r.number
    <2>1. SUFFICES ASSUME r # NoReport
                   PROVE  /\ kind \in Numbered /\ r.number \in 1..sequence'[kind]
                          /\ \A i \in DOMAIN tables[kind] : Outstanding(kind, i)' # r.number
                          /\ \A m \in DOMAIN emitted : emitted[m].kind = kind =>
                                                          emitted[m].number # r.number
      OBVIOUS
    <2>2. kind \in Numbered
      BY <1>2, <2>1
    <2>3. CASE r.number = sequence[kind] + 1 /\ given /\ (j # 0 => OutOf(kind, entry) = 0)
      <3>1. \A i \in DOMAIN tables[kind] : Outstanding(kind, i) <= sequence[kind]
        BY <2>2 DEF NumbersInv
      <3>2. \A m \in DOMAIN emitted : emitted[m].kind = kind =>
                                         emitted[m].number \in 1..sequence[kind]
        BY <2>2 DEF NumbersInv
      <3>3. sequence[kind] \in Nat /\ sequence'[kind] = sequence[kind] + 1
        BY <1>5, <2>2, <2>3
      <3>4. \A i \in DOMAIN tables[kind] : Outstanding(kind, i)' # r.number
        BY <1>2, <1>7, <1>8, <1>9, <2>3, <3>1, <3>3
      <3>5. QED  BY <2>2, <2>3, <3>2, <3>3, <3>4
    <2>4. CASE /\ j # 0 /\ r.number = OutOf(kind, tables[kind][j]) /\ r.number # 0
               /\ OutOf(kind, entry) = 0
      <3>1. j \in DOMAIN tables[kind] /\ r.number = Outstanding(kind, j)
        BY <1>2, <1>7, <2>4
      <3>2. /\ r.number <= sequence[kind] /\ r.number \in Nat
            /\ \A m \in DOMAIN emitted : emitted[m].kind = kind =>
                                            emitted[m].number # r.number
            /\ \A i \in DOMAIN tables[kind] : Outstanding(kind, i) = r.number => i = j
        BY <1>8, <1>2, <2>2, <2>4, <3>1 DEF NumbersInv
      <3>3. \A i \in DOMAIN tables[kind] : Outstanding(kind, i)' # r.number
        BY <1>2, <1>7, <2>4, <3>2
      <3>4. r.number \in 1..sequence'[kind]
        BY <1>5, <2>2, <2>4, <3>2
      <3>5. QED  BY <2>2, <3>2, <3>3, <3>4
    <2>5. QED  BY <1>1, <2>1, <2>3, <2>4 DEF Counts
  <1>11. ReportedOnce'
    <2>1. SUFFICES ASSUME NEW m \in DOMAIN emitted', NEW n \in DOMAIN emitted', m # n
                   PROVE  <<emitted'[m].kind, emitted'[m].number>>
                             # <<emitted'[n].kind, emitted'[n].number>>
      BY DEF ReportedOnce
    <2>2. CASE m \in DOMAIN emitted /\ n \in DOMAIN emitted
      BY <1>6, <2>1, <2>2 DEF ReportedOnce
    <2>3. CASE m \notin DOMAIN emitted
      BY <1>2, <1>6, <1>10, <2>1, <2>3
    <2>4. CASE n \notin DOMAIN emitted
      BY <1>2, <1>6, <1>10, <2>1, <2>4
    <2>5. QED  BY <2>2, <2>3, <2>4
  <1>12. NumbersInv'
    <2>1. SUFFICES ASSUME NEW k \in Numbered
                   PROVE  /\ \A i \in DOMAIN tables[k] :
                                /\ Outstanding(k, i)' <= sequence'[k]
                                /\ \A l \in DOMAIN tables[k] :
                                      Outstanding(k, i)' = Outstanding(k, l)' =>
                                         i = l \/ Outstanding(k, i)' = 0
                          /\ \A m \in DOMAIN emitted' : emitted'[m].kind = k =>
                                /\ emitted'[m].number \in 1..sequence'[k]
                                /\ \A i \in DOMAIN tables[k] :
                                      Outstanding(k, i)' # emitted'[m].number
      BY <1>3, <1>4 DEF NumbersInv
    <2>2. k \in Kinds
      BY <1>4
    <2>3. /\ \A i \in DOMAIN tables[k] :
                /\ Outstanding(k, i) <= sequence[k] /\ Outstanding(k, i) \in Nat
                /\ \A l \in DOMAIN tables[k] :
                      Outstanding(k, i) = Outstanding(k, l) => i = l \/ Outstanding(k, i) = 0
          /\ \A m \in DOMAIN emitted : emitted[m].kind = k =>
                /\ emitted[m].number \in 1..sequence[k]
                /\ \A i \in DOMAIN tables[k] : Outstanding(k, i) # emitted[m].number
      BY <1>8, <2>2 DEF NumbersInv
    <2>4. CASE k # kind
      <3>1. \A i \in DOMAIN tables[k] : Outstanding(k, i)' = Outstanding(k, i)
        BY <1>7, <2>2, <2>4
      <3>2. sequence'[k] = sequence[k]
        BY <1>5, <2>4
      <3>3. \A m \in DOMAIN emitted' : emitted'[m].kind = k =>
               m \in DOMAIN emitted /\ emitted'[m] = emitted[m]
        BY <1>2, <1>6, <2>4
      <3>4. QED  BY <2>3, <3>1, <3>2, <3>3
    <2>5. CASE k = kind
      <3>1. \A i \in DOMAIN tables[k] :
               Outstanding(k, i)' = IF i = j THEN OutOf(k, entry) ELSE Outstanding(k, i)
        BY <1>7, <2>2, <2>5
      <3>2. sequence[k] \in Nat /\ sequence'[k] = IF given THEN sequence[k] + 1 ELSE sequence[k]
        BY <1>5, <2>5
      <3>3. j # 0 => /\ j \in DOMAIN tables[k]
                     /\ \/ OutOf(k, entry) \in {0, Outstanding(k, j)}
                        \/ OutOf(k, entry) = sequence[k] + 1 /\ given
        BY <1>1, <1>2, <1>7, <2>5 DEF Counts
      <3>4. \A i \in DOMAIN tables[k] : i # 0
        BY <1>9, <2>2
      <3>5. \A i \in DOMAIN tables[k] : Outstanding(k, i)' <= sequence'[k]
        BY <2>3, <3>1, <3>2, <3>3, <3>4
      <3>6. \A i, l \in DOMAIN tables[k] :
               Outstanding(k, i)' = Outstanding(k, l)' => i = l \/ Outstanding(k, i)' = 0
        <4>1. SUFFICES ASSUME NEW i \in DOMAIN tables[k], NEW l \in DOMAIN tables[k],
                              Outstanding(k, i)' = Outstanding(k, l)', i # l
                       PROVE  Outstanding(k, i)' = 0
          OBVIOUS
        <4>2. CASE i # j /\ l # j
          BY <2>3, <3>1, <4>1, <4>2
        <4>3. ASSUME NEW a \in DOMAIN tables[k], a # j, j # 0,
                     OutOf(k, entry) = Outstanding(k, a)
              PROVE  OutOf(k, entry) = 0
          BY <2>3, <3>2, <3>3, <4>3
        <4>4. CASE i = j
          BY <3>1, <3>4, <4>1, <4>3, <4>4
        <4>5. CASE l = j
          BY <3>1, <3>4, <4>1, <4>3, <4>5
        <4>6. QED  BY <4>2, <4>4, <4>5
      <3>7. \A m \in DOMAIN emitted' : emitted'[m].kind = k =>
                /\ emitted'[m].number \in 1..sequence'[k]
                /\ \A i \in DOMAIN tables[k] : Outstanding(k, i)' # emitted'[m].number
        <4>1. SUFFICES ASSUME NEW m \in DOMAIN emitted', emitted'[m].kind = k
                       PROVE  /\ emitted'[m].number \in 1..sequence'[k]
                              /\ \A i \in DOMAIN tables[k] :
                                    Outstanding(k, i)' # emitted'[m].number
          OBVIOUS
        <4>2. CASE m \in DOMAIN emitted
          <5>1. /\ emitted'[m] = emitted[m] /\ emitted[m].number \in 1..sequence[k]
                /\ \A i \in DOMAIN tables[k] : Outstanding(k, i) # emitted[m].number
            BY <1>6, <2>3, <4>1, <4>2
          <5>2. \A i \in DOMAIN tables[k] : Outstanding(k, i)' # emitted[m].number
            BY <3>1, <3>2, <3>3, <3>4, <5>1
          <5>3. QED  BY <3>2, <5>1, <5>2
        <4>3. CASE m \notin DOMAIN emitted
          BY <1>6, <1>10, <2>5, <4>1, <4>3
        <4>4. QED  BY <4>2, <4>3
      <3>8. QED  BY <3>5, <3>6, <3>7
    <2>6. QED  BY <2>4, <2>5
  <1>13. QED  BY <1>11, <1>12

-----------------------------------------------------------------------------
(* A record that is processed is in the aggregate, and told or suppressed  *)
(* if it is slow.                                                          *)
LEMMA RecordAccounted ==
    ASSUME LogsInv, NEW entry, NEW failed, NEW finished \in Nat,
           ProcessLogRecord(entry, failed, finished)
    PROVE  LogsInv'
  <1> DEFINE isSlow == failed \/ finished - entry.started >= kSlowLogRecordMs
             isTold == /\ isSlow
                       /\ (IF RateEnds(finished) THEN 0 ELSE rate.emitted) < kSlowLogRateLimit
  <1>1. PICK slow \in BOOLEAN, told \in BOOLEAN, ended \in BOOLEAN :
           slow = isSlow /\ told = isTold /\ ended = WindowEnds(finished)
    BY DEF WindowEnds
  <1>2. told => slow
    BY <1>1
  <1> HIDE DEF isSlow, isTold
  <1>3. /\ aggregate' = AddToAggregate(IF ended THEN NoAggregate ELSE aggregate,
                                       finished, slow, told)
        /\ log_totals' =
             [records |-> log_totals.records + 1,
              slow    |-> log_totals.slow + One(slow),
              told    |-> log_totals.told + One(told),
              aggregated |->
                 IF ended THEN [k \in DOMAIN log_totals.aggregated |->
                                   log_totals.aggregated[k] + aggregate[k]]
                          ELSE log_totals.aggregated]
    BY <1>1 DEF ProcessLogRecord, isSlow, isTold
  <1>4. PICK a, b, s : /\ a = aggregate /\ s = log_totals.aggregated
                       /\ b = IF ended THEN NoAggregate ELSE aggregate
    OBVIOUS
  <1>5. /\ a \in Sums /\ s \in Sums /\ b \in Sums
        /\ log_totals.records \in Nat /\ log_totals.slow \in Nat /\ log_totals.told \in Nat
        /\ s.records + a.records = log_totals.records
        /\ s.slow + a.slow = log_totals.slow
        /\ s.suppressed + a.suppressed + log_totals.told = log_totals.slow
    BY <1>4 DEF LogsInv, LogsAccounted, Sums, NoAggregate
  <1>6. PICK x \in {0, 1}, y \in {0, 1}, z \in {0, 1} :
           x = One(slow) /\ y = One(told) /\ z = One(slow /\ ~told)
    BY DEF One
  <1>7. z + y = x
    BY <1>2, <1>6 DEF One
  <1>8. PICK n : n = AddToAggregate(b, finished, slow, told)
    OBVIOUS
  <1>9. /\ n \in Sums /\ n.records = b.records + 1 /\ n.slow = b.slow + x
        /\ n.suppressed = b.suppressed + z
    BY <1>5, <1>6, <1>8 DEF AddToAggregate, Sums
  <1>10. PICK w : w = IF ended THEN [k \in DOMAIN s |-> s[k] + a[k]] ELSE s
    OBVIOUS
  <1>11. /\ w \in Sums
         /\ w.records = IF ended THEN s.records + a.records ELSE s.records
         /\ w.slow = IF ended THEN s.slow + a.slow ELSE s.slow
         /\ w.suppressed = IF ended THEN s.suppressed + a.suppressed ELSE s.suppressed
    <2>1. CASE ended
      <3>1. DOMAIN s = {"started", "records", "slow", "suppressed"}
        BY <1>5 DEF Sums
      <3>2. w = [k \in {"started", "records", "slow", "suppressed"} |-> s[k] + a[k]]
        BY <1>10, <2>1, <3>1
      <3>3. w = [started |-> s.started + a.started, records |-> s.records + a.records,
                 slow |-> s.slow + a.slow, suppressed |-> s.suppressed + a.suppressed]
        BY <3>2
      <3>4. QED  BY <1>5, <2>1, <3>3 DEF Sums
    <2>2. CASE ~ended
      BY <1>5, <1>10, <2>2
    <2>3. QED  BY <2>1, <2>2
  <1>12. b.records = (IF ended THEN 0 ELSE a.records) /\ b.slow = (IF ended THEN 0 ELSE a.slow)
         /\ b.suppressed = (IF ended THEN 0 ELSE a.suppressed)
    BY <1>4 DEF NoAggregate
  <1>13. /\ aggregate' = n
         /\ log_totals' = [records |-> log_totals.records + 1, slow |-> log_totals.slow + x,
                           told |-> log_totals.told + y, aggregated |-> w]
    BY <1>3, <1>4, <1>6, <1>8, <1>10
  <1>14. log_totals' \in [records : Nat, slow : Nat, told : Nat, aggregated : Sums]
    BY <1>5, <1>6, <1>11, <1>13
  <1>15. /\ log_totals'.records = log_totals.records + 1
         /\ log_totals'.slow = log_totals.slow + x
         /\ log_totals'.told = log_totals.told + y /\ log_totals'.aggregated = w
    BY <1>13
  <1>16. /\ w.records + n.records = log_totals.records + 1
         /\ w.slow + n.slow = log_totals.slow + x
         /\ w.suppressed + n.suppressed + (log_totals.told + y) = log_totals.slow + x
    <2>1. /\ s.records \in Nat /\ s.slow \in Nat /\ s.suppressed \in Nat
          /\ a.records \in Nat /\ a.slow \in Nat /\ a.suppressed \in Nat
      BY <1>5 DEF Sums
    <2>2. PICK s1 \in Nat, s2 \in Nat, s3 \in Nat, a1 \in Nat, a2 \in Nat, a3 \in Nat :
             /\ s1 = s.records /\ s2 = s.slow /\ s3 = s.suppressed
             /\ a1 = a.records /\ a2 = a.slow /\ a3 = a.suppressed
      BY <2>1
    <2>3. PICK l1 \in Nat, l2 \in Nat, l3 \in Nat :
             l1 = log_totals.records /\ l2 = log_totals.slow /\ l3 = log_totals.told
      BY <1>5
    <2>4. s1 + a1 = l1 /\ s2 + a2 = l2 /\ s3 + a3 + l3 = l2
      BY <1>5, <2>2, <2>3
    <2>5. CASE ended
      <3>1. /\ w.records = s1 + a1 /\ w.slow = s2 + a2 /\ w.suppressed = s3 + a3
            /\ n.records = 0 + 1 /\ n.slow = 0 + x /\ n.suppressed = 0 + z
        BY <1>9, <1>11, <1>12, <2>2, <2>5
      <3>2. /\ (s1 + a1) + (0 + 1) = l1 + 1 /\ (s2 + a2) + (0 + x) = l2 + x
            /\ (s3 + a3) + (0 + z) + (l3 + y) = l2 + x
        BY ONLY <1>7, <2>4, x \in {0, 1}, y \in {0, 1}, z \in {0, 1}
      <3>3. QED  BY <2>3, <3>1, <3>2
    <2>6. CASE ~ended
      <3>1. /\ w.records = s1 /\ w.slow = s2 /\ w.suppressed = s3
            /\ n.records = a1 + 1 /\ n.slow = a2 + x /\ n.suppressed = a3 + z
        BY <1>9, <1>11, <1>12, <2>2, <2>6
      <3>2. /\ s1 + (a1 + 1) = l1 + 1 /\ s2 + (a2 + x) = l2 + x
            /\ s3 + (a3 + z) + (l3 + y) = l2 + x
        BY ONLY <1>7, <2>4, x \in {0, 1}, y \in {0, 1}, z \in {0, 1}
      <3>3. QED  BY <2>3, <3>1, <3>2
    <2>7. QED  BY <2>5, <2>6
  <1>17. LogsAccounted'
    BY <1>13, <1>15, <1>16 DEF LogsAccounted
  <1>18. QED  BY <1>9, <1>13, <1>14, <1>17 DEF LogsInv

(* The sums of the log records stay right.                                 *)
LEMMA LogsKept ==
    ASSUME CallsInv, LogsInv, NEW t \in Callers, Observe(t)
    PROVE  LogsInv'
  <1>1. PICK call : call = detour[t]
    OBVIOUS
  <1>2. call.finished \in Nat
    BY <1>1, ReturnedFacts DEF Observe, ReturnedCalls
  <1>3. CASE UNCHANGED logVars
    BY <1>3 DEF logVars, LogsInv, LogsAccounted
  <1>4. ASSUME NEW entry, NEW failed, ProcessLogRecord(entry, failed, call.finished)
        PROVE  LogsInv'
    BY <1>2, <1>4, RecordAccounted
  <1>5. UNCHANGED logVars \/ \E entry, failed : ProcessLogRecord(entry, failed, call.finished)
    <2>1. CASE ObserveOpen(call)
      <3>1. ObserveLogOpen(call) =>
               UNCHANGED logVars \/ \E entry, failed : ProcessLogRecord(entry, failed, call.finished)
        BY Zenon DEF ObserveLogOpen
      <3>2. QED
        BY <2>1, <3>1 DEF ObserveOpen, ObservePipeOpen, ObserveHttpOpen, ObserveHttpOpenRequest
    <2>2. CASE ObserveCall(call)
      <3>1. ObserveLogClose(call) =>
               \E entry, failed : ProcessLogRecord(entry, failed, call.finished)
        BY Zenon DEF ObserveLogClose
      <3>2. QED
        BY <2>2, <3>1 DEF ObserveCall, ObservePipeCall, ObserveUse, ObserveHttpClose
    <2>3. QED  BY <1>1, <2>1, <2>2 DEF Observe
  <1>6. QED  BY <1>3, <1>4, <1>5

-----------------------------------------------------------------------------
(* While no handle came back early: an entry under the handle of an open   *)
(* object is that object's.                                                *)
LEMMA HandleOwner ==
    ASSUME CallsInv, TablesTyped, TrackedInv, NEW h \in Handles, native[h] # NoObject,
           NEW k \in Kinds, NEW i \in DOMAIN tables[k], tables[k][i].handle = h
    PROVE  tables[k][i].object = native[h].id /\ native[h].kind = k
  <1>1. OwnedBy(k, tables[k][i])
    BY TrackingAssumption DEF TrackedInv, EntriesOwned, Handles
  <1>2. \A t \in Callers : ~(Closing(t) /\ detour[t].handle = h)
    BY DEF TrackedInv, ClosedFree
  <1>3. QED  BY <1>1, <1>2 DEF OwnedBy

(* An entry and its object.                                                *)
LEMMA EntryObject ==
    ASSUME TablesTyped, NEW k \in Kinds, NEW i \in DOMAIN tables[k]
    PROVE  /\ tables[k][i].handle \in Handles \cup {NoHandle}
           /\ tables[k][i].object \in Nat
           /\ tables[k][i].handle # NoHandle =>
                 /\ tables[k][i].object \in 1..calls /\ tables[k][i].object # 0
                 /\ Keeps(k, i, tables[k][i].object) /\ InTables(tables[k][i].object)
  BY EntryTyped DEF Entries, TablesTyped, Keeps, InTables

(* An entry under the handle of a returned call is its object's, also      *)
(* after the close.                                                        *)
LEMMA SlotObject ==
    ASSUME CallsInv, TablesTyped, TrackedInv, NEW t \in Callers,
           detour[t].at = "returned", NEW call, call = detour[t], call.op # "open",
           NEW k \in Kinds, NEW i \in DOMAIN tables[k],
           tables[k][i].handle = call.handle
    PROVE  tables[k][i].object = call.object.id /\ call.object.kind = k
  <1>1. /\ call.handle # NoHandle /\ CalledOk(call) /\ call.object.id \in 1..calls
        /\ call.object.kind \in Kinds /\ call \in ReturnedCalls /\ CallsTyped
    BY ReturnedFacts DEF CallsInv
  <1>2. call.handle \in Handles
    BY <1>1 DEF ReturnedCalls
  <1>3. CASE ~(call.op = "close" /\ call.result = "ok")
    <2>1. native[call.handle] = call.object /\ call.object # NoObject
      BY <1>1, <1>3 DEF CalledOk, NoObject, CallsTyped
    <2>2. QED  BY <1>2, <2>1, HandleOwner
  <1>4. CASE call.op = "close" /\ call.result = "ok"
    <2>1. Closing(t)
      BY <1>4 DEF Closing
    <2>2. native[call.handle] = NoObject
          /\ \A u \in Callers : Closing(u) /\ detour[u].handle = call.handle => u = t
      BY <2>1 DEF TrackedInv, ClosedFree
    <2>3. OwnedBy(k, tables[k][i])
      BY <1>1 DEF TrackedInv, EntriesOwned
    <2>4. tables[k][i].object # 0
      BY <1>1, EntryObject
    <2>5. PICK u \in Callers :
             /\ Closing(u) /\ detour[u].handle = call.handle
             /\ detour[u].object.id = tables[k][i].object /\ detour[u].object.kind = k
      BY <2>2, <2>3, <2>4 DEF OwnedBy, NoObject
    <2>6. QED  BY <2>2, <2>5
  <1>5. QED  BY <1>3, <1>4

(* The session that is found for a request is its own.                     *)
LEMMA KnownRight ==
    ASSUME CallsInv, TablesTyped, TrackedInv, NEW t \in Callers,
           detour[t].at = "returned", NEW call, call = detour[t], call.op = "open",
           call.kind = "request"
    PROVE  KnownSession(call.parent) \in {0, call.object.session}
  <1>1. PICK p : p = call.parent
    OBVIOUS
  <1>2. OpenedOk(call)
    BY ReturnedFacts
  <1>3. /\ p \in HttpHandles /\ p \in Handles /\ native[p].kind = "connection"
        /\ call.object.session = native[p].session /\ native[p] # NoObject
    BY <1>1, <1>2 DEF OpenedOk, ParentKind, Handles, NoObject
  <1>4. CASE ~IsTracked("connection", p)
    BY <1>1, <1>4 DEF KnownSession
  <1>5. CASE IsTracked("connection", p)
    <2>1. PICK c : c = SlotOf("connection", p)
      OBVIOUS
    <2>2. "connection" \in Kinds /\ "session" \in Kinds
      BY DEF Kinds, HttpKinds
    <2>3. c \in DOMAIN tables["connection"] /\ tables["connection"][c].handle = p
      BY <1>5, <2>1, <2>2, SlotHas
    <2>4. tables["connection"][c].object = native[p].id
      BY <1>3, <2>2, <2>3, HandleOwner
    <2>5. Keeps("connection", c, native[p].id)
      BY <1>3, <2>3, <2>4, TrackingAssumption DEF Keeps
    <2>6. PICK s : s = native[p].parent
      OBVIOUS
    <2>7. tables["connection"][c].parent = s
      BY <1>3, <2>3, <2>5, <2>6 DEF TrackedInv, SessionsKnown
    <2>8. CASE ~IsTracked("session", s)
      BY <1>1, <1>5, <2>1, <2>7, <2>8 DEF KnownSession
    <2>9. CASE IsTracked("session", s)
      <3>1. PICK d : d = SlotOf("session", s)
        OBVIOUS
      <3>2. d \in DOMAIN tables["session"] /\ tables["session"][d].handle = s
        BY <2>2, <2>9, <3>1, SlotHas
      <3>3. tables["session"][d].object = native[p].session
        BY <1>3, <2>6, <3>2 DEF TrackedInv, SessionsKnown
      <3>4. KnownSession(p) = tables["session"][d].object
        BY <1>5, <2>1, <2>7, <2>9, <3>1 DEF KnownSession
      <3>5. QED  BY <1>1, <1>3, <3>3, <3>4
    <2>10. QED  BY <2>8, <2>9
  <1>6. QED  BY <1>4, <1>5

(* A step that enters a call.                                              *)
LEMMA TrackedEnter ==
    ASSUME CallsInv, CallsInv', TablesTyped, LedgerTyped, TrackedInv,
           NEW t \in Callers, NEW op \in Ops,
           NEW kind \in Kinds \cup {"none"}, NEW handle \in Handles \cup {NoHandle},
           Enter(t, op, kind, handle),
           op # "open" => /\ handle # NoHandle
                          /\ kind = IF handle \in HttpHandles THEN native[handle].kind
                                                              ELSE TrackedKind(handle)
    PROVE  TrackedInv'
  <1>1. /\ calls' = calls + 1 /\ native' = native /\ detour[t].at = "idle"
        /\ detour' = [detour EXCEPT ![t] =
              [at |-> "entered", number |-> calls + 1, op |-> op, kind |-> kind,
               handle |-> handle, started |-> now, parent |-> NoObject,
               target |-> IF handle = NoHandle THEN 0 ELSE native[handle].id]]
        /\ handle # NoHandle => native[handle] # NoObject /\ ~InUse(native[handle].id)
    BY DEF Enter
  <1>2. UNCHANGED <<tables, observed, emitted, untracked>>
    BY DEF Enter, ledgerVars
  <1>3. CallsTyped /\ CallsTyped' /\ calls \in Nat
    BY DEF CallsInv, CallsTyped
  <1>4. /\ \A u \in Callers : u # t => detour'[u] = detour[u]
        /\ detour'[t].at = "entered" /\ detour'[t].op = op /\ detour'[t].kind = kind
        /\ detour'[t].number = calls + 1 /\ detour'[t].handle = handle
        /\ handle # NoHandle => detour'[t].target = native[handle].id
    BY <1>1, <1>3 DEF CallsTyped
  <1>5. \A u \in Callers : Closing(u)' <=> Closing(u)
    BY <1>1, <1>4 DEF Closing
  <1>6. \A u \in Callers : Closing(u) => u # t
    BY <1>1 DEF Closing
  <1>7. \A u \in Callers, id \in Nat :
           Opens(u, id)' <=> Opens(u, id) \/ (u = t /\ op = "open" /\ id = calls + 1)
    BY <1>1, <1>4 DEF Opens
  <1>8. \A id : InTables(id)' <=> InTables(id)
    BY <1>2 DEF InTables, Keeps
  <1>9. \A id \in Nat : InTables(id) => id \in 1..calls
    BY DEF InTables, Keeps, TablesTyped
  <1>10. EntriesOwned' /\ ClosedFree' /\ OneSlot'
    BY <1>1, <1>2, <1>4, <1>5, <1>6
       DEF TrackedInv, EntriesOwned, ClosedFree, OneSlot, OwnedBy, Keeps
  <1>11. NotYet'
    BY <1>3, <1>7, <1>8, <1>9 DEF TrackedInv, NotYet
  <1>12. AllEntered'
    <2>1. \A h \in Handles : native[h].id \in Nat
      BY <1>3 DEF CallsTyped, ObjectRecords
    <2>2. QED  BY <1>1, <1>2, <1>7, <2>1 DEF TrackedInv, AllEntered, Keeps
  <1>13. KindKnown'
    <2>1. SUFFICES ASSUME NEW u \in Callers, detour'[u].at # "idle", detour'[u].op # "open",
                          NEW k \in Kinds, NEW i \in DOMAIN tables[k],
                          Keeps(k, i, detour'[u].target)
                   PROVE  detour'[u].kind = k
      BY <1>2 DEF KindKnown, Keeps
    <2>2. CASE u # t
      BY <1>4, <2>1, <2>2 DEF TrackedInv, KindKnown
    <2>3. CASE u = t
      <3>1. /\ op # "open" /\ handle # NoHandle /\ handle \in Handles
            /\ detour'[u].kind = kind /\ native[handle] # NoObject
            /\ Keeps(k, i, native[handle].id)
        BY <1>1, <1>4, <2>1, <2>3
      <3>2. tables[k][i].handle # NoHandle /\ tables[k][i].object = native[handle].id
        BY <3>1 DEF Keeps
      <3>3. OwnedBy(k, tables[k][i])
        BY <3>2 DEF TrackedInv, EntriesOwned
      <3>4. IsOpen(native[handle].id)
        BY <3>1 DEF IsOpen
      <3>5. ~(\E v \in Callers :
                /\ Closing(v) /\ detour[v].handle = tables[k][i].handle
                /\ detour[v].object.id = tables[k][i].object /\ detour[v].object.kind = k)
        BY <3>2, <3>4 DEF Closing, CallsInv, ReturnedRight, CalledOk
      <3>6. native[tables[k][i].handle].id = native[handle].id
            /\ native[tables[k][i].handle].kind = k
        BY <3>2, <3>3, <3>5 DEF OwnedBy
      <3>7. native[handle].id # 0
        BY <3>1 DEF CallsInv, NativeRight
      <3>8. tables[k][i].handle \in Handles
        BY <3>2, EntryObject
      <3>9. tables[k][i].handle = handle /\ native[handle].kind = k
        BY <3>1, <3>6, <3>7, <3>8 DEF CallsInv, OneHandle
      <3>10. CASE handle \in HttpHandles
        BY <3>1, <3>9, <3>10
      <3>11. CASE handle \notin HttpHandles
        <4>1. kind = TrackedKind(handle)
          BY <3>1, <3>11
        <4>2. k \in {"pipe", "log"}
          BY <3>1, <3>9, <3>11 DEF CallsInv, NativeRight, HandlesOf, FileKinds
        <4>3. IsTracked(k, handle)
          BY <3>9 DEF IsTracked, SlotsWith
        <4>4. IsTracked("pipe", handle) => k = "pipe"
          <5>1. SUFFICES ASSUME IsTracked("pipe", handle) PROVE k = "pipe"
            OBVIOUS
          <5>2. "pipe" \in Kinds
            BY DEF Kinds, FileKinds
          <5>3. PICK m \in DOMAIN tables["pipe"] : tables["pipe"][m].handle = handle
            BY <5>1 DEF IsTracked, SlotsWith
          <5>4. QED  BY <3>1, <3>9, <5>2, <5>3, HandleOwner
        <4>5. CASE k = "pipe"
          <5>1. IsTracked("pipe", handle)
            BY <4>3, <4>5
          <5>2. TrackedKind(handle) = "pipe"
            BY ONLY <5>1 DEF TrackedKind
          <5>3. QED  BY <3>1, <4>1, <4>5, <5>2
        <4>6. CASE k = "log"
          <5>1. IsTracked("log", handle) /\ ~IsTracked("pipe", handle)
            BY <4>3, <4>4, <4>6
          <5>2. TrackedKind(handle) = "log"
            BY ONLY <5>1 DEF TrackedKind
          <5>3. QED  BY <3>1, <4>1, <4>6, <5>2
        <4>7. QED  BY <4>2, <4>5, <4>6
      <3>12. QED  BY <3>10, <3>11
    <2>4. QED  BY <2>2, <2>3
  <1>14. CallsCounted'
    <2>1. /\ \A k \in Kinds : \A i \in DOMAIN tables[k] :
                tables[k][i].handle # NoHandle =>
                   tables[k][i].calls = observed[tables[k][i].object]
          /\ \A id \in Objects :
                id > calls \/ (\E u \in Callers : Opens(u, id)) => observed[id] = 0
      BY DEF TrackedInv, CallsCounted
    <2>2. ASSUME NEW id \in Objects, id > calls + 1 \/ (\E u \in Callers : Opens(u, id)')
          PROVE  observed[id] = 0
      <3>1. id \in Nat
        BY DEF Objects
      <3>2. id > calls \/ (\E u \in Callers : Opens(u, id))
        BY <1>3, <1>7, <2>2, <3>1
      <3>3. QED  BY <2>1, <3>2
    <2>3. QED  BY <1>1, <1>2, <2>1, <2>2 DEF CallsCounted
  <1>15. SessionsKnown'
    BY <1>1, <1>2 DEF TrackedInv, SessionsKnown, Keeps
  <1>16. ReportsDone'
    BY <1>1, <1>2, <1>3, <1>7, <1>8 DEF TrackedInv, ReportsDone
  <1>17. QED
    BY <1>10, <1>11, <1>12, <1>13, <1>14, <1>15, <1>16 DEF TrackedInv

(* The system's answer. A new object is under a handle that nobody still   *)
(* has to observe as closed.                                               *)
LEMMA TrackedOpened ==
    ASSUME CallsInv, CallsInv', TablesTyped, LedgerTyped, TrackedInv,
           NEW t \in Callers, NativeCall(t), detour[t].op = "open",
           NEW handle \in LowestVacant(detour[t].kind), ~IsUnobserved(handle),
           native' = [native EXCEPT ![handle] = NewObject(detour[t])],
           Return(t, handle, NewObject(detour[t]), "ok")
    PROVE  TrackedInv'
  <1>1. PICK call, object : call = detour[t] /\ object = NewObject(call)
    OBVIOUS
  <1>2. CallsTyped /\ calls' = calls
    BY DEF CallsInv, NativeCall
  <1>3. UNCHANGED <<tables, observed, emitted, untracked>>
    BY DEF NativeCall, ledgerVars
  <1>4. /\ call \in EnteredCalls /\ call.at = "entered" /\ call.op = "open"
        /\ EnteredOk(call)
    BY <1>1, <1>2 DEF NativeCall, CallsTyped, ReturnedCalls, AtRest, CallsInv, EnteredRight
  <1>5. /\ \A u \in Callers : u # t => detour'[u] = detour[u]
        /\ detour'[t].at = "returned" /\ detour'[t].op = "open" /\ detour'[t].object = object
        /\ detour'[t].target = call.target
    BY <1>1, <1>2, <1>4 DEF Return, CallsTyped
  <1>6. object.id = call.number /\ object.kind = call.kind /\ object.parent = call.handle
        /\ object.session = (IF call.kind = "session" THEN call.number
                             ELSE IF call.handle = NoHandle THEN 0
                             ELSE native[call.handle].session)
    BY <1>1 DEF NewObject
  <1>7. /\ handle \in Handles /\ native[handle] = NoObject /\ Vacant(handle)
        /\ \A g \in Handles : native'[g] = IF g = handle THEN object ELSE native[g]
    BY <1>1, <1>2 DEF LowestVacant, HandlesOf, Handles, Vacant, CallsTyped
  <1>8. Opens(t, call.number) /\ ~InTables(call.number) /\ call.number \in Nat
    BY <1>1, <1>4 DEF Opens, TrackedInv, NotYet, EnteredCalls
  <1>9. \A u \in Callers : (Closing(u)' <=> Closing(u)) /\ (Closing(u) => u # t)
    BY <1>1, <1>4, <1>5 DEF Closing
  <1>10. \A u \in Callers, id \in Nat : Opens(u, id)' <=> Opens(u, id)
    BY <1>1, <1>4, <1>5, <1>6 DEF Opens
  <1>11. \A id : InTables(id)' <=> InTables(id)
    BY <1>3 DEF InTables, Keeps
  <1>12. \A u \in Callers : Closing(u) => detour[u].handle # handle
    BY DEF IsUnobserved, Closing
  <1>13. EntriesOwned'
    <2>1. SUFFICES ASSUME NEW k \in Kinds, NEW i \in DOMAIN tables[k],
                          tables[k][i].handle # NoHandle
                   PROVE  OwnedBy(k, tables[k][i])'
      BY <1>3 DEF EntriesOwned
    <2>2. PICK e : e = tables[k][i]
      OBVIOUS
    <2>3. OwnedBy(k, e) /\ e.handle \in Handles /\ e.object # 0
      BY <2>1, <2>2, EntryObject DEF TrackedInv, EntriesOwned
    <2>4. native[e.handle].id = e.object => e.handle # handle
      BY <1>7, <2>3 DEF NoObject
    <2>5. OwnedBy(k, e)'
      BY <1>5, <1>7, <1>9, <2>3, <2>4 DEF OwnedBy
    <2>6. QED  BY <1>3, <2>2, <2>5
  <1>14. ClosedFree'
    <2>1. \A u \in Callers : Closing(u) => detour[u].handle \in Handles
      BY <1>2, ReturnedFacts DEF Closing, CalledOk, HandlesOf, Handles
    <2>2. QED
      BY <1>5, <1>7, <1>9, <1>12, <2>1 DEF TrackedInv, ClosedFree
  <1>15. OneSlot' /\ NotYet'
    BY <1>3, <1>10, <1>11 DEF TrackedInv, OneSlot, NotYet, Keeps
  <1>16. AllEntered'
    <2>1. SUFFICES ASSUME NEW h \in Handles, NEW x, x = native'[h]
                   PROVE  \/ x = NoObject
                          \/ x.id \in untracked
                          \/ \E u \in Callers : Opens(u, x.id)'
                          \/ \E i \in DOMAIN tables[x.kind] : Keeps(x.kind, i, x.id)
      BY <1>3 DEF AllEntered, Keeps, Opens
    <2>2. CASE h = handle
      BY <1>6, <1>7, <1>8, <1>10, <2>1, <2>2
    <2>3. CASE h # handle
      <3>1. x = native[h] /\ x.id \in Nat
        BY <1>2, <1>7, <2>1, <2>3 DEF CallsTyped, ObjectRecords
      <3>2. QED  BY <1>10, <3>1 DEF TrackedInv, AllEntered
    <2>4. QED  BY <2>2, <2>3
  <1>17. KindKnown'
    BY <1>3, <1>5 DEF TrackedInv, KindKnown, Keeps
  <1>18. CallsCounted'
    BY <1>2, <1>3, <1>10 DEF TrackedInv, CallsCounted, Objects
  <1>19. SessionsKnown'
    <2>1. \A i \in DOMAIN tables["connection"] : ~Keeps("connection", i, call.number)
      BY <1>8 DEF InTables, Kinds, HttpKinds
    <2>2. \A i \in DOMAIN tables["connection"] : \A h \in Handles :
             Keeps("connection", i, native'[h].id) =>
                tables["connection"][i].parent = native'[h].parent
      BY <1>6, <1>7, <2>1 DEF TrackedInv, SessionsKnown
    <2>3. ASSUME NEW i \in DOMAIN tables["session"], NEW h \in Handles,
                 native'[h].kind = "connection",
                 tables["session"][i].handle = native'[h].parent
          PROVE  tables["session"][i].object = native'[h].session
      <3>1. CASE h # handle
        BY <1>7, <2>3, <3>1 DEF TrackedInv, SessionsKnown
      <3>2. CASE h = handle
        <4>1. call.kind = "connection" /\ native'[h] = object
          BY <1>6, <1>7, <2>3, <3>2
        <4>2. /\ call.handle \in HttpHandles /\ call.handle \in Handles
              /\ call.handle # NoHandle
              /\ native[call.handle].kind = "session"
              /\ native[call.handle] # NoObject
          BY <1>4, <4>1, TrackingAssumption DEF EnteredOk, ParentKind, NoObject, Handles
        <4>3. tables["session"][i].handle = call.handle /\ "session" \in Kinds
          BY <1>6, <2>3, <4>1 DEF Kinds, HttpKinds
        <4>4. tables["session"][i].object = native[call.handle].id
          BY <4>2, <4>3, HandleOwner
        <4>5. native[call.handle].session = native[call.handle].id
          BY <4>2 DEF CallsInv, NativeRight
        <4>6. QED  BY <1>6, <4>1, <4>2, <4>4, <4>5
      <3>3. QED  BY <3>1, <3>2
    <2>4. QED  BY <1>3, <2>2, <2>3 DEF TrackedInv, SessionsKnown, Keeps
  <1>20. ReportsDone'
    BY <1>2, <1>3, <1>10, <1>11, <1>8 DEF TrackedInv, ReportsDone
  <1>21. QED
    BY <1>13, <1>14, <1>15, <1>16, <1>17, <1>18, <1>19, <1>20 DEF TrackedInv

(* Any other answer: the object, if it was closed, is the one the thread   *)
(* still has to observe.                                                   *)
LEMMA TrackedAnswered ==
    ASSUME CallsInv, CallsInv', TablesTyped, LedgerTyped, TrackedInv,
           NEW t \in Callers, NativeCall(t), NEW call, call = detour[t],
           NEW back, detour' = [detour EXCEPT ![t] = back], back.at = "returned",
           back.op = call.op, back.kind = call.kind, back.target = call.target,
           call.op = "open" => back.object.id = call.number /\ native' = native,
           call.op # "open" =>
              /\ back.handle = call.handle /\ back.object = native[call.handle]
              /\ native' = IF call.op = "close" /\ back.result = "ok"
                           THEN [native EXCEPT ![call.handle] = NoObject] ELSE native
    PROVE  TrackedInv'
  <1>1. CallsTyped /\ calls' = calls
    BY DEF CallsInv, NativeCall
  <1>2. UNCHANGED <<tables, observed, emitted, untracked>>
    BY DEF NativeCall, ledgerVars
  <1>3. call \in EnteredCalls /\ call.at = "entered" /\ EnteredOk(call)
    BY <1>1 DEF NativeCall, CallsTyped, ReturnedCalls, AtRest, CallsInv, EnteredRight
  <1>4. \A u \in Callers : detour'[u] = IF u = t THEN back ELSE detour[u]
    BY <1>1 DEF CallsTyped
  <1>5. call.op # "open" =>
           /\ call.handle \in Handles /\ native[call.handle].id = call.target
           /\ call.target # 0 /\ native[call.handle] # NoObject
    BY <1>3 DEF EnteredOk, EnteredCalls, NoObject
  <1>6. PICK closes \in BOOLEAN :
           closes = (call.op = "close" /\ back.result = "ok")
    OBVIOUS
  <1>7. \A u \in Callers : (Closing(u)' <=> Closing(u) \/ (u = t /\ closes))
                           /\ (Closing(u) => u # t)
    <2>1. \A u \in Callers : u # t => (Closing(u)' <=> Closing(u))
      BY <1>4 DEF Closing
    <2>2. detour'[t] = back
      BY <1>4
    <2>3. Closing(t)' <=> closes
      BY <1>6, <2>2 DEF Closing
    <2>4. ~Closing(t)
      BY <1>3 DEF Closing
    <2>5. QED  BY <2>1, <2>3, <2>4
  <1>8. \A u \in Callers, id \in Nat : Opens(u, id)' <=> Opens(u, id)
    BY <1>3, <1>4 DEF Opens
  <1>9. \A id : InTables(id)' <=> InTables(id)
    BY <1>2 DEF InTables, Keeps
  <1>10. \A g \in Handles :
            native'[g] = IF closes /\ g = call.handle THEN NoObject ELSE native[g]
    BY <1>1, <1>5, <1>6 DEF CallsTyped
  <1>11. EntriesOwned'
    <2>1. SUFFICES ASSUME NEW k \in Kinds, NEW i \in DOMAIN tables[k],
                          tables[k][i].handle # NoHandle
                   PROVE  OwnedBy(k, tables[k][i])'
      BY <1>2 DEF EntriesOwned
    <2>2. PICK e : e = tables[k][i]
      OBVIOUS
    <2>3. OwnedBy(k, e) /\ e.handle \in Handles /\ e.object # 0
      BY <2>1, <2>2, EntryObject DEF TrackedInv, EntriesOwned
    <2>4. OwnedBy(k, e)'
      <3>1. CASE /\ native[e.handle].id = e.object /\ native[e.handle].kind = k
                 /\ ~(closes /\ e.handle = call.handle)
        BY <1>10, <2>3, <3>1 DEF OwnedBy
      <3>2. CASE /\ native[e.handle].id = e.object /\ native[e.handle].kind = k
                 /\ closes /\ e.handle = call.handle
        <4>1. Closing(t)' /\ call.op # "open"
          BY <1>6, <1>7, <3>2
        <4>2. detour'[t].handle = e.handle /\ detour'[t].object = native[call.handle]
          BY <1>4, <3>2, <4>1
        <4>3. QED  BY <3>2, <4>1, <4>2 DEF OwnedBy
      <3>3. CASE \E u \in Callers :
                    /\ Closing(u) /\ detour[u].handle = e.handle
                    /\ detour[u].object.id = e.object /\ detour[u].object.kind = k
        BY <1>4, <1>7, <3>3 DEF OwnedBy
      <3>4. QED  BY <2>3, <3>1, <3>2, <3>3 DEF OwnedBy
    <2>5. QED  BY <1>2, <2>2, <2>4
  <1>12. ClosedFree'
    <2>1. \A u \in Callers : Closing(u) => detour[u].handle \in Handles
      BY <1>1, ReturnedFacts DEF Closing, CalledOk, HandlesOf, Handles
    <2>2. \A u \in Callers : Closing(u) =>
             /\ native[detour[u].handle] = NoObject
             /\ detour'[u].handle = detour[u].handle
             /\ \A v \in Callers : Closing(v) /\ detour[v].handle = detour[u].handle => u = v
      BY <1>4, <1>7 DEF TrackedInv, ClosedFree
    <2>3. closes => /\ detour'[t].handle = call.handle /\ call.handle \in Handles
                    /\ native[call.handle] # NoObject /\ native'[call.handle] = NoObject
      BY <1>4, <1>5, <1>6, <1>10
    <2>4. ASSUME NEW u \in Callers, Closing(u)'
          PROVE  /\ native'[detour'[u].handle] = NoObject
                 /\ \A v \in Callers :
                       Closing(v)' /\ detour'[v].handle = detour'[u].handle => v = u
      BY <1>7, <1>10, <2>1, <2>2, <2>3, <2>4
    <2>5. QED  BY <2>4 DEF ClosedFree
  <1>13. OneSlot' /\ NotYet'
    BY <1>2, <1>8, <1>9 DEF TrackedInv, OneSlot, NotYet, Keeps
  <1>14. AllEntered'
    <2>1. \A h \in Handles : native[h].id \in Nat
      BY <1>1 DEF CallsTyped, ObjectRecords
    <2>2. QED  BY <1>2, <1>8, <1>10, <2>1 DEF TrackedInv, AllEntered, Keeps
  <1>15. KindKnown'
    BY <1>2, <1>3, <1>4 DEF TrackedInv, KindKnown, Keeps
  <1>16. CallsCounted'
    BY <1>1, <1>2, <1>8 DEF TrackedInv, CallsCounted, Objects
  <1>17. SessionsKnown'
    <2>1. "connection" \in Kinds
      BY DEF Kinds, HttpKinds
    <2>2. \A i \in DOMAIN tables["connection"] : ~Keeps("connection", i, 0)
      BY <2>1, EntryObject DEF Keeps
    <2>3. NoObject.id = 0 /\ NoObject.kind = "none"
      BY DEF NoObject
    <2>4. QED  BY <1>2, <1>10, <2>2, <2>3 DEF TrackedInv, SessionsKnown, Keeps
  <1>18. ReportsDone'
    <2>1. 1..calls \subseteq Nat
      BY <1>1 DEF CallsTyped
    <2>2. QED  BY <1>1, <1>2, <1>8, <1>9, <2>1 DEF TrackedInv, ReportsDone
  <1>19. QED
    BY <1>11, <1>12, <1>13, <1>14, <1>15, <1>16, <1>17, <1>18 DEF TrackedInv

(* An observation leaves the tables right: the slot it sets is that of its *)
(* own object, which nobody opens or uses in another thread.               *)
LEMMA TrackedObserved ==
    ASSUME CallsInv, CallsInv', TablesTyped, LedgerTyped, TrackedInv,
           NEW t \in Callers, Observe(t), NEW call, call = detour[t],
           NEW kind, NEW j, NEW entry, NEW given, NEW r,
           Ledger(call, kind, j, entry, given, r)
    PROVE  TrackedInv'
  <1>1. /\ detour[t].at = "returned" /\ calls' = calls /\ native' = native
        /\ detour' = [detour EXCEPT ![t] = AtRest]
    BY DEF Observe
  <1>2. CallsTyped
    BY DEF CallsInv
  <1>3. /\ call \in ReturnedCalls
        /\ call.object.id \in 1..calls /\ call.object.id \in Objects
        /\ call.object.id \in Nat /\ call.object.id # 0
        /\ call.object.kind \in Kinds
        /\ call.op = "open" => OpenedOk(call) /\ call.kind \in Kinds
        /\ call.op # "open" => CalledOk(call) /\ call.handle # NoHandle
        /\ call.op = "open" /\ call.result = "ok" =>
              call.handle # NoHandle /\ call.handle \in Handles
    BY <1>1, <1>2, ReturnedFacts DEF CallsTyped
  <1>4. /\ Moves(kind, j, entry, given, r) /\ Counts(kind, j, entry, given, r)
        /\ Tracks(call, kind, j, entry) /\ Misses(call, kind, j)
        /\ Tells(call, kind, j, r)
    BY DEF Ledger
  <1>5. kind \in Kinds /\ entry \in Entries /\ j \in {0} \cup DOMAIN tables[kind]
    BY <1>4 DEF Moves
  <1>6. /\ TablesTyped' /\ LedgerTyped'
        /\ \A k \in Kinds : DOMAIN tables'[k] = DOMAIN tables[k]
        /\ \A k \in Kinds : \A i \in DOMAIN tables[k] :
              tables'[k][i] = IF k = kind /\ i = j THEN entry ELSE tables[k][i]
    BY <1>1, <1>2, <1>3, LedgerTypes
  <1>7. \A k \in Kinds : 0 \notin DOMAIN tables[k]
    BY TrackingAssumption DEF TablesTyped
  <1>8. /\ \A u \in Callers : u # t => detour'[u] = detour[u]
        /\ detour'[t].at = "idle"
    BY <1>1, <1>2 DEF CallsTyped, AtRest
  <1>9. \A u \in Callers : Closing(u)' <=> Closing(u) /\ u # t
    BY <1>8 DEF Closing
  <1>10. \A u \in Callers : \A id \in Nat : Opens(u, id)' <=> Opens(u, id) /\ u # t
    BY <1>8 DEF Opens
  <1>11. call.op = "open" => Opens(t, call.object.id)
    BY <1>1 DEF Opens
  <1>12. \A k \in Kinds : \A i \in DOMAIN tables[k] : \A id \in Nat :
            Keeps(k, i, id)' <=> IF k = kind /\ i = j
                               THEN entry.handle # NoHandle /\ entry.object = id
                               ELSE Keeps(k, i, id)
    BY <1>6 DEF Keeps
  <1>13. \A id \in Nat : InTables(id)' <=>
            \E k \in Kinds : \E i \in DOMAIN tables[k] : Keeps(k, i, id)'
    BY <1>6 DEF InTables
  <1>14. ASSUME j # 0, Placed(call, kind, j, entry)
         PROVE  /\ native[call.handle] = call.object /\ call.object.kind = kind
                /\ ~InTables(call.object.id) /\ tables[kind][j].handle = NoHandle
                /\ call.handle \in Handles /\ call.handle # NoHandle
    <2>1. /\ call.op = "open" /\ call.result = "ok" /\ kind = call.kind
      BY <1>14 DEF Placed
    <2>2. /\ native[call.handle] = call.object /\ call.object.kind = kind
          /\ call.handle \in Handles /\ call.handle # NoHandle
          /\ call.object # NoObject
      BY <1>3, <2>1 DEF OpenedOk, NoObject
    <2>3. ~InTables(call.object.id)
      BY <1>3, <1>11, <2>1 DEF TrackedInv, NotYet
    <2>4. tables[kind][j].handle = call.handle => FALSE
      <3>1. SUFFICES ASSUME tables[kind][j].handle = call.handle PROVE FALSE
        OBVIOUS
      <3>2. j \in DOMAIN tables[kind]
        BY <1>5, <1>14
      <3>3. tables[kind][j].object = call.object.id
        BY <1>5, <2>2, <3>1, <3>2, HandleOwner
      <3>4. InTables(call.object.id)
        BY <1>5, <2>2, <3>1, <3>2, <3>3, EntryObject
      <3>5. QED  BY <2>3, <3>4
    <2>5. QED  BY <1>14, <2>2, <2>3, <2>4 DEF Placed
  <1>15. ASSUME j # 0, call.op # "open"
         PROVE  /\ tables[kind][j].object = call.object.id /\ call.object.kind = kind
                /\ tables[kind][j].handle = call.handle /\ call.handle # NoHandle
                /\ Keeps(kind, j, call.object.id) /\ InTables(call.object.id)
    <2>1. tables[kind][j].handle = call.handle
      BY <1>4, <1>15 DEF Tracks, Placed, Dropped, Changed
    <2>2. j \in DOMAIN tables[kind]
      BY <1>5, <1>15
    <2>3. tables[kind][j].object = call.object.id /\ call.object.kind = kind
      BY <1>1, <1>5, <1>15, <2>1, <2>2, SlotObject
    <2>4. Keeps(kind, j, call.object.id)
      BY <1>3, <1>15, <2>1, <2>3 DEF Keeps
    <2>5. QED  BY <1>3, <1>5, <1>15, <2>1, <2>2, <2>3, <2>4 DEF InTables
  <1>16. j # 0 => \/ call.op = "open" /\ Placed(call, kind, j, entry)
                  \/ call.op = "close" /\ Dropped(call, kind, j, entry)
                  \/ call.op \notin {"open", "close"} /\ Changed(call, kind, j, entry)
    BY <1>4 DEF Tracks, Placed, Dropped, Changed
  <1>17. j # 0 /\ entry.handle # NoHandle =>
            entry.object = call.object.id /\ entry.handle = call.handle
            /\ call.op # "close"
    BY <1>15, <1>16, NoReportApart DEF Placed, Dropped, Changed
  <1>18. ASSUME NEW k \in Kinds, NEW i \in DOMAIN tables[k], NEW id \in Nat,
                Keeps(k, i, id)'
         PROVE  \/ Keeps(k, i, id)
                \/ /\ k = kind /\ i = j /\ j # 0 /\ id = call.object.id
                   /\ Placed(call, kind, j, entry)
    <2>1. CASE ~(k = kind /\ i = j)
      BY <1>12, <1>18, <2>1
    <2>2. CASE k = kind /\ i = j
      <3>1. j # 0 /\ entry.handle # NoHandle /\ entry.object = id
        BY <1>7, <1>12, <1>18, <2>2
      <3>2. id = call.object.id /\ call.op # "close"
        BY <1>17, <3>1
      <3>3. QED  BY <1>15, <1>16, <2>2, <3>1, <3>2
    <2>3. QED  BY <2>1, <2>2
  <1>19. EntriesOwned'
    <2>1. SUFFICES ASSUME NEW k \in Kinds, NEW i \in DOMAIN tables[k], NEW e,
                          e = tables'[k][i], e.handle # NoHandle
                   PROVE  OwnedBy(k, e)'
      BY <1>6 DEF EntriesOwned, OwnedBy
    <2>2. CASE k = kind /\ i = j
      <3>1. j # 0 /\ e = entry
        BY <1>6, <1>7, <2>1, <2>2
      <3>2. /\ e.object = call.object.id /\ e.handle = call.handle /\ call.op # "close"
            /\ call.object.kind = k
        BY <1>14, <1>15, <1>16, <1>17, <2>1, <2>2, <3>1
      <3>3. native[call.handle] = call.object
        BY <1>3, <1>14, <1>16, <3>1, <3>2 DEF CalledOk
      <3>4. QED  BY <1>1, <3>2, <3>3 DEF OwnedBy
    <2>3. CASE ~(k = kind /\ i = j)
      <3>1. e = tables[k][i]
        BY <1>6, <2>1, <2>3
      <3>2. OwnedBy(k, e)
        BY <2>1, <3>1 DEF TrackedInv, EntriesOwned
      <3>3. ASSUME Closing(t), detour[t].handle = e.handle,
                   detour[t].object.id = e.object, detour[t].object.kind = k
            PROVE  FALSE
        <4>1. call.op = "close" /\ call.object.id = e.object /\ call.handle = e.handle
              /\ CalledOk(call)
          BY <1>3, <3>3 DEF Closing
        <4>2. Keeps(k, i, call.object.id)
          BY <2>1, <3>1, <4>1 DEF Keeps
        <4>3. CASE j = 0
          <5>1. call.target = call.object.id
            BY <4>1 DEF CalledOk
          <5>2. call.kind = k
            BY <1>1, <4>1, <4>2, <5>1 DEF TrackedInv, KindKnown
          <5>3. ~IsTracked(k, call.handle)
            BY <1>4, <4>1, <4>3, <5>2 DEF Misses
          <5>4. QED  BY <3>1, <4>1, <5>3 DEF IsTracked, SlotsWith
        <4>4. CASE j # 0
          <5>1. Keeps(kind, j, call.object.id) /\ j \in DOMAIN tables[kind]
            BY <1>5, <1>15, <4>1, <4>4
          <5>2. k = kind /\ i = j
            BY <1>3, <1>5, <4>2, <5>1 DEF TrackedInv, OneSlot
          <5>3. QED  BY <2>3, <5>2
        <4>5. QED  BY <4>3, <4>4
      <3>4. QED  BY <1>1, <1>8, <1>9, <3>2, <3>3 DEF OwnedBy
    <2>4. QED  BY <2>2, <2>3
  <1>20. ClosedFree'
    BY <1>1, <1>8, <1>9 DEF TrackedInv, ClosedFree
  <1>21. OneSlot'
    <2>1. SUFFICES ASSUME NEW k \in Kinds, NEW o \in Kinds,
                          NEW i \in DOMAIN tables[k], NEW m \in DOMAIN tables[o],
                          NEW id \in Nat, Keeps(k, i, id)', Keeps(o, m, id)'
                   PROVE  k = o /\ i = m
      BY <1>6 DEF OneSlot
    <2>2. CASE Keeps(k, i, id) /\ Keeps(o, m, id)
      BY <2>2 DEF TrackedInv, OneSlot
    <2>3. CASE ~Keeps(k, i, id) \/ ~Keeps(o, m, id)
      <3>1. j # 0 /\ id = call.object.id /\ Placed(call, kind, j, entry)
        BY <1>18, <2>1, <2>3
      <3>2. ~InTables(id)
        BY <1>14, <3>1
      <3>3. ~Keeps(k, i, id) /\ ~Keeps(o, m, id)
        BY <3>2 DEF InTables
      <3>4. QED  BY <1>18, <2>1, <3>3
    <2>4. QED  BY <2>2, <2>3
  <1>22. \A u \in Callers : Holds(u, call.object.id) => u = t
    <2>1. Holds(t, call.object.id)
      BY <1>1, <1>3, <1>11 DEF Holds, CalledOk
    <2>2. QED  BY <1>3, <2>1 DEF CallsInv, OneHolder
  <1>23. NotYet'
    <2>1. SUFFICES ASSUME NEW u \in Callers, NEW id \in Nat, Opens(u, id)', InTables(id)'
                   PROVE  FALSE
      BY DEF NotYet
    <2>2. u # t /\ Opens(u, id) /\ ~InTables(id)
      BY <1>10, <2>1 DEF TrackedInv, NotYet
    <2>3. PICK k \in Kinds : \E i \in DOMAIN tables[k] : Keeps(k, i, id)'
      BY <1>13, <2>1
    <2>4. PICK i \in DOMAIN tables[k] : Keeps(k, i, id)'
      BY <2>3
    <2>5. ~Keeps(k, i, id)
      BY <2>2 DEF InTables
    <2>6. id = call.object.id
      BY <1>18, <2>4, <2>5
    <2>7. QED  BY <1>22, <2>2, <2>6 DEF Holds
  <1>24. AllEntered'
    <2>1. SUFFICES ASSUME NEW h \in Handles, NEW x, x = native[h], x # NoObject,
                          x.id \notin untracked'
                   PROVE  \/ \E u \in Callers : Opens(u, x.id)'
                          \/ \E i \in DOMAIN tables[x.kind] : Keeps(x.kind, i, x.id)'
      <3>1. \A h \in Handles : native[h] # NoObject => native[h].kind \in Kinds
        BY DEF CallsInv, NativeRight
      <3>2. QED  BY <1>1, <1>6, <3>1 DEF AllEntered, Opens, Keeps
    <2>2. x.id \in Nat /\ x.kind \in Kinds /\ x.id \notin untracked /\ IsOpen(x.id)
          /\ x.id # 0
      BY <1>2, <1>4, <2>1 DEF CallsTyped, ObjectRecords, CallsInv, NativeRight, IsOpen, Misses
    <2>3. CASE \E u \in Callers : u # t /\ Opens(u, x.id)
      BY <1>10, <2>2, <2>3
    <2>4. CASE Opens(t, x.id)
      <3>1. call.op = "open" /\ call.object.id = x.id
        BY <1>1, <2>4 DEF Opens
      <3>2. call.result = "ok" /\ native[call.handle] = call.object
            /\ call.handle \in Handles /\ call.object.kind = call.kind
        BY <1>3, <2>2, <3>1 DEF OpenedOk, ReturnedCalls
      <3>3. call.handle = h
        BY <2>1, <2>2, <3>1, <3>2 DEF CallsInv, OneHandle
      <3>4. j # 0
        BY <1>4, <2>1, <3>1, <3>2 DEF Misses
      <3>5. Placed(call, kind, j, entry)
        BY <1>16, <3>1, <3>4
      <3>6. entry.handle # NoHandle /\ entry.object = x.id /\ kind = x.kind
        BY <1>14, <2>1, <3>1, <3>2, <3>3, <3>4, <3>5 DEF Placed
      <3>7. j \in DOMAIN tables[kind]
        BY <1>5, <3>4
      <3>8. QED  BY <1>5, <1>12, <2>2, <3>6, <3>7
    <2>5. CASE \E i \in DOMAIN tables[x.kind] : Keeps(x.kind, i, x.id)
      <3>1. PICK i \in DOMAIN tables[x.kind] : Keeps(x.kind, i, x.id)
        BY <2>5
      <3>2. CASE ~(x.kind = kind /\ i = j)
        BY <1>12, <2>2, <3>1, <3>2
      <3>3. CASE x.kind = kind /\ i = j
        <4>1. j # 0 /\ tables[kind][j].handle # NoHandle /\ tables[kind][j].object = x.id
          BY <1>7, <2>2, <3>1, <3>3 DEF Keeps
        <4>2. call.op # "open"
          BY <1>14, <1>16, <4>1
        <4>3. call.object.id = x.id /\ CalledOk(call)
          BY <1>3, <1>15, <4>1, <4>2
        <4>4. ~(call.op = "close" /\ call.result = "ok")
          BY <2>2, <4>3 DEF CalledOk
        <4>5. ~(call.op = "close" /\ call.result = "failed")
          BY <1>4, <2>1, <4>3 DEF Misses
        <4>6. call.op # "close"
          BY <1>3, <4>4, <4>5 DEF ReturnedCalls
        <4>7. Changed(call, kind, j, entry)
          BY <1>16, <4>1, <4>2, <4>6
        <4>8. entry.handle # NoHandle /\ entry.object = x.id
          BY <1>3, <4>1, <4>2, <4>7 DEF Changed
        <4>9. QED  BY <1>12, <2>2, <3>1, <3>3, <4>8
      <3>4. QED  BY <3>2, <3>3
    <2>6. QED  BY <2>1, <2>2, <2>3, <2>4, <2>5 DEF TrackedInv, AllEntered
  <1>25. KindKnown'
    <2>1. SUFFICES ASSUME NEW u \in Callers, detour'[u].at # "idle", detour'[u].op # "open",
                          NEW k \in Kinds, NEW i \in DOMAIN tables[k],
                          NEW id, id = detour[u].target, Keeps(k, i, id)'
                   PROVE  detour'[u].kind = k
      BY <1>6, <1>8 DEF KindKnown, Keeps
    <2>2. u # t /\ detour'[u] = detour[u]
      BY <1>8, <2>1
    <2>3. id \in Nat
      BY <1>2, <2>1, <2>2 DEF CallsTyped, EnteredCalls, ReturnedCalls, AtRest
    <2>4. Holds(u, id)
      BY <2>1, <2>2 DEF Holds
    <2>5. Keeps(k, i, id)
      BY <1>18, <1>22, <2>1, <2>2, <2>3, <2>4
    <2>6. QED  BY <2>1, <2>2, <2>5 DEF TrackedInv, KindKnown
  <1>26. /\ observed \in [Objects -> Nat]
         /\ observed' = observed \/
               /\ observed' = [observed EXCEPT ![call.object.id] = @ + 1]
               /\ j # 0 /\ kind # "pipe" /\ Changed(call, kind, j, entry)
    BY <1>4 DEF LedgerTyped, Tracks
  <1>27. \A id \in Objects : observed'[id] = observed[id] \/
            /\ id = call.object.id /\ j # 0 /\ InTables(id)
            /\ observed'[id] = observed[id] + 1
            /\ kind # "pipe" /\ Changed(call, kind, j, entry)
    BY <1>15, <1>26 DEF Changed
  <1>28. ASSUME NEW k \in Kinds, NEW i \in DOMAIN tables[k],
                tables'[k][i].handle # NoHandle
         PROVE  tables'[k][i].calls = observed'[tables'[k][i].object]
    <2>1. PICK e : e = tables'[k][i]
      OBVIOUS
    <2>2. e.object \in 1..calls /\ e.object \in Nat /\ e.object \in Objects
      BY <1>1, <1>2, <1>6, <1>28, <2>1 DEF TablesTyped, CallsTyped
    <2>3. CASE ~(k = kind /\ i = j)
      <3>1. e = tables[k][i] /\ Keeps(k, i, e.object)
        BY <1>6, <1>28, <2>1, <2>3 DEF Keeps
      <3>2. e.calls = observed[e.object]
        BY <1>28, <2>1, <3>1 DEF TrackedInv, CallsCounted
      <3>3. ~(e.object = call.object.id /\ j # 0 /\ Changed(call, kind, j, entry))
        <4>1. SUFFICES ASSUME e.object = call.object.id, j # 0, Changed(call, kind, j, entry)
                       PROVE  FALSE
          OBVIOUS
        <4>2. Keeps(kind, j, e.object) /\ j \in DOMAIN tables[kind]
          BY <1>5, <1>15, <4>1 DEF Changed
        <4>3. QED  BY <1>5, <2>2, <2>3, <3>1, <4>2 DEF TrackedInv, OneSlot
      <3>4. QED  BY <1>27, <2>1, <2>2, <3>2, <3>3
    <2>4. CASE k = kind /\ i = j
      <3>1. e = entry /\ j # 0 /\ e.object = call.object.id /\ call.op # "close"
        BY <1>6, <1>7, <1>17, <1>28, <2>1, <2>4
      <3>2. CASE call.op = "open"
        <4>1. entry.calls = 0 /\ ~InTables(call.object.id)
          BY <1>14, <1>16, <3>1, <3>2 DEF Placed
        <4>2. observed[call.object.id] = 0
          BY <1>3, <1>11, <3>2 DEF TrackedInv, CallsCounted
        <4>3. QED  BY <1>3, <1>27, <2>1, <3>1, <4>1, <4>2
      <3>3. CASE call.op # "open"
        <4>1. Changed(call, kind, j, entry) /\ tables[kind][j].object = call.object.id
              /\ tables[kind][j].handle # NoHandle
          BY <1>15, <1>16, <3>1, <3>3
        <4>2. tables[kind][j].calls = observed[call.object.id]
          BY <1>5, <2>4, <4>1 DEF TrackedInv, CallsCounted
        <4>3. CASE kind = "pipe"
          BY <1>3, <1>27, <2>1, <3>1, <4>1, <4>2, <4>3 DEF Changed
        <4>4. CASE kind # "pipe"
          <5>1. observed'[call.object.id] = observed[call.object.id] + 1
            BY <1>3, <1>4, <1>26, <3>1, <4>1, <4>4 DEF Tracks
          <5>2. entry.calls = tables[kind][j].calls + 1
            BY <4>1, <4>4 DEF Changed
          <5>3. QED  BY <2>1, <3>1, <4>2, <5>1, <5>2
        <4>5. QED  BY <4>3, <4>4
      <3>4. QED  BY <3>2, <3>3
    <2>5. QED  BY <2>3, <2>4
  <1>29. CallsCounted'
    <2>1. ASSUME NEW id \in Objects, id > calls \/ (\E u \in Callers : Opens(u, id)')
          PROVE  observed'[id] = 0
      <3>1. id \in Nat
        BY TrackingAssumption, LargestOfTwo DEF Objects
      <3>2. id > calls \/ (\E u \in Callers : Opens(u, id))
        BY <1>10, <2>1, <3>1
      <3>3. observed[id] = 0
        BY <3>2 DEF TrackedInv, CallsCounted
      <3>4. ~(InTables(id) /\ id = call.object.id)
        BY <1>2, <1>3, <3>1, <3>2 DEF CallsTyped, TrackedInv, NotYet
      <3>5. QED  BY <1>27, <3>3, <3>4
    <2>2. QED  BY <1>1, <1>6, <1>28, <2>1 DEF CallsCounted
  <1>30. ASSUME NEW k \in Kinds, NEW i \in DOMAIN tables[k]
         PROVE  tables'[k][i].session \in {0, tables'[k][i].own_session}
    <2>1. CASE ~(k = kind /\ i = j)
      BY <1>6, <1>30, <2>1 DEF TrackedInv, SessionsKnown
    <2>2. CASE k = kind /\ i = j
      <3>1. tables'[k][i] = entry /\ j # 0
        BY <1>6, <1>7, <1>30, <2>2
      <3>2. CASE Placed(call, kind, j, entry)
        <4>1. CASE kind = "request"
          <5>1. call.op = "open" /\ call.kind = "request"
            BY <3>2, <4>1 DEF Placed
          <5>2. KnownSession(call.parent) \in {0, call.object.session}
            BY <1>1, <5>1, KnownRight
          <5>3. QED  BY <3>1, <3>2, <4>1, <5>2 DEF Placed
        <4>2. CASE kind # "request"
          BY <3>1, <3>2, <4>2 DEF Placed
        <4>3. QED  BY <4>1, <4>2
      <3>3. CASE Dropped(call, kind, j, entry)
        BY <3>1, <3>3, NoReportApart DEF Dropped
      <3>4. CASE Changed(call, kind, j, entry)
        BY <1>30, <2>2, <3>1, <3>4 DEF Changed, TrackedInv, SessionsKnown
      <3>5. QED  BY <1>16, <3>1, <3>2, <3>3, <3>4
    <2>3. QED  BY <2>1, <2>2
  <1>31. "connection" \in Kinds /\ "session" \in Kinds
    BY DEF Kinds, HttpKinds
  <1>32. ASSUME NEW i \in DOMAIN tables["connection"], NEW h \in Handles,
                Keeps("connection", i, native[h].id)'
         PROVE  tables'["connection"][i].parent = native[h].parent
    <2>1. PICK id : id = native[h].id
      OBVIOUS
    <2>2. id \in Nat /\ Keeps("connection", i, id)'
      BY <1>1, <1>2, <1>32, <2>1 DEF CallsTyped, ObjectRecords
    <2>3. CASE Keeps("connection", i, id)
      <3>1. tables["connection"][i].parent = native[h].parent
        BY <2>1, <2>3 DEF TrackedInv, SessionsKnown
      <3>2. CASE ~(kind = "connection" /\ i = j)
        BY <1>6, <1>31, <3>1, <3>2
      <3>3. CASE kind = "connection" /\ i = j
        <4>1. j # 0 /\ tables'["connection"][i] = entry /\ entry.handle # NoHandle
              /\ tables[kind][j].handle # NoHandle
          BY <1>6, <1>7, <1>12, <1>31, <2>2, <2>3, <3>3 DEF Keeps
        <4>2. Changed(call, kind, j, entry)
          BY <1>14, <1>16, <1>17, <4>1
        <4>3. QED  BY <3>1, <3>3, <4>1, <4>2 DEF Changed
      <3>4. QED  BY <3>2, <3>3
    <2>4. CASE ~Keeps("connection", i, id)
      <3>1. /\ kind = "connection" /\ i = j /\ j # 0 /\ id = call.object.id
            /\ Placed(call, kind, j, entry)
        BY <1>18, <1>31, <2>2, <2>4
      <3>2. native[call.handle] = call.object /\ call.handle \in Handles
        BY <1>14, <3>1
      <3>3. h = call.handle
        BY <1>3, <2>1, <3>1, <3>2 DEF CallsInv, OneHandle
      <3>4. call.object.parent = call.parent /\ entry.parent = call.parent
        BY <1>3, <3>1 DEF Placed, OpenedOk
      <3>5. QED  BY <1>6, <1>31, <3>1, <3>2, <3>3, <3>4
    <2>5. QED  BY <2>3, <2>4
  <1>33. ASSUME NEW i \in DOMAIN tables["session"], NEW h \in Handles,
                native[h].kind = "connection",
                tables'["session"][i].handle = native[h].parent
         PROVE  tables'["session"][i].object = native[h].session
    <2>1. native[h].parent \in HttpHandles /\ native[h].parent # NoHandle
      BY <1>33, TrackingAssumption DEF CallsInv, SessionsKept
    <2>2. CASE ~(kind = "session" /\ i = j)
      BY <1>6, <1>31, <1>33, <2>2 DEF TrackedInv, SessionsKnown
    <2>3. CASE kind = "session" /\ i = j
      <3>1. j # 0 /\ tables'["session"][i] = entry /\ entry.handle = native[h].parent
            /\ entry.object = call.object.id /\ entry.handle = call.handle
            /\ call.op # "close"
        BY <1>6, <1>7, <1>17, <1>31, <1>33, <2>1, <2>3
      <3>2. CASE call.op = "open"
        <4>1. native[call.handle] = call.object
          BY <1>14, <1>16, <3>1, <3>2
        <4>2. call.object # NoObject
          BY <1>3 DEF NoObject
        <4>3. native[native[h].parent].id = native[h].session
          BY <1>33, <3>1, <4>1, <4>2 DEF CallsInv, SessionsKept
        <4>4. QED  BY <3>1, <4>1, <4>3
      <3>3. CASE call.op # "open"
        <4>1. tables["session"][i].handle = native[h].parent
              /\ tables["session"][i].object = call.object.id
          BY <1>15, <2>3, <3>1, <3>3
        <4>2. QED  BY <1>33, <3>1, <4>1 DEF TrackedInv, SessionsKnown
      <3>4. QED  BY <3>2, <3>3
    <2>4. QED  BY <2>2, <2>3
  <1>34. SessionsKnown'
    BY <1>1, <1>6, <1>30, <1>31, <1>32, <1>33 DEF SessionsKnown
  <1>35. ASSUME NEW o \in 1..calls, o \in Nat, ~InTables(o), \A u \in Callers : ~Opens(u, o)
         PROVE  /\ ~InTables(o)' /\ (\A u \in Callers : ~Opens(u, o)')
                /\ observed'[o] = observed[o]
    <2>1. \A u \in Callers : ~Opens(u, o)'
      BY <1>10, <1>35
    <2>2. ~InTables(o)'
      <3>1. SUFFICES ASSUME InTables(o)' PROVE FALSE
        OBVIOUS
      <3>2. PICK k \in Kinds : \E i \in DOMAIN tables[k] : Keeps(k, i, o)'
        BY <1>13, <1>35, <3>1
      <3>3. PICK i \in DOMAIN tables[k] : Keeps(k, i, o)'
        BY <3>2
      <3>4. ~Keeps(k, i, o)
        BY <1>35 DEF InTables
      <3>5. o = call.object.id /\ Placed(call, kind, j, entry)
        BY <1>18, <1>35, <3>3, <3>4
      <3>6. QED  BY <1>11, <1>35, <3>5 DEF Placed
    <2>3. o \in Objects
      BY <1>2, <1>35 DEF CallsTyped
    <2>4. QED  BY <1>27, <1>35, <2>1, <2>2, <2>3
  <1>36. ASSUME r # NoReport
         PROVE  /\ r.kind # "pipe" =>
                      /\ r.object \in 1..calls /\ ~InTables(r.object)'
                      /\ \A u \in Callers : ~Opens(u, r.object)'
                      /\ r.calls = observed'[r.object]
                /\ r.session \in {0, r.own_session}
    <2>1. r.kind = kind
      BY <1>4, <1>36 DEF Moves
    <2>2. CASE call.op = "open"
      <3>1. /\ j = 0 /\ r.object = call.object.id /\ r.calls = 0
            /\ \/ r.session = 0
               \/ /\ call.kind = "request" /\ r.session = KnownSession(call.parent)
                  /\ r.own_session = call.object.session
        BY <1>4, <1>36, <2>2 DEF Tells
      <3>2. r.session \in {0, r.own_session}
        BY <1>1, <2>2, <3>1, KnownRight
      <3>3. observed[call.object.id] = 0 /\ observed'[call.object.id] = 0
        BY <1>3, <1>11, <1>27, <2>2, <3>1 DEF TrackedInv, CallsCounted
      <3>4. ~InTables(call.object.id)'
        <4>1. \A k \in Kinds : \A i \in DOMAIN tables[k] : ~(k = kind /\ i = j)
          BY <1>7, <3>1
        <4>2. ~InTables(call.object.id)
          BY <1>3, <1>11, <2>2 DEF TrackedInv, NotYet
        <4>3. QED  BY <1>3, <1>12, <1>13, <4>1, <4>2 DEF InTables
      <3>5. \A u \in Callers : ~Opens(u, call.object.id)'
        BY <1>3, <1>10, <1>22 DEF Holds
      <3>6. QED  BY <1>3, <3>1, <3>2, <3>3, <3>4, <3>5
    <2>3. CASE call.op # "open"
      <3>1. /\ j # 0 /\ (call.op = "close" \/ kind = "pipe")
            /\ r.object = tables[kind][j].object /\ r.calls = tables[kind][j].calls
            /\ r.session = tables[kind][j].session
            /\ r.own_session = tables[kind][j].own_session
        BY <1>4, <1>36, <2>3 DEF Tells
      <3>2. /\ tables[kind][j].object = call.object.id /\ j \in DOMAIN tables[kind]
            /\ tables[kind][j].handle # NoHandle
            /\ Keeps(kind, j, call.object.id) /\ InTables(call.object.id)
        BY <1>5, <1>15, <2>3, <3>1
      <3>3. r.session \in {0, r.own_session}
        BY <1>5, <3>1, <3>2 DEF TrackedInv, SessionsKnown
      <3>4. r.calls = observed[call.object.id]
        BY <1>5, <3>1, <3>2 DEF TrackedInv, CallsCounted
      <3>5. CASE kind = "pipe"
        BY <2>1, <3>3, <3>5
      <3>6. CASE kind # "pipe"
        <4>1. call.op = "close" /\ entry.handle = NoHandle
          BY <1>17, <3>1, <3>6
        <4>2. observed'[call.object.id] = observed[call.object.id]
          BY <1>3, <1>27, <4>1 DEF Changed
        <4>3. ~InTables(call.object.id)'
          <5>1. SUFFICES ASSUME NEW k \in Kinds, NEW i \in DOMAIN tables[k],
                                Keeps(k, i, call.object.id)'
                         PROVE  FALSE
            BY <1>3, <1>13
          <5>2. ~(k = kind /\ i = j) /\ Keeps(k, i, call.object.id)
            BY <1>3, <1>12, <4>1, <5>1
          <5>3. QED  BY <1>3, <1>5, <3>2, <5>2 DEF TrackedInv, OneSlot
        <4>4. \A u \in Callers : ~Opens(u, call.object.id)'
          BY <1>3, <1>10, <3>2 DEF TrackedInv, NotYet
        <4>5. QED  BY <1>3, <3>1, <3>2, <3>3, <3>4, <4>2, <4>3, <4>4
      <3>7. QED  BY <3>5, <3>6
    <2>4. QED  BY <2>2, <2>3
  <1>37. ReportsDone'
    <2>1. /\ emitted \in Seq(Reports)
          /\ emitted' = IF r = NoReport THEN emitted ELSE Append(emitted, r)
          /\ r \in Reports \cup {NoReport}
      BY <1>4 DEF LedgerTyped, Moves
    <2>2. SUFFICES ASSUME NEW m \in DOMAIN emitted', NEW x, x = emitted'[m]
                   PROVE  /\ x.kind # "pipe" =>
                                /\ x.object \in 1..calls /\ ~InTables(x.object)'
                                /\ \A u \in Callers : ~Opens(u, x.object)'
                                /\ x.calls = observed'[x.object]
                          /\ x.session \in {0, x.own_session}
      BY <1>1 DEF ReportsDone, InTables, Keeps, Opens
    <2>3. \/ m \in DOMAIN emitted /\ x = emitted[m]
          \/ r # NoReport /\ x = r
      <3>1. CASE r = NoReport
        BY <2>1, <2>2, <3>1
      <3>2. CASE r # NoReport
        <4>1. /\ r \in Reports /\ emitted' = Append(emitted, r)
          BY <2>1, <3>2
        <4>2. PICK before, after : before = emitted /\ after = emitted'
          OBVIOUS
        <4>3. m \in DOMAIN after /\ x = after[m] /\ before \in Seq(Reports)
              /\ after = Append(before, r)
          BY <2>1, <2>2, <4>1, <4>2
        <4>4. (m \in DOMAIN before /\ after[m] = before[m]) \/ after[m] = r
          BY ONLY <4>1, <4>3
        <4>5. QED  BY <3>2, <4>2, <4>3, <4>4
      <3>3. QED  BY <3>1, <3>2
    <2>4. CASE r # NoReport /\ x = r
      BY <1>36, <2>4
    <2>5. CASE m \in DOMAIN emitted /\ x = emitted[m]
      <3>1. /\ x.kind # "pipe" =>
                  /\ x.object \in 1..calls /\ ~InTables(x.object)
                  /\ \A u \in Callers : ~Opens(u, x.object)
                  /\ x.calls = observed[x.object]
            /\ x.session \in {0, x.own_session}
        BY <2>5 DEF TrackedInv, ReportsDone
      <3>2. x.object \in 1..calls => x.object \in Nat
        BY <1>2 DEF CallsTyped
      <3>3. QED  BY <1>35, <3>1, <3>2
    <2>6. QED  BY <2>3, <2>4, <2>5
  <1>38. QED
    BY <1>19, <1>20, <1>21, <1>23, <1>24, <1>25, <1>29, <1>34, <1>37 DEF TrackedInv

(* Every answer of the system.                                             *)
LEMMA TrackedNative ==
    ASSUME CallsInv, CallsInv', TablesTyped, LedgerTyped, TrackedInv,
           NEW t \in Callers, NativeCall(t), ~reused'
    PROVE  TrackedInv'
  <1>1. PICK call : call = detour[t]
    OBVIOUS
  <1>2. CallsTyped
    BY DEF CallsInv
  <1>3. ASSUME NEW handle, NEW object, NEW result, Return(t, handle, object, result)
        PROVE  \E back : /\ detour' = [detour EXCEPT ![t] = back]
                         /\ back.at = "returned" /\ back.op = call.op
                         /\ back.kind = call.kind /\ back.target = call.target
                         /\ back.handle = handle /\ back.object = object
                         /\ back.result = result
    <2>1. PICK back :
             back = [at |-> "returned", op |-> call.op, kind |-> call.kind,
                     handle |-> handle, object |-> object, started |-> call.started,
                     finished |-> now, result |-> result, target |-> call.target,
                     parent |-> call.handle]
      OBVIOUS
    <2>2. detour' = [detour EXCEPT ![t] = back]
      BY <1>1, <1>2, <1>3, <2>1 DEF Return, CallsTyped
    <2>3. /\ back.at = "returned" /\ back.op = call.op
          /\ back.kind = call.kind /\ back.target = call.target
          /\ back.handle = handle /\ back.object = object
          /\ back.result = result
      BY ONLY <2>1
    <2>4. QED  BY ONLY <2>2, <2>3, Zenon
  <1>4. CASE call.op = "open" /\ NativeOpen(t)
    <2>1. CASE /\ Return(t, NoHandle, [NewObject(call) EXCEPT !.parent = NoHandle], "failed")
               /\ native' = native
      <3>1. PICK object : object = [NewObject(call) EXCEPT !.parent = NoHandle]
        OBVIOUS
      <3>2. object.id = call.number
        BY <3>1 DEF NewObject
      <3>3. PICK back : /\ detour' = [detour EXCEPT ![t] = back]
                        /\ back.at = "returned" /\ back.op = call.op
                        /\ back.kind = call.kind /\ back.target = call.target
                        /\ back.object = object
        BY <1>3, <2>1, <3>1
      <3>4. QED
        BY <1>1, <1>4, <2>1, <3>2, <3>3, TrackedAnswered
    <2>2. ASSUME NEW handle \in LowestVacant(call.kind),
                 native' = [native EXCEPT ![handle] = NewObject(call)],
                 Return(t, handle, NewObject(call), "ok"),
                 reused' = (reused \/ IsUnobserved(handle))
          PROVE  TrackedInv'
      <3>1. ~IsUnobserved(handle)
        BY <2>2, Zenon
      <3>2. QED  BY <1>1, <1>4, <2>2, <3>1, TrackedOpened
    <2>3. QED  BY <1>1, <1>4, <2>1, <2>2 DEF NativeOpen
  <1>5. CASE call.op # "open" /\ NativeUse(t)
    <2>1. PICK result \in {"ok", "failed"} :
             /\ Return(t, call.handle, native[call.handle], result)
             /\ native' = IF call.op = "close" /\ result = "ok"
                          THEN [native EXCEPT ![call.handle] = NoObject]
                          ELSE native
      BY <1>1, <1>5 DEF NativeUse
    <2>2. PICK back : /\ detour' = [detour EXCEPT ![t] = back]
                      /\ back.at = "returned" /\ back.op = call.op
                      /\ back.kind = call.kind /\ back.target = call.target
                      /\ back.handle = call.handle /\ back.object = native[call.handle]
                      /\ back.result = result
      BY <1>3, <2>1
    <2>3. QED  BY <1>1, <1>5, <2>1, <2>2, TrackedAnswered
  <1>6. QED  BY <1>1, <1>4, <1>5 DEF NativeCall, NativeOpen, NativeUse

-----------------------------------------------------------------------------
(* The invariant, of every reachable state.                                *)
LEMMA TrackingStart == TrackingInit => TrackingInv
  <1>1. SUFFICES ASSUME TrackingInit PROVE TrackingInv
    OBVIOUS
  <1>2. CallsInv
    BY <1>1, CallsStart
  <1>3. /\ calls = 0 /\ emitted = <<>> /\ untracked = {}
        /\ observed = [id \in Objects |-> 0]
        /\ sequence = [kind \in {"pipe", "log", "request"} |-> 0]
        /\ \A h \in Handles : native[h] = NoObject
        /\ \A t \in Callers : detour[t].at = "idle"
    BY <1>1 DEF TrackingInit, AtRest
  <1>4. /\ DOMAIN tables = Kinds
        /\ \A kind \in Kinds : /\ tables[kind] \in [1..TableSizes[kind] -> Entries]
                               /\ \A i \in DOMAIN tables[kind] : tables[kind][i] = NoEntry
    BY <1>1, NoReportApart DEF TrackingInit
  <1>5. TablesTyped
    BY <1>4, NoReportApart DEF TablesTyped
  <1>6. LedgerTyped
    BY <1>3 DEF LedgerTyped
  <1>7. \A kind \in Kinds : \A i \in DOMAIN tables[kind] :
           tables[kind][i].handle = NoHandle /\ \A id : ~Keeps(kind, i, id)
    BY <1>4, NoReportApart DEF Keeps
  <1>8. \A t \in Callers : ~Closing(t) /\ \A id : ~Opens(t, id)
    BY <1>3 DEF Closing, Opens
  <1>9. EntriesOwned /\ ClosedFree /\ OneSlot /\ NotYet
    BY <1>7, <1>8 DEF EntriesOwned, ClosedFree, OneSlot, NotYet
  <1>10. AllEntered /\ KindKnown
    BY <1>3 DEF AllEntered, KindKnown
  <1>11. CallsCounted /\ ReportsDone
    BY <1>3, <1>7 DEF CallsCounted, ReportsDone
  <1>12. SessionsKnown
    <2>1. "connection" \in Kinds
      BY DEF Kinds, HttpKinds
    <2>2. QED
      BY <1>3, <1>4, <1>7, <2>1, NoReportApart DEF SessionsKnown, NoObject
  <1>13. NumbersInv
    <2>1. \A kind \in Numbered : kind \in Kinds
      BY DEF Numbered, Kinds, FileKinds, HttpKinds
    <2>2. \A kind \in Numbered : \A i \in DOMAIN tables[kind] : Outstanding(kind, i) = 0
      BY <1>4, <2>1, NoReportApart DEF Outstanding
    <2>3. \A kind \in Numbered : sequence[kind] = 0
      BY <1>3 DEF Numbered
    <2>4. QED  BY <1>3, <2>2, <2>3 DEF NumbersInv
  <1>14. ReportedOnce
    BY <1>3 DEF ReportedOnce
  <1>15. LogsInv
    BY <1>1 DEF TrackingInit, LogsInv, LogsAccounted, NoAggregate, Sums
  <1>16. QED
    BY <1>2, <1>5, <1>6, <1>9, <1>10, <1>11, <1>12, <1>13, <1>14, <1>15
       DEF TrackingInv, TrackedInv

(* A step that is no observation leaves the ledger as it is.               *)
LEMMA LedgerUntouched ==
    ASSUME TrackingInv, UNCHANGED ledgerVars, calls' \in {calls, calls + 1}
    PROVE  TablesTyped' /\ LedgerTyped' /\ NumbersInv' /\ ReportedOnce' /\ LogsInv'
  <1>1. UNCHANGED <<tables, sequence, emitted, observed, untracked>>
        /\ UNCHANGED <<aggregate, log_totals>>
    BY DEF ledgerVars
  <1>2. calls \in Nat
    BY DEF TrackingInv, CallsInv, CallsTyped
  <1>3. TablesTyped'
    BY <1>1, <1>2 DEF TrackingInv, TablesTyped
  <1>4. LedgerTyped' /\ NumbersInv' /\ ReportedOnce'
    BY <1>1 DEF TrackingInv, LedgerTyped, NumbersInv, Outstanding, ReportedOnce
  <1>5. LogsInv'
    BY <1>1 DEF TrackingInv, LogsInv, LogsAccounted
  <1>6. QED  BY <1>3, <1>4, <1>5

(* A step that leaves tables, handles and calls alone; one that enters.    *)
LEMMA TrackedStill ==
    ASSUME TrackedInv, UNCHANGED ledgerVars, UNCHANGED <<calls, native, detour>>
    PROVE  TrackedInv'
  <1>1. UNCHANGED <<tables, emitted, observed, untracked, calls, native, detour>>
    BY DEF ledgerVars
  <1>2. /\ \A id : InTables(id)' <=> InTables(id)
        /\ \A u \in Callers : (Closing(u)' <=> Closing(u))
                              /\ \A id : Opens(u, id)' <=> Opens(u, id)
    BY <1>1 DEF Closing, Opens, InTables, Keeps
  <1>3. EntriesOwned' /\ ClosedFree' /\ OneSlot' /\ NotYet'
    BY <1>1, <1>2 DEF TrackedInv, EntriesOwned, OwnedBy, ClosedFree, OneSlot, Keeps, NotYet
  <1>4. AllEntered' /\ KindKnown' /\ CallsCounted'
    BY <1>1, <1>2 DEF TrackedInv, AllEntered, Keeps, KindKnown, CallsCounted
  <1>5. SessionsKnown' /\ ReportsDone'
    BY <1>1, <1>2 DEF TrackedInv, SessionsKnown, Keeps, ReportsDone
  <1>6. QED  BY <1>3, <1>4, <1>5 DEF TrackedInv

LEMMA TrackedEnterOpen ==
    ASSUME TrackingInv, TrackedInv, CallsInv', NEW t \in Callers, NEW kind \in Kinds,
           EnterOpen(t, kind)
    PROVE  TrackedInv'
  <1>1. CallsInv /\ TablesTyped /\ LedgerTyped
    BY DEF TrackingInv
  <1>2. PICK handle \in Handles \cup {NoHandle} : Enter(t, "open", kind, handle)
    BY DEF EnterOpen, Handles
  <1>3. QED  BY <1>1, <1>2, TrackedEnter DEF Ops

LEMMA TrackedEnterCall ==
    ASSUME TrackingInv, TrackedInv, CallsInv', NEW t \in Callers, EnterCall(t)
    PROVE  TrackedInv'
  <1>1. CallsInv /\ TablesTyped /\ LedgerTyped
    BY DEF TrackingInv
  <1>2. PICK handle \in Handles : \E op \in OpsOf(native[handle].kind) :
           Enter(t, op, IF handle \in HttpHandles THEN native[handle].kind
                                                  ELSE TrackedKind(handle), handle)
    BY DEF EnterCall
  <1>3. PICK op \in OpsOf(native[handle].kind) :
           Enter(t, op, IF handle \in HttpHandles THEN native[handle].kind
                                                  ELSE TrackedKind(handle), handle)
    BY <1>2
  <1>4. PICK kind : kind = IF handle \in HttpHandles THEN native[handle].kind
                                                     ELSE TrackedKind(handle)
    OBVIOUS
  <1>5. Enter(t, op, kind, handle)
    BY <1>3, <1>4
  <1>6. op \in Ops /\ handle # NoHandle /\ handle \in Handles \cup {NoHandle}
    BY TrackingAssumption DEF OpsOf, Ops, Handles
  <1>7. kind \in Kinds \cup {"none"}
    BY <1>1, <1>4 DEF CallsInv, CallsTyped, ObjectRecords, TrackedKind, Kinds, FileKinds
  <1>8. QED  BY <1>1, <1>4, <1>5, <1>6, <1>7, TrackedEnter

(* Every step.                                                             *)
LEMMA TrackingStep ==
    ASSUME TrackingInv, kinds \subseteq Kinds, TrackingNext
    PROVE  TrackingInv'
  <1>1. /\ CallsInv /\ TablesTyped /\ LedgerTyped /\ (~reused => TrackedInv)
        /\ NumbersInv /\ ReportedOnce /\ LogsInv
    BY DEF TrackingInv
  <1>2. CallsInv'
    BY <1>1, CallsStep
  <1>3. ASSUME NEW t \in Callers, NEW kind \in kinds, EnterOpen(t, kind)
        PROVE  TrackingInv'
    <2>1. UNCHANGED ledgerVars /\ calls' = calls + 1 /\ reused' = reused
      BY <1>3 DEF EnterOpen, Enter
    <2>2. TablesTyped' /\ LedgerTyped' /\ NumbersInv' /\ ReportedOnce' /\ LogsInv'
      BY <2>1, LedgerUntouched
    <2>3. ~reused' => TrackedInv'
      BY <1>1, <1>2, <1>3, <2>1, TrackedEnterOpen
    <2>4. QED  BY <1>2, <2>2, <2>3 DEF TrackingInv
  <1>4. ASSUME NEW t \in Callers, EnterCall(t)
        PROVE  TrackingInv'
    <2>1. UNCHANGED ledgerVars /\ calls' = calls + 1 /\ reused' = reused
      BY <1>4 DEF EnterCall, Enter
    <2>2. TablesTyped' /\ LedgerTyped' /\ NumbersInv' /\ ReportedOnce' /\ LogsInv'
      BY <2>1, LedgerUntouched
    <2>3. ~reused' => TrackedInv'
      BY <1>1, <1>2, <1>4, <2>1, TrackedEnterCall
    <2>4. QED  BY <1>2, <2>2, <2>3 DEF TrackingInv
  <1>5. ASSUME NEW t \in Callers, NativeCall(t)
        PROVE  TrackingInv'
    <2>1. UNCHANGED ledgerVars /\ calls' = calls
      BY <1>5 DEF NativeCall
    <2>2. TablesTyped' /\ LedgerTyped' /\ NumbersInv' /\ ReportedOnce' /\ LogsInv'
      BY <2>1, LedgerUntouched
    <2>3. ~reused' => ~reused
      BY <1>5, Zenon DEF NativeCall, NativeOpen, NativeUse
    <2>4. ~reused' => TrackedInv'
      BY <1>1, <1>2, <1>5, <2>3, TrackedNative
    <2>5. QED  BY <1>2, <2>2, <2>4 DEF TrackingInv
  <1>6. ASSUME NEW t \in Callers, Observe(t)
        PROVE  TrackingInv'
    <2>1. PICK call : call = detour[t]
      OBVIOUS
    <2>2. PICK kind, j, entry, given, r : Ledger(call, kind, j, entry, given, r)
      BY <1>1, <1>6, <2>1, ObserveLedger
    <2>3. detour[t].at = "returned" /\ calls' = calls /\ reused' = reused
      BY <1>6 DEF Observe
    <2>4. call.object.id \in Objects /\ call.object.id \in Nat /\ CallsTyped
      BY <1>1, <2>1, <2>3, ReturnedFacts DEF CallsInv
    <2>5. TablesTyped' /\ LedgerTyped'
      BY <1>1, <2>2, <2>3, <2>4, LedgerTypes
    <2>6. NumbersInv' /\ ReportedOnce'
      BY <1>1, <2>2, <2>3, <2>4, NumbersKept
    <2>7. LogsInv'
      BY <1>1, <1>6, LogsKept
    <2>8. ~reused' => TrackedInv'
      BY <1>1, <1>2, <1>6, <2>1, <2>2, <2>3, TrackedObserved
    <2>9. QED  BY <1>2, <2>5, <2>6, <2>7, <2>8 DEF TrackingInv
  <1>7. CASE ClockTicks
    <2>1. UNCHANGED ledgerVars /\ UNCHANGED <<calls, native, detour, reused>>
      BY <1>7 DEF ClockTicks
    <2>2. TablesTyped' /\ LedgerTyped' /\ NumbersInv' /\ ReportedOnce' /\ LogsInv'
      BY <2>1, LedgerUntouched
    <2>3. ~reused' => TrackedInv'
      BY <1>1, <2>1, TrackedStill
    <2>4. QED  BY <1>2, <2>2, <2>3 DEF TrackingInv
  <1>8. QED  BY <1>3, <1>4, <1>5, <1>6, <1>7 DEF TrackingNext

LEMMA TrackingStill ==
    ASSUME TrackingInv, UNCHANGED trackingVars
    PROVE  TrackingInv'
  <1>1. UNCHANGED ledgerVars /\ UNCHANGED <<now, native, calls, detour, reused>>
    BY DEF trackingVars
  <1>2. TablesTyped' /\ LedgerTyped' /\ NumbersInv' /\ ReportedOnce' /\ LogsInv'
    BY <1>1, LedgerUntouched
  <1>3. CallsInv'
    BY <1>1, CallsStill DEF TrackingInv, CallsInv, CallsTyped
  <1>4. ~reused' => TrackedInv'
    BY <1>1, TrackedStill DEF TrackingInv
  <1>5. QED  BY <1>2, <1>3, <1>4 DEF TrackingInv

-----------------------------------------------------------------------------
(* What the invariant says of the tables and reports.                      *)
LEMMA TablesAreExact ==
    ASSUME TrackingInv, kinds \subseteq Kinds
    PROVE  TablesExact
  <1>1. SUFFICES ASSUME ~reused, \A t \in Callers : detour[t].at = "idle",
                        NEW kind \in Kinds
                 PROVE  {tables[kind][i].object : i \in 1..TableSizes[kind]}
                              \ ({0} \cup untracked)
                           = {native[h].id : h \in {g \in Handles : native[g].kind = kind}}
                                \ untracked
    BY DEF TablesExact
  <1>2. /\ TrackedInv /\ CallsInv /\ CallsTyped /\ TablesTyped
    BY <1>1 DEF TrackingInv, CallsInv
  <1>3. DOMAIN tables[kind] = 1..TableSizes[kind]
    BY <1>2 DEF TablesTyped
  <1>4. \A t \in Callers : ~Closing(t) /\ \A id : ~Opens(t, id)
    BY <1>1 DEF Closing, Opens
  <1>5. ASSUME NEW i \in 1..TableSizes[kind], tables[kind][i].object # 0
        PROVE  \E h \in Handles : native[h].kind = kind
                                  /\ native[h].id = tables[kind][i].object
    <2>1. tables[kind][i].handle # NoHandle
      BY <1>2, <1>3, <1>5, NoReportApart DEF TablesTyped
    <2>2. OwnedBy(kind, tables[kind][i]) /\ tables[kind][i].handle \in Handles
      BY <1>2, <1>3, <2>1, EntryObject DEF TrackedInv, EntriesOwned
    <2>3. QED  BY <1>4, <2>2 DEF OwnedBy
  <1>6. ASSUME NEW h \in Handles, native[h].kind = kind, native[h].id \notin untracked
        PROVE  /\ \E i \in 1..TableSizes[kind] : tables[kind][i].object = native[h].id
               /\ native[h].id # 0
    <2>1. native[h] # NoObject
      BY <1>6 DEF NoObject, Kinds, FileKinds, HttpKinds
    <2>2. native[h].id # 0
      BY <1>2, <2>1 DEF CallsInv, NativeRight
    <2>3. \E i \in DOMAIN tables[kind] : Keeps(kind, i, native[h].id)
      BY <1>2, <1>4, <1>6, <2>1 DEF TrackedInv, AllEntered
    <2>4. QED  BY <1>3, <2>2, <2>3 DEF Keeps
  <1>7. PICK objects : objects = {tables[kind][i].object : i \in 1..TableSizes[kind]}
    OBVIOUS
  <1>8. PICK opened : opened = {native[h].id : h \in {g \in Handles : native[g].kind = kind}}
    OBVIOUS
  <1>9. objects \ ({0} \cup untracked) \subseteq opened
    BY <1>5, <1>7, <1>8
  <1>10. \A id \in opened : id \notin untracked => id \in objects /\ id # 0
    BY <1>6, <1>7, <1>8
  <1>11. QED  BY <1>7, <1>8, <1>9, <1>10

(* The diagnostics of the requests agree with what the service did,        *)
(* whatever the number of threads, calls, handles and slots.               *)
THEOREM RequestsAreTold == TrackingSpec => []RequestsTold
  <1>1. TrackingInit => kinds \subseteq Kinds /\ TrackingInv
    BY TrackingStart DEF TrackingInit, Kinds
  <1>2. kinds \subseteq Kinds /\ TrackingInv /\ [TrackingNext]_trackingVars
           => (kinds \subseteq Kinds)' /\ TrackingInv'
    <2>1. [TrackingNext]_trackingVars => kinds' = kinds
      BY DEF TrackingNext, EnterOpen, EnterCall, Enter, NativeCall, Observe, ClockTicks,
         trackingVars
    <2>2. QED  BY <2>1, TrackingStep, TrackingStill
  <1>3. kinds \subseteq Kinds /\ TrackingInv => RequestsTold
    <2>1. ASSUME TrackingInv PROVE ReportsOwn /\ ReportedOnce /\ LogsAccounted
      BY <2>1 DEF TrackingInv, LogsInv, TrackedInv, ReportsDone, ReportsOwn
    <2>2. QED  BY <2>1, TablesAreExact DEF RequestsTold
  <1>4. QED  BY <1>1, <1>2, <1>3, PTL DEF TrackingSpec
=============================================================================
